----------------------------- MODULE MCObservers -----------------------------
(***************************************************************************)
(* Small instances of Observers: a node pool of one node, a pool whose     *)
(* size only the labels of its node give, and one whose machine type does  *)
(* not parse; a JobSet of two replicated jobs, and two of a single one,    *)
(* all of the same name.                                                   *)
(***************************************************************************)
EXTENDS Observers

CONSTANTS Changes, Failures   \* bounds on what the environment does

Labels(pool, jobset, topology, accelerators) ==
    [pool |-> pool, jobset |-> jobset, topology |-> topology, accelerators |-> accelerators]

MCNodeLabels ==
    [n \in Nodes |-> CASE n = "a" -> Labels("p", "js", <<2, 2>>, 4)
                       [] n = "c" -> Labels("q", Nil, <<1, 1>>, 1)
                       [] OTHER   -> Labels("q", Nil, << >>, 0)]

MCPoolSpec ==
    [p \in NodePools |-> CASE p = "p" -> [topology |-> <<2, 2>>, chips |-> 4]
                           [] p = "q" -> [topology |-> <<1, 1>>, chips |-> 4]
                           [] OTHER   -> [topology |-> <<2, 4>>, chips |-> 0]]

MCJobSetSpec ==
    [u \in JobSets |-> [name |-> "js",
                        jobs |-> IF u = "u1" THEN <<[replicas |-> 1, parallelism |-> 1],
                                                    [replicas |-> 1, parallelism |-> Nil]>>
                                             ELSE <<[replicas |-> 1, parallelism |-> Nil]>>]]

MCBound == [e \in {"change", "fail"} |-> IF e = "change" THEN Changes ELSE Failures]
=============================================================================
