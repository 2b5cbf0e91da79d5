------------------------- MODULE MCSliceReconciler --------------------------
(***************************************************************************)
(* Small instances of SliceReconciler.                                     *)
(***************************************************************************)
EXTENDS SliceReconciler

CONSTANTS Changes, Lookups, Saves, Appends, Lags, Restarts

(* All slices have the same owner.                                         *)
MCOwnerOf == LET o == CHOOSE x \in Owners : TRUE IN [s \in Slices |-> o]

MCBound == [e \in Events |->
              CASE e = "change" -> Changes [] e = "lookup" -> Lookups
                [] e = "save" -> Saves [] e = "append" -> Appends
                [] e = "lag" -> Lags [] OTHER -> Restarts]
=============================================================================
