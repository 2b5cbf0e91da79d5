---------------------------- MODULE ReportHistory ---------------------------
(***************************************************************************)
(* Aggregator with history variables, which only remember: how often the   *)
(* log has forgotten each resource, and how often it had when the draft    *)
(* and the report read its events.  They tell a history that was really    *)
(* forgotten and started anew from one that merely looks like it.          *)
(***************************************************************************)
EXTENDS Aggregator

VARIABLES
    forgotten,  \* key |-> resource |-> how often its history left the bucket
    drafted,    \* key |-> what forgotten was when the draft read the key
    reported    \* the same of the report

rememberedVars == <<forgotten, drafted, reported>>

HistoryInit ==
    /\ AggregatorInit
    /\ forgotten = [k \in Keys |-> [r \in Resources |-> 0]]
    /\ drafted = EmptyMap /\ reported = EmptyMap

Remember ==
    /\ forgotten' = [k \in Keys |-> [r \in Resources |->
         IF r \in DOMAIN store[k] \ DOMAIN store'[k] THEN forgotten[k][r] + 1
                                                    ELSE forgotten[k][r]]]
    /\ drafted' = [k \in DOMAIN draft'.events |->
         IF k \in DOMAIN draft.events THEN drafted[k] ELSE forgotten[k]]
    /\ reported' = IF at = "publish" /\ at' = "export" THEN drafted
                   ELSE IF report' = NoReport THEN EmptyMap ELSE reported

HistoryNext == AggregatorNext /\ Remember

HistorySpec == HistoryInit /\ [][HistoryNext]_<<allVars, rememberedVars>>

-----------------------------------------------------------------------------
(* What a later report may say of a resource whose history was h: as long  *)
(* as the log has not forgotten the resource, the history only grows; if   *)
(* it has, the history starts again with a down event that is no earlier   *)
(* than the last one that was reported.                                    *)
Continues(h, new, kept) ==
    IF kept THEN IsPrefix(h, new)
            ELSE ~new[1].Up /\ h[Len(h)].Timestamp <= new[1].Timestamp

(* From one report of a process to the next the history behind the counts  *)
(* and durations of a resource never goes back, although the loop reads    *)
(* the objects one after the other while the observers write them: it is   *)
(* neither shortened nor rewritten, and it starts again only if the        *)
(* resource was gone from the log between the two reads.                   *)
ReportsNeverGoBack ==
    [][report # NoReport /\ report' # NoReport =>
         \A k \in Keys : \A r \in DOMAIN report.events[k] \cap DOMAIN report'.events[k] :
            Continues(report.events[k][r], report'.events[k][r],
                      reported'[k][r] = reported[k][r])
      ]_<<allVars, rememberedVars>>
=============================================================================
