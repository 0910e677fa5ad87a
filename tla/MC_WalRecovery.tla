--------------------------- MODULE MC_WalRecovery ----------------------------
(***************************************************************************)
(* Checks the recovery queries of WalRecovery, run from the end of the log *)
(* as the layer store runs them, against what WalLog says they return, on  *)
(* every log WalLog can produce within the bounds.                         *)
(***************************************************************************)
EXTENDS WalLog, Functions

CONSTANT NoValue

R == INSTANCE WalRecovery

AllAtEnd == R!GetAllLabelsSinceLastCheckpoint(log, Len(log))
WantedAtEnd(W) == R!GetLabelsSinceLastCheckpoint(log, Len(log), W)

\* The latest checkpoint was written after the label set its id names, or
\* no label set is at or below it (as after a clean).
CheckpointNamesLabelSet(l) ==
    LET kc == SelectLastInSeq(l, IsCheckpoint)
    IN \/ \E k \in 1 .. kc - 1 : IsLabelSet(l[k]) /\ l[k].id = l[kc].id
       \/ \A id \in LabelSetIds(l) : id > LastCheckpointId(l)

(***************************************************************************)
(* Both label queries report the latest checkpoint of the log, although    *)
(* the visitor only keeps the first checkpoint it meets and may stop at a  *)
(* label set before reaching any older one.                                *)
(***************************************************************************)
CheckpointReported ==
    /\ AllAtEnd.checkpoint = LastCheckpointId(log)
    /\ \A W \in SUBSET Labels : WantedAtEnd(W).checkpoint = LastCheckpointId(log)

(***************************************************************************)
(* get_labels_since_last_checkpoint(W) binds exactly what                  *)
(* get_all_labels_since_last_checkpoint binds, restricted to W: removing a *)
(* found label from the wanted set gives the same first-wins rule as       *)
(* skipping labels already discovered.                                     *)
(***************************************************************************)
WantedIsRestriction ==
    \A W \in SUBSET Labels :
        WantedAtEnd(W).visited = Restrict(AllAtEnd.visited, W \cap DOMAIN AllAtEnd.visited)

(***************************************************************************)
(* When the last checkpoint follows the label set it names, the map the   *)
(* backward walk builds is the spec's: the latest binding of every label   *)
(* in a label set newer than the checkpoint, although the walk stops at    *)
(* the named label set rather than at the checkpoint record.               *)
(***************************************************************************)
VisitedMatchesSpecWhenNamed ==
    CheckpointNamesLabelSet(log) => AllAtEnd.visited = LabelsSinceCheckpoint(log)

(***************************************************************************)
(* spec 4.3: the map the walk builds is the latest binding of every label  *)
(* with an id strictly greater than the last checkpoint, for every log.    *)
(***************************************************************************)
VisitedMatchesSpec == AllAtEnd.visited = LabelsSinceCheckpoint(log)

(***************************************************************************)
(* spec 8 scenario 4: get_all_labels_since_last_checkpoint returns the     *)
(* latest binding of every label newer than the last checkpoint.           *)
(***************************************************************************)
ReturnedMatchesSpec == AllAtEnd.labels = LabelsSinceCheckpoint(log)

(***************************************************************************)
(* spec 4.3 and the comment at get_last_id: on a cleaned log holding only  *)
(* a checkpoint, get_last_id falls back to that checkpoint's id.           *)
(***************************************************************************)
LastIdMatchesSpec == R!GetLastId(log, Len(log)).id = LastId(log)
==============================================================================
