------------------------------- MODULE WalLog --------------------------------
(***************************************************************************)
(* What the write-ahead log promises (spec.md sections 3, 4.3 and 4.4),    *)
(* stated over the log as a sequence of records:                           *)
(*  - label-set ids go up by one, checkpoint ids strictly increase;        *)
(*  - the last id is the last label set's id, or the checkpoint id of a    *)
(*    cleaned log holding only a checkpoint;                               *)
(*  - the labels live since the last checkpoint are, for every label, the  *)
(*    latest entry of a label set whose id exceeds that checkpoint.        *)
(* The log grows by appends; the layer store may clean it down to its last *)
(* checkpoint after promoting the labels.                                  *)
(***************************************************************************)
EXTENDS Naturals, Sequences, SequencesExt

CONSTANTS Labels,      \* label strings (model values)
          Layers,      \* layer addresses (model values)
          MaxId,       \* bound on label-set and checkpoint ids
          MaxRecords   \* bound on the length of the log

ASSUME MaxId \in Nat /\ MaxRecords \in Nat

VARIABLE log

\* The label -> layer map of one label set: 1..100 distinct labels.
Entries == UNION {[S -> Layers] : S \in (SUBSET Labels) \ {{}}}

Record == [type : {"LabelSet"}, id : 1..MaxId, entries : Entries]
          \cup [type : {"Checkpoint"}, id : 1..MaxId]

IsLabelSet(r) == r.type = "LabelSet"
IsCheckpoint(r) == r.type = "Checkpoint"

LabelSetIds(l) == {l[k].id : k \in {k \in DOMAIN l : IsLabelSet(l[k])}}

LastCheckpointId(l) ==
    LET k == SelectLastInSeq(l, IsCheckpoint) IN IF k = 0 THEN 0 ELSE l[k].id

LastId(l) ==
    LET k == SelectLastInSeq(l, IsLabelSet)
    IN IF k = 0 THEN LastCheckpointId(l) ELSE l[k].id

\* label -> <<id, layer>> of its latest binding in a label set newer than
\* the last checkpoint.
LabelsSinceCheckpoint(l) ==
    LET live == {k \in DOMAIN l : IsLabelSet(l[k]) /\ l[k].id > LastCheckpointId(l)}
        binders(x) == {k \in live : x \in DOMAIN l[k].entries}
        latest(x) == CHOOSE k \in binders(x) : \A j \in binders(x) : j <= k
    IN [x \in {x \in Labels : binders(x) # {}} |->
            <<l[latest(x)].id, l[latest(x)].entries[x]>>]

TypeOK == log \in Seq(Record) /\ Len(log) <= MaxRecords

Init == log = <<>>

AppendLabelSet ==
    /\ Len(log) < MaxRecords
    /\ LastId(log) < MaxId
    /\ \E e \in Entries :
          log' = Append(log, [type |-> "LabelSet", id |-> LastId(log) + 1, entries |-> e])

AppendCheckpoint ==
    /\ Len(log) < MaxRecords
    /\ \E c \in LastCheckpointId(log) + 1 .. MaxId :
          log' = Append(log, [type |-> "Checkpoint", id |-> c])

\* The layer store promotes the live labels and leaves only the checkpoint.
Clean ==
    /\ LastCheckpointId(log) > 0
    /\ log # <<[type |-> "Checkpoint", id |-> LastCheckpointId(log)]>>
    /\ log' = <<[type |-> "Checkpoint", id |-> LastCheckpointId(log)]>>

Next == AppendLabelSet \/ AppendCheckpoint \/ Clean

Spec == Init /\ [][Next]_log
==============================================================================
