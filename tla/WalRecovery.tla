----------------------------- MODULE WalRecovery -----------------------------
(***************************************************************************)
(* The recovery queries of the write-ahead log (src/storage/directory/    *)
(* wal.rs, trait ReadableWalFile): walk_backwards and the four visitors    *)
(* that get_labels_since_last_checkpoint, get_all_labels_since_last_       *)
(* checkpoint, get_last_checkpoint and get_last_id hand to it.             *)
(*                                                                         *)
(* A record is the decoded view of a frame:                                *)
(*   [type |-> "LabelSet",   id |-> n, entries |-> label :> layer ...]     *)
(*   [type |-> "Checkpoint", id |-> n]                                     *)
(* The walk runs over a sequence of records and a cursor counting the      *)
(* records before it; here `previous` delivers the record just before the  *)
(* cursor and moves the cursor onto it, as spec section 4.2 describes it.  *)
(* WalFile.tla replaces this step by what the byte-level code does.        *)
(***************************************************************************)
EXTENDS Naturals, Sequences, FiniteSets, Functions, TLC

CONSTANTS Labels,   \* label strings (model values)
          Layers,   \* layer addresses, the [u32;5] of a LabelSetEntry
          NoValue   \* Rust's Option::None for a record or a visitor result

LabelSetRec(id, entries) == [type |-> "LabelSet", id |-> id, entries |-> entries]
CheckpointRec(id) == [type |-> "Checkpoint", id |-> id]

(***************************************************************************)
(* The visitors.  The closure state of a visitor (the AtomicRefCells it    *)
(* captures) is the record `acc`; acc.kind says which closure it is.       *)
(* Visit returns the new closure state and the closure's return value.     *)
(***************************************************************************)

\* Seeded fault: the checkpoint cell is overwritten by every checkpoint met.
SeeCheckpointEveryTime(acc, rec) == [acc EXCEPT !.cp = rec.id]

\* Checkpoint arm shared by both label visitors: only the first checkpoint
\* met walking backwards (the latest one) is kept.
SeeCheckpoint(acc, rec) ==
    IF acc.cp = NoValue THEN [acc EXCEPT !.cp = rec.id] ELSE acc

\* Seeded fault: off by one in the test for the checkpointed label set.
ReachedCheckpointedOffByOne(acc, rec) == acc.cp # NoValue /\ rec.id = acc.cp + 1

\* Both label visitors stop at the label set whose id is the checkpoint
\* id: everything before it has been written to the label files.
ReachedCheckpointed(acc, rec) == acc.cp # NoValue /\ rec.id = acc.cp

\* Seeded fault: `labels.contains` instead of `labels.remove`.
VisitLabelsKeepWanted(acc, rec) ==
    CASE rec = NoValue ->
            [acc |-> acc, out |-> IF acc.cp = NoValue THEN 0 ELSE acc.cp]
      [] rec.type = "Checkpoint" ->
            [acc |-> SeeCheckpoint(acc, rec), out |-> NoValue]
      [] ReachedCheckpointed(acc, rec) ->
            [acc |-> acc, out |-> rec.id]
      [] OTHER ->
            LET hit == DOMAIN rec.entries \cap acc.wanted
            IN [acc |-> [acc EXCEPT
                          !.disc = [l \in hit |-> <<rec.id, rec.entries[l]>>] @@ @],
                out |-> NoValue]

\* get_labels_since_last_checkpoint: a wanted label is bound by the first
\* entry met, and `labels.remove` takes it out of the wanted set.
VisitLabels(acc, rec) ==
    CASE rec = NoValue ->
            [acc |-> acc, out |-> IF acc.cp = NoValue THEN 0 ELSE acc.cp]
      [] rec.type = "Checkpoint" ->
            [acc |-> SeeCheckpoint(acc, rec), out |-> NoValue]
      [] ReachedCheckpointed(acc, rec) ->
            [acc |-> acc, out |-> rec.id]
      [] OTHER ->
            LET hit == DOMAIN rec.entries \cap acc.wanted
            IN [acc |-> [acc EXCEPT
                          !.disc = [l \in hit |-> <<rec.id, rec.entries[l]>>] @@ @,
                          !.wanted = @ \ hit],
                out |-> NoValue]

\* get_all_labels_since_last_checkpoint: a label is bound by the first
\* entry met (`!discovered.contains_key`).
VisitAll(acc, rec) ==
    CASE rec = NoValue ->
            [acc |-> acc, out |-> IF acc.cp = NoValue THEN 0 ELSE acc.cp]
      [] rec.type = "Checkpoint" ->
            [acc |-> SeeCheckpoint(acc, rec), out |-> NoValue]
      [] ReachedCheckpointed(acc, rec) ->
            [acc |-> acc, out |-> rec.id]
      [] OTHER ->
            LET new == DOMAIN rec.entries \ DOMAIN acc.disc
            IN [acc |-> [acc EXCEPT
                          !.disc = @ @@ [l \in new |-> <<rec.id, rec.entries[l]>>]],
                out |-> NoValue]

\* get_last_checkpoint: the first checkpoint met, else 0.
VisitLastCheckpoint(acc, rec) ==
    [acc |-> acc,
     out |-> CASE rec = NoValue -> 0
               [] rec.type = "Checkpoint" -> rec.id
               [] OTHER -> NoValue]

\* get_last_id: the first label set met, else None.
VisitLastId(acc, rec) ==
    [acc |-> acc,
     out |-> IF rec # NoValue /\ rec.type = "LabelSet" THEN rec.id ELSE NoValue]

Visit(acc, rec) ==
    CASE acc.kind = "labels"         -> VisitLabels(acc, rec)
      [] acc.kind = "all"            -> VisitAll(acc, rec)
      [] acc.kind = "lastCheckpoint" -> VisitLastCheckpoint(acc, rec)
      [] acc.kind = "lastId"         -> VisitLastId(acc, rec)

\* Fresh closure state: checkpoint = None, discovered = {}.
Closure(kind, wanted) ==
    [kind |-> kind, cp |-> NoValue, disc |-> <<>>, wanted |-> wanted]

(***************************************************************************)
(* previous(): the record before the cursor, cursor moved onto its start;  *)
(* at the start of the file, None and the cursor stays at 0.               *)
(***************************************************************************)
Previous(recs, i) ==
    IF i = 0 THEN [rec |-> NoValue, cursor |-> 0]
             ELSE [rec |-> recs[i], cursor |-> i - 1]

(***************************************************************************)
(* walk_backwards: call the visitor on each previous record; stop on its   *)
(* first Some, or after it has been called with None.  Returns the cursor  *)
(* the handle is left at, the visitor's result and its final closure.      *)
(***************************************************************************)
RECURSIVE Walk(_, _, _)
Walk(recs, i, acc) ==
    LET p == Previous(recs, i)
        v == Visit(acc, p.rec)
    IN IF v.out = NoValue /\ p.rec # NoValue
       THEN Walk(recs, p.cursor, v.acc)
       ELSE [cursor |-> p.cursor, out |-> v.out, acc |-> v.acc]

(***************************************************************************)
(* The queries.  `labels` is what the function returns: cloned.into_inner()*)
(* where `cloned` is discovered.clone() taken before the walk starts, so   *)
(* it is the map as it was then.  `visited` is the map the visitor built.  *)
(***************************************************************************)
GetLabelsSinceLastCheckpoint(recs, i, wanted) ==
    LET c == Closure("labels", wanted)
        w == Walk(recs, i, c)
    IN [labels |-> c.disc, visited |-> w.acc.disc,
        checkpoint |-> IF w.out = NoValue THEN 0 ELSE w.out, cursor |-> w.cursor]

GetAllLabelsSinceLastCheckpoint(recs, i) ==
    LET c == Closure("all", {})
        w == Walk(recs, i, c)
    IN [labels |-> c.disc, visited |-> w.acc.disc,
        checkpoint |-> IF w.out = NoValue THEN 0 ELSE w.out, cursor |-> w.cursor]

GetLastCheckpoint(recs, i) ==
    LET w == Walk(recs, i, Closure("lastCheckpoint", {}))
    IN [id |-> w.out, cursor |-> w.cursor]

\* When no label set is found the fallback get_last_checkpoint runs from
\* the cursor the first walk left behind.
GetLastId(recs, i) ==
    LET w == Walk(recs, i, Closure("lastId", {}))
    IN IF w.out = NoValue THEN GetLastCheckpoint(recs, w.cursor)
                          ELSE [id |-> w.out, cursor |-> w.cursor]
==============================================================================
