------------------------------ MODULE MC_WalFile ------------------------------
(***************************************************************************)
(* Checks the write-ahead log file at byte level: a handle opened, moved,  *)
(* read with every stream operation, written with appends that may be torn *)
(* by a crash, and truncated, against what spec.md promises of the framing *)
(* and of the writer.                                                      *)
(***************************************************************************)
EXTENDS WalFile

\* One label, "a", and two layers differing in their last word.
MCLabels == {<<97>>}
MCLayers == {<<0, 0, 0, 0, 1>>, <<0, 0, 0, 0, 2>>}

(***************************************************************************)
(* A frame an append wrote decodes to a record (spec.md 4.1: decode of an  *)
(* encoded record returns it).  The encoder stores the body's length and   *)
(* the CRC of the body; the decoder compares them with the type byte and   *)
(* body together.                                                          *)
(***************************************************************************)
WrittenFramesDecode ==
    \A w \in ToSet(written) : Decode(w.frame).res = "record"

(***************************************************************************)
(* seek_previous from the end of a whole frame moves the cursor to the     *)
(* frame's first byte (spec.md 4.2, "backward seek algorithm").            *)
(***************************************************************************)
SeekPreviousLandsOnFrame ==
    \A w \in ToSet(written) :
        Intact(file, w) => SeekPreviousOp(file, w.off + Len(w.frame)) = Ok(NoValue, w.off)

(***************************************************************************)
(* The records of the accepted appends, in the order they were accepted,  *)
(* form a log of WalLog: append_labelset accepts exactly the next label-set *)
(* id and append_checkpoint only a larger checkpoint (spec.md 4.4).  The   *)
(* guards read the last ids by walking back from the handle's cursor.     *)
(***************************************************************************)
Log == INSTANCE WalLog WITH log <- [i \in DOMAIN written |-> written[i].rec],
                            MaxRecords <- MaxWrites

WriterRefinesLog == Log!Spec

\* Callers that pass non-empty label maps (WalLog's label sets have 1 to
\* 100 entries) and the runs without truncate, which WalLog's log does not
\* have.
NonEmptyLabelMaps == UNION {[S -> Layers] : S \in (SUBSET Labels) \ {{}}}
AppendsSpec == Init /\ [][Next /\ lastOp'.op # "truncate"]_vars
==============================================================================
