------------------------------- MODULE WalFile --------------------------------
(***************************************************************************)
(* The write-ahead log file and one handle on it (src/storage/directory/  *)
(* wal.rs): the stream engine of ReadableWalFile (next_record,             *)
(* peek_record, seek_previous, peek_previous, previous, walk_backwards and *)
(* the recovery queries on top of it) and the writer ExclusiveWalFile      *)
(* (append_labelset, append_checkpoint, truncate), over the bytes of the   *)
(* file.  The visitors are WalRecovery's; the byte format is WalCodec's.   *)
(*                                                                         *)
(* A handle is consumed by every operation and given back with its cursor  *)
(* by those that return Self: on success, and on an error that carries     *)
(* Some(handle).  The writer operations return no handle.  The file lock  *)
(* admits one exclusive handle or shared ones that only read, so one       *)
(* handle at a time is modelled.                                           *)
(***************************************************************************)
EXTENDS WalCodec, FiniteSets

CONSTANTS Labels,     \* labels as UTF-8 byte sequences
          Layers,     \* layers as five u32 words
          MaxId,      \* bound on the ids given to the writer
          MaxWrites   \* bound on the writes (appends reaching the file)

ASSUME MaxId \in 1 .. 255 /\ MaxWrites \in Nat

R == INSTANCE WalRecovery

VARIABLES file,      \* the bytes of wa.log
          handle,    \* NoValue, or the open handle: cursor and lock mode
          written,   \* history: the frames accepted appends wrote, in order,
                     \* with offsets and the records they encode
          writes,    \* history: number of writes so far (bounded)
          lastOp     \* history: the last operation and what it returned

vars == <<file, handle, written, writes, lastOp>>

(***************************************************************************)
(* Results of the stream operations: Ok(value, cursor), or Err(e, handle)  *)
(* where `keep` says the handle came back (Some) with its cursor at pos.   *)
(***************************************************************************)
Ok(val, pos) == [ok |-> TRUE, val |-> val, pos |-> pos]
Err(e, keep, pos) == [ok |-> FALSE, err |-> e, keep |-> keep, pos |-> pos]

\* Seeded fault: the test that the length fits before the cursor dropped.
SeekPreviousOpNoLengthCheck(f, p) ==
    IF p = 0 THEN Ok(NoValue, 0)
    ELSE IF p < 8 THEN Err("IncompleteRecord", TRUE, p)
    ELSE LET q == p - 8
             len == ReadU32(SubSeq(f, q + 1, q + 4))
         IN Ok(NoValue, q - len - 8)

\* seek_previous.  The closure after seek(Current(-8)) rebinds `pos` to the
\* offset that seek returned, so the checks and the target use p - 8.
SeekPreviousOp(f, p) ==
    IF p = 0 THEN Ok(NoValue, 0)
    ELSE IF p < 8 THEN Err("IncompleteRecord", TRUE, p)
    ELSE LET q == p - 8
             len == ReadU32(SubSeq(f, q + 1, q + 4))
         IN IF q < len + 8 THEN Err("IncompleteRecord", TRUE, q + 4)
                           ELSE Ok(NoValue, q - len - 8)

\* next_record: FramedRead has read to the end of the file when it returns,
\* and into_inner hands back the file with its cursor there.
NextRecordOp(f, p) ==
    AndThen(Decode(SubSeq(f, p + 1, Len(f))), LAMBDA d :
        CASE d.res = "error" -> Err(d.err, TRUE, Len(f))
          [] d.res = "none" -> Ok(NoValue, Len(f))
          [] OTHER -> Ok(d.data, Len(f)))

\* peek_record: next_record, then seek back to the start on both paths.
PeekRecordOp(f, p) == [NextRecordOp(f, p) EXCEPT !.pos = p]

\* peek_previous: seek_previous, next_record, and the check that the read
\* ended where it started; a None from next_record is returned as it is.
PeekPreviousOp(f, p) ==
    IF p = 0 THEN Ok(NoValue, 0)
    ELSE AndThen(SeekPreviousOp(f, p), LAMBDA s :
           IF ~s.ok THEN s
           ELSE AndThen(NextRecordOp(f, s.pos), LAMBDA n :
                  CASE ~n.ok -> n
                    [] n.val = NoValue \/ n.pos = p -> n
                    [] OTHER -> Err("InvalidRecordLength", TRUE, n.pos)))

\* previous: peek_previous, then seek_previous from where it left the cursor.
PreviousOp(f, p) ==
    AndThen(PeekPreviousOp(f, p), LAMBDA pp :
        IF ~pp.ok THEN pp
        ELSE AndThen(SeekPreviousOp(f, pp.pos), LAMBDA s :
               IF ~s.ok THEN s ELSE Ok(pp.val, s.pos)))

(***************************************************************************)
(* walk_backwards with a visitor of WalRecovery; record.map(|r| r.record())*)
(* runs AnnotatedWalRecord::record first, and a panic there ends the task  *)
(* with the handle.                                                        *)
(***************************************************************************)
RECURSIVE WalkOp(_, _, _)
WalkOp(f, p, acc) ==
    AndThen(PreviousOp(f, p), LAMBDA pv :
      IF ~pv.ok THEN pv
      ELSE AndThen(IF pv.val = NoValue THEN NoValue ELSE ToRecord(pv.val), LAMBDA rec :
             IF rec = Panic THEN Err("Panic", FALSE, pv.pos)
             ELSE AndThen(R!Visit(acc, rec), LAMBDA v :
                    IF v.out = NoValue /\ pv.val # NoValue
                    THEN WalkOp(f, pv.pos, v.acc)
                    ELSE Ok(v.out, pv.pos))))

GetLastCheckpointOp(f, p) == WalkOp(f, p, R!Closure("lastCheckpoint", {}))

\* get_last_id: on None, get_last_checkpoint from where the walk stopped.
GetLastIdOp(f, p) ==
    AndThen(WalkOp(f, p, R!Closure("lastId", {})), LAMBDA w :
        IF ~w.ok \/ w.val # NoValue THEN w ELSE GetLastCheckpointOp(f, w.pos))

\* The label queries return the map cloned before the walk (see WalRecovery)
\* and the walk's result, or 0.
LabelsQueryOp(f, p, kind, wanted) ==
    AndThen(WalkOp(f, p, R!Closure(kind, wanted)), LAMBDA w :
        IF ~w.ok THEN w
        ELSE [w EXCEPT !.val = [labels |-> R!Closure(kind, wanted).disc,
                                checkpoint |-> IF w.val = NoValue THEN 0 ELSE w.val]])

(***************************************************************************)
(* The file.                                                               *)
(***************************************************************************)
\* A write at the cursor overwrites what is there and extends the file.
WriteAt(f, p, bytes) == SubSeq(f, 1, p) \o bytes \o SubSeq(f, p + Len(bytes) + 1, Len(f))

Intact(f, w) ==
    /\ w.off + Len(w.frame) <= Len(f)
    /\ SubSeq(f, w.off + 1, w.off + Len(w.frame)) = w.frame

\* The handle after an operation that returns it, or loses it.
HandleAfter(r) == IF r.ok \/ r.keep THEN [handle EXCEPT !.pos = r.pos] ELSE NoValue

TypeOK ==
    /\ file \in Seq(Byte)
    /\ handle = NoValue \/ (handle.pos \in 0 .. Len(file) /\ handle.mode \in {"shared", "exclusive"})
    /\ writes \in 0 .. MaxWrites

Init ==
    /\ file = <<>>
    /\ handle = NoValue
    /\ written = <<>>
    /\ writes = 0
    /\ lastOp = [op |-> "init"]

(***************************************************************************)
(* Opening and closing a handle, and the caller's own seek.                *)
(***************************************************************************)
\* SharedWalFile::open (LockedFile::create_and_open): the file is created if
\* missing and the cursor is at its start.  The exclusive handle the writer
\* needs is opened the same way under the exclusive lock.
Open(mode) ==
    /\ handle = NoValue
    /\ handle' = [pos |-> 0, mode |-> mode]
    /\ lastOp' = [op |-> "open"]
    /\ UNCHANGED <<file, written, writes>>

Close ==
    /\ handle # NoValue
    /\ handle' = NoValue
    /\ lastOp' = [op |-> "close"]
    /\ UNCHANGED <<file, written, writes>>

\* ReadableWalFile::seek to the start, the end, or a frame boundary the
\* caller knows of.
SeekTargets == ({0, Len(file)} \cup {w.off : w \in ToSet(written)} \cup
                {w.off + Len(w.frame) : w \in ToSet(written)}) \cap 0 .. Len(file)

Seek(p) ==
    /\ handle # NoValue
    /\ handle' = [handle EXCEPT !.pos = p]
    /\ lastOp' = [op |-> "seek"]
    /\ UNCHANGED <<file, written, writes>>

(***************************************************************************)
(* Reads: every one consumes the handle and gives it back per its result.  *)
(***************************************************************************)
ReadStep(name, r) ==
    \E res \in {r} :
        /\ handle' = HandleAfter(res)
        /\ lastOp' = [op |-> name, res |-> res]
        /\ UNCHANGED <<file, written, writes>>

NextRecord == handle # NoValue /\ ReadStep("next_record", NextRecordOp(file, handle.pos))
PeekRecord == handle # NoValue /\ ReadStep("peek_record", PeekRecordOp(file, handle.pos))
SeekPrevious == handle # NoValue /\ ReadStep("seek_previous", SeekPreviousOp(file, handle.pos))
PeekPrevious == handle # NoValue /\ ReadStep("peek_previous", PeekPreviousOp(file, handle.pos))
Previous == handle # NoValue /\ ReadStep("previous", PreviousOp(file, handle.pos))
GetLastId == handle # NoValue /\ ReadStep("get_last_id", GetLastIdOp(file, handle.pos))
GetLastCheckpoint ==
    handle # NoValue /\ ReadStep("get_last_checkpoint", GetLastCheckpointOp(file, handle.pos))
GetAllLabels ==
    handle # NoValue /\ ReadStep("get_all_labels", LabelsQueryOp(file, handle.pos, "all", {}))
GetLabels(wanted) ==
    handle # NoValue /\ ReadStep("get_labels", LabelsQueryOp(file, handle.pos, "labels", wanted))

(***************************************************************************)
(* The writer.  Each operation consumes the exclusive handle.  A write     *)
(* goes to the cursor the guard's walk left, and is flushed by             *)
(* do_shutdown; a crash or a dropped future may cut it after any byte.     *)
(***************************************************************************)
WriteFrame(name, g, frame, rec) ==
    /\ writes < MaxWrites
    /\ writes' = writes + 1
    /\ \/ /\ file' = WriteAt(file, g.pos, frame)
          /\ written' = Append(written, [off |-> g.pos, frame |-> frame, rec |-> rec])
          /\ lastOp' = [op |-> name, res |-> Ok(TRUE, g.pos)]
       \/ \E k \in 0 .. Len(frame) - 1 :
          /\ file' = WriteAt(file, g.pos, SubSeq(frame, 1, k))
          /\ lastOp' = [op |-> name, res |-> Err("Crash", FALSE, g.pos)]
          /\ UNCHANGED written

Refuse(name, res) ==
    /\ lastOp' = [op |-> name, res |-> res]
    /\ UNCHANGED <<file, written, writes>>

\* append_labelset(id, labels): the HashMap's entries in its iteration order.
AppendLabelset(id, m, order) ==
    /\ handle # NoValue
    /\ handle.mode = "exclusive"
    /\ handle' = NoValue
    /\ \E g \in {GetLastIdOp(file, handle.pos)} :
          CASE ~g.ok -> Refuse("append_labelset", g)
            [] id # g.val + 1 -> Refuse("append_labelset", Ok(FALSE, g.pos))
            [] OTHER ->
                 \E frame \in {Frame(0, LabelSetBody(id, [j \in DOMAIN order |->
                                         EntryBytes(order[j], m[order[j]])]))} :
                    WriteFrame("append_labelset", g, frame,
                               [type |-> "LabelSet", id |-> id, entries |-> m])

AppendCheckpoint(c) ==
    /\ handle # NoValue
    /\ handle.mode = "exclusive"
    /\ handle' = NoValue
    /\ \E g \in {GetLastCheckpointOp(file, handle.pos)} :
          CASE ~g.ok -> Refuse("append_checkpoint", g)
            [] c <= g.val -> Refuse("append_checkpoint", Ok(FALSE, g.pos))
            [] OTHER ->
                 \E frame \in {Frame(1, CheckpointBody(c))} :
                    WriteFrame("append_checkpoint", g, frame, [type |-> "Checkpoint", id |-> c])

\* truncate: peek_previous must succeed; the file is cut at the cursor the
\* peek left, and flushed.
Truncate ==
    /\ handle # NoValue
    /\ handle.mode = "exclusive"
    /\ handle' = NoValue
    /\ \E pp \in {PeekPreviousOp(file, handle.pos)} :
          /\ lastOp' = [op |-> "truncate", res |-> pp]
          /\ file' = IF pp.ok THEN SubSeq(file, 1, pp.pos) ELSE file
    /\ written' = SelectSeq(written, LAMBDA w : w.off + Len(w.frame) <= Len(file'))
    /\ UNCHANGED writes

LabelMaps == UNION {[S -> Layers] : S \in SUBSET Labels}

Next ==
    \/ \E mode \in {"shared", "exclusive"} : Open(mode)
    \/ Close
    \/ \E p \in SeekTargets : Seek(p)
    \/ NextRecord \/ PeekRecord \/ SeekPrevious \/ PeekPrevious \/ Previous
    \/ GetLastId \/ GetLastCheckpoint \/ GetAllLabels
    \/ \E wanted \in SUBSET Labels : GetLabels(wanted)
    \/ \E id \in 1 .. MaxId, m \in LabelMaps :
          \E order \in SetToSeqs(DOMAIN m) : AppendLabelset(id, m, order)
    \/ \E c \in 1 .. MaxId : AppendCheckpoint(c)
    \/ Truncate

Spec == Init /\ [][Next]_vars
==============================================================================
