------------------------------- MODULE WalCodec -------------------------------
(***************************************************************************)
(* The byte format of the write-ahead log (src/storage/directory/wal.rs):  *)
(* how LabelSetEntry, LabelSetRecord, CheckpointRecord and                 *)
(* AnnotatedWalRecord lay a record out, the CRC-32 (IEEE) they seal it     *)
(* with, the WalFileDecoder state machine, and AnnotatedWalRecord::record  *)
(* that turns decoded bytes back into a record.                            *)
(*                                                                         *)
(* Bytes are naturals in 0..255.  A label is its UTF-8 byte sequence, a    *)
(* layer its five u32 words.                                               *)
(***************************************************************************)
EXTENDS Naturals, Sequences, SequencesExt, Bitwise

CONSTANT NoValue

Byte == 0 .. 255

\* The future combinator and_then: the value v, computed once, is handed to
\* the continuation Op.
AndThen(v, Op(_)) == CHOOSE r \in {Op(x) : x \in {v}} : TRUE

\* BigEndian::write_u32.
U32Bytes(n) == <<(n \div 16777216) % 256, (n \div 65536) % 256, (n \div 256) % 256, n % 256>>

\* BigEndian::read_u32.  The files of the model are far shorter than 2^24
\* bytes, so every value of 2^24 or more compares like 2^24 with offsets
\* and lengths; it is collapsed to that value.
Huge == 16777216
ReadU32(b) == IF b[1] > 0 THEN Huge ELSE b[2] * 65536 + b[3] * 256 + b[4]

(***************************************************************************)
(* crc32::checksum_ieee, table driven over the reflected polynomial        *)
(* 0xEDB88320, with the 32-bit register kept as four bytes, low byte first.*)
(* The result is its big-endian bytes, as the frame stores it.             *)
(***************************************************************************)
Poly == <<32, 131, 184, 237>>
Shr1(v) == [i \in 1..4 |-> v[i] \div 2 + (IF i < 4 THEN (v[i + 1] % 2) * 128 ELSE 0)]
XorWord(v, w) == [i \in 1..4 |-> v[i] ^^ w[i]]
RECURSIVE CrcRounds(_, _)
CrcRounds(v, k) ==
    IF k = 0 THEN v
    ELSE CrcRounds(IF v[1] % 2 = 1 THEN XorWord(Shr1(v), Poly) ELSE Shr1(v), k - 1)
CrcTable == [n \in Byte |-> CrcRounds(<<n, 0, 0, 0>>, 8)]
CrcStep(c, b) == XorWord(<<c[2], c[3], c[4], 0>>, CrcTable[c[1] ^^ b])
Crc32(s) ==
    LET c == FoldLeft(CrcStep, <<255, 255, 255, 255>>, s)
    IN <<255 - c[4], 255 - c[3], 255 - c[2], 255 - c[1]>>

(***************************************************************************)
(* std::str::from_utf8: well-formed UTF-8 (no overlong forms, no           *)
(* surrogates, nothing above U+10FFFF).                                    *)
(***************************************************************************)
Cont(b) == b \in 128 .. 191
Utf8Width(b) == CASE b < 128 -> 1
                  [] b \in 194 .. 223 -> 2
                  [] b \in 224 .. 239 -> 3
                  [] b \in 240 .. 244 -> 4
                  [] OTHER -> 0
\* The range of the second byte after a lead byte b.
Utf8Second(b) == CASE b = 224 -> 160 .. 191
                   [] b = 237 -> 128 .. 159
                   [] b = 240 -> 144 .. 191
                   [] b = 244 -> 128 .. 143
                   [] OTHER -> 128 .. 191
Utf8Valid(s) ==
    LET valid[i \in 1 .. Len(s) + 1] ==
            \/ i > Len(s)
            \/ LET n == Utf8Width(s[i])
               IN /\ n > 0
                  /\ i + n - 1 <= Len(s)
                  /\ n > 1 => s[i + 1] \in Utf8Second(s[i])
                  /\ \A j \in i + 2 .. i + n - 1 : Cont(s[j])
                  /\ valid[i + n]
    IN valid[1]

(***************************************************************************)
(* Encoding.                                                               *)
(***************************************************************************)
LayerBytes(layer) == FoldLeft(LAMBDA acc, w : acc \o U32Bytes(w), <<>>, layer)

\* LabelSetEntry::new: label length (u8), label bytes, layer.
EntryBytes(label, layer) == <<Len(label)>> \o label \o LayerBytes(layer)

\* LabelSetRecord::new / new_bytes: entry count (u8), entries, id.
LabelSetBody(id, entries) == <<Len(entries)>> \o FlattenSeq(entries) \o U32Bytes(id)

\* CheckpointRecord::new: the id.
CheckpointBody(id) == U32Bytes(id)

\* AnnotatedWalRecord::new: type byte, body, body length, CRC of the body.
Frame(type, body) == <<type>> \o body \o U32Bytes(Len(body)) \o Crc32(body)

(***************************************************************************)
(* WalFileDecoder::decode over the bytes from the cursor to the end of the *)
(* file, as FramedRead drives it: FramedRead reads the whole rest of the   *)
(* file into its buffer (the files of the model are below its 8 KiB read   *)
(* size), calls decode, and at end of file decode_eof: a decoder that      *)
(* still needs bytes gives None when it has consumed the whole buffer and  *)
(* the error "bytes remaining on stream" (WalError::Io) otherwise.         *)
(* `i` is the first unconsumed byte; bytes consumed so far in the frame    *)
(* are buf[1 .. i-1] (read_so_far), `k` the entries still to read.         *)
(***************************************************************************)
Found(data) == [res |-> "record", data |-> data]
Failed(e) == [res |-> "error", err |-> e]
NeedMore(buf, i) == IF i > Len(buf) THEN [res |-> "none"] ELSE Failed("Io")

\* The checks of the ReadRecordChecksum state, on read_so_far (type byte
\* included), the stored length and the stored checksum.
RECURSIVE DecodeFrom(_, _, _, _)
VerifyFrame(rec, lenField, crcField) ==
    CASE ReadU32(lenField) # Len(rec) -> Failed("InvalidRecordLength")
      [] crcField # Crc32(rec) -> Failed("CrcFailure")
      [] OTHER -> Found(Tail(rec))

DecodeFrom(buf, st, k, i) ==
    LET rem == Len(buf) - i + 1
    IN CASE st = "Start" ->
              CASE rem = 0 -> NeedMore(buf, i)
                [] buf[i] = 0 -> DecodeFrom(buf, "NumEntries", 0, i + 1)
                [] buf[i] = 1 -> DecodeFrom(buf, "Identifier", 0, i + 1)
                [] OTHER -> Failed("UnknownRecordType")
         [] st = "NumEntries" ->
              CASE rem = 0 -> NeedMore(buf, i)
                [] buf[i] = 0 -> Failed("ZeroLabels")
                [] buf[i] > 100 -> Failed("TooManyLabels")
                [] OTHER -> DecodeFrom(buf, "Entry", buf[i], i + 1)
         [] st = "Entry" ->
              \* LabelSetEntry::try_split_from_bytes, then from_bytes
              CASE rem = 0 -> NeedMore(buf, i)
                [] rem < buf[i] + 21 -> NeedMore(buf, i)
                [] ~Utf8Valid(SubSeq(buf, i + 1, i + buf[i])) -> Failed("LabelNotUtf8")
                [] k = 1 -> DecodeFrom(buf, "Identifier", 0, i + buf[i] + 21)
                [] OTHER -> DecodeFrom(buf, "Entry", k - 1, i + buf[i] + 21)
         [] st = "Identifier" ->
              IF rem < 4 THEN NeedMore(buf, i) ELSE DecodeFrom(buf, "Length", 0, i + 4)
         [] st = "Length" ->
              IF rem < 4 THEN NeedMore(buf, i) ELSE DecodeFrom(buf, "Checksum", 0, i + 4)
         [] st = "Checksum" ->
              IF rem < 4 THEN NeedMore(buf, i)
              ELSE VerifyFrame(SubSeq(buf, 1, i - 5), SubSeq(buf, i - 4, i - 1),
                               SubSeq(buf, i, i + 3))

Decode(buf) == DecodeFrom(buf, "Start", 0, 1)

(***************************************************************************)
(* AnnotatedWalRecord::record on the bytes the decoder produced (the body: *)
(* from_bytes_unchecked gets read_so_far with the type byte advanced off). *)
(* It reads data[0] as the type and data[1 .. len-8] as the body; every    *)
(* unwrap or length assertion that fails is a panic.                       *)
(***************************************************************************)
Panic == [type |-> "Panic"]

\* LabelSetEntry::label_len and ::label of an entry's bytes; the unwrap of
\* String::from_utf8 cannot fail, from_bytes having checked the label.
EntryLabel(eb) == SubSeq(eb, 2, eb[1] + 1)

\* LabelSetEntry::layer: the five big-endian words after the label.
EntryLayer(eb) == [w \in 1 .. 5 |-> ReadU32(SubSeq(eb, eb[1] + 4 * w - 2, eb[1] + 4 * w + 1))]

\* The entry loop of LabelSetRecord::try_split_from_bytes on the whole of
\* `rb`, unwrapped, with from_bytes' "bytes left" panic: the entries'
\* bytes, each checked by LabelSetEntry::from_bytes, and the id.
RECURSIVE ParseEntries(_, _, _)
ParseEntries(rb, k, acc) ==
    IF k = 0
    THEN IF Len(rb) = 4 THEN [entries |-> acc, id |-> ReadU32(rb)] ELSE Panic
    ELSE IF Len(rb) = 0 \/ Len(rb) < rb[1] + 21 \/ ~Utf8Valid(SubSeq(rb, 2, rb[1] + 1))
         THEN Panic
         ELSE ParseEntries(SubSeq(rb, rb[1] + 22, Len(rb)), k - 1,
                           Append(acc, SubSeq(rb, 1, rb[1] + 21)))

\* The visitors iterate entries() in order and keep the first binding of
\* a label, so the entries are handed on as that first-wins map.
FirstWins(es) ==
    [l \in {EntryLabel(e) : e \in ToSet(es)} |->
        EntryLayer(es[CHOOSE j \in DOMAIN es :
                        EntryLabel(es[j]) = l /\ \A h \in 1 .. j - 1 : EntryLabel(es[h]) # l])]

\* LabelSetRecord::from_bytes: try_split_from_bytes unwrapped (a count
\* above 100 is TooManyLabels, an entry or the id cut short is
\* IncompleteRecord) and the "bytes left" panic; then entries() and
\* identifier().
LabelSetFromBytes(rb) ==
    IF Len(rb) = 0 \/ rb[1] > 100 THEN Panic
    ELSE LET p == ParseEntries(Tail(rb), rb[1], <<>>)
         IN IF p = Panic THEN Panic
            ELSE [type |-> "LabelSet", id |-> p.id, entries |-> FirstWins(p.entries)]

\* CheckpointRecord::from_bytes, which panics on a body other than 4 bytes,
\* and identifier().
CheckpointFromBytes(rb) ==
    IF Len(rb) # 4 THEN Panic ELSE [type |-> "Checkpoint", id |-> ReadU32(rb)]

\* AnnotatedWalRecord::record on record_bytes: the type byte chooses the
\* parser; any other type panics.
ToRecord(data) ==
    IF Len(data) < 9 THEN Panic
    ELSE LET rb == SubSeq(data, 2, Len(data) - 8)
         IN CASE data[1] = 0 -> LabelSetFromBytes(rb)
              [] data[1] = 1 -> CheckpointFromBytes(rb)
              [] OTHER -> Panic
==============================================================================
