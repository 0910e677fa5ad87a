# TLA+ models of the terminus-store write-ahead log and dictionary merger

This directory holds TLA+ models of the two source files of the repository:

- `src/src/storage/directory/wal.rs` is the write-ahead log (WAL) of label updates.
- `src/src/structure/mapped_dict.rs` is the mapped PFC dictionary and the merger of a stack of dictionaries.

The TLC model checker checks the models. Every definition that models code is listed with its source lines under `map` in `PROJECT.json`.

## 1. The system

| # | Component | State | Operations |
|---|-----------|-------|------------|
| C1 | Record codec (wal.rs 34-366, 623-776) | none: pure functions over bytes | `LabelSetEntry::new`, `LabelSetRecord::new`, `CheckpointRecord::new`, `AnnotatedWalRecord::new`, CRC-32, `WalFileDecoder::decode`, `AnnotatedWalRecord::record` |
| C2 | Stream engine (`ReadableWalFile`, wal.rs 380-489) | the file's bytes and a handle with its cursor | `seek`, `next_record`, `peek_record`, `seek_previous`, `peek_previous`, `previous`, `walk_backwards` |
| C3 | Recovery queries (wal.rs 491-597) | visitor closure state (checkpoint cell, discovered map, wanted set) for the length of one walk | `get_labels_since_last_checkpoint`, `get_all_labels_since_last_checkpoint`, `get_last_checkpoint`, `get_last_id` |
| C4 | Writer (`ExclusiveWalFile`, wal.rs 778-819) | the file, through an exclusive handle | `append_labelset`, `append_checkpoint`, `truncate` |
| C5 | `MappedPfcDict` (mapped_dict.rs 12-42) | a PFC dictionary and a wavelet tree | `get`, `id`, `len` |
| C6 | `merge_dictionary_stack` (mapped_dict.rs 44-101) | the output dictionary and the index stream | offsets scan, optional remap, k-way merge, PFC build, wavelet-tree build |

The PFC dictionary, the wavelet tree and bit index, `sorted_stream`, `LockedFile` and tokio's `FramedRead` and `FramedWrite` are external collaborators.

### How the components interact

- Every operation consumes the handle. The operations that return `Self` give the handle back with its cursor; an error returns `Option<Self>`.
- The writer first runs a recovery query as its guard:
  - `append_labelset` runs `get_last_id`;
  - `append_checkpoint` runs `get_last_checkpoint`.
- The writer then writes at the cursor that query left behind.
- A recovery query is `walk_backwards`, which is `previous` repeated. `previous` is `peek_previous` followed by `seek_previous`.
- `peek_previous` is `seek_previous` followed by `next_record` and a check on where the cursor ended.
- `next_record` runs the decoder through `FramedRead`:
  - `FramedRead` reads the rest of the file into its buffer, so the cursor ends at EOF;
  - at EOF, a decoder that needs more bytes gives `None` if it consumed the whole buffer, and an I/O error ("bytes remaining on stream") otherwise.
- `AnnotatedWalRecord::record` then turns the decoded bytes into a record. A mismatch there is a panic.

### What is hard

These behaviours are hard to reach with unit tests:

- The frame is only consistent if encoder and decoder agree byte for byte on what the length and the CRC cover.
- The backward offset arithmetic in `seek_previous`.
- Where the cursor is after each composed operation. A write lands where the last read left the cursor.
- A write torn by a crash or a dropped future after any byte. The spec requires that partial frames are never read as data.
- The order in which checkpoint and label-set records are met walking backwards.
- Visitor state captured by the closure and the value returned after the walk.
- For the merger: offsets of stacked dictionaries, the remap path, the tie-break of the merge, and the f32 `log2` width.

### What makes each component correct

| Component | What must hold |
|-----------|----------------|
| C1 | Decoding an encoded record gives the record back. A partial or corrupt frame is never data. |
| C2 | `seek_previous` from a frame end lands on the frame start. Cursors stay inside the file. |
| C3 | The returned map is the latest binding of each label in a label set newer than the last checkpoint. `get_last_id` is the last label-set id, or the checkpoint id on a cleaned log. |
| C4 | Appends are append-only and accept ids in sequence. `truncate` only removes a torn tail. |
| C5 | `get` and `id` are inverse. |
| C6 | The merged dictionary is the sorted union, and every input string keeps its external id. |

## 2. Modules

| Module | Models | Notes |
|--------|--------|-------|
| `WalLog` | the abstract log of spec.md 3 and 4.3-4.4: records as a sequence; `LastCheckpointId`, `LastId`, `LabelsSinceCheckpoint`; appends and the layer store's clean | reference definitions, not code |
| `WalRecovery` | C3: the four visitors with their closure state (`acc`), `walk_backwards` over a record sequence with an idealised `previous` | `Walk` is RECURSIVE |
| `WalCodec` | C1: byte encodings, CRC-32 (table driven, bytes), UTF-8 validity, the decoder state machine `DecodeFrom` (RECURSIVE) with FramedRead's EOF rule, the entry accessors `EntryLabel` and `EntryLayer`, `LabelSetFromBytes`, `CheckpointFromBytes` and `ToRecord` with every panic | pure operators |
| `WalFile` | C2 and C4 at byte level: variables `file`, `handle` (cursor, lock mode) and the history variables `written` (the accepted frames in order, with offsets and records), `writes` and `lastOp`; one action per operation | composes WalCodec and WalRecovery (`R == INSTANCE WalRecovery`) |
| `DictMerge` | C5 and C6: variables `stack` (each dictionary as its sorted strings and, when mapped, its wavelet tree as symbols and width) ; `MappedGet`, `MappedId`, `External` (get over 0..len); `Offsets`, `SlotIds`, `Pick`, `KMerge` (RECURSIVE), `BuildTree`, `MergeOf` (the merged dictionary for every choice of ids); actions `PushDict` and `MergeStack` | `PushDict` is the caller building a layer's dictionary |
| `DictStack` | the abstract dictionary stack of spec 4.5-4.6 and 8: each dictionary as its strings in external-id order; `Push` and `Merge` (concatenation of the top `k`) | the specification DictMerge implements |
| `MC_DictMerge` | instantiates DictMerge with six strings and up to four dictionaries; `Abs == INSTANCE DictStack WITH dicts <- [j |-> External(stack[j])]` is the refinement mapping | |
| `MC_WalRecovery` | instantiates WalLog and WalRecovery and states the recovery properties | |
| `MC_WalFile` | instantiates WalFile with one label and two layers; `Log == INSTANCE WalLog WITH log <- the records of written` maps the writer to the abstract log | |

### How WalFile corresponds to the code

- Each stream operation is an operator `XxxOp(f, p)`. It returns `Ok(val, pos)`, or `Err(e, keep, pos)`, where `keep` says whether the handle came back.
- `HandleAfter` applies the result to the handle.
- The actions are `Open`, `Close`, `Seek`, `NextRecord`, `PeekRecord`, `SeekPrevious`, `PeekPrevious`, `Previous`, `GetLastId`, `GetLastCheckpoint`, `GetAllLabels`, `GetLabels`, `AppendLabelset`, `AppendCheckpoint` and `Truncate`.
- Each writer action includes its whole guard walk. Its write has two outcomes:
  - it completes;
  - it is torn after any byte `k < Len(frame)`, as by a crash or a dropped future before `do_shutdown`.
- `AppendLabelset` takes the label map and its iteration order as inputs, including the empty map.

## 3. Runs

| Run | cfg | Expect | Shows |
|-----|-----|--------|-------|
| recovery_visitors | MC_WalRecovery.cfg | pass | On every log of up to 4 records with 2 labels and 2 layers: the two label visitors agree, both report the latest checkpoint, and the visited map is the spec's whenever the checkpoint follows the label set it names. |
| recovery_visited_vs_spec | MC_WalRecovery_VisitedMatchesSpec.cfg | violation | LS1, CP2: label set 1 is reported live, because the visitors stop only at a label set whose id equals the checkpoint id. |
| recovery_returned_map | MC_WalRecovery_ReturnedMatchesSpec.cfg | violation | The map returned is the clone taken before the walk, so it is always empty. |
| recovery_last_id_cleaned | MC_WalRecovery_LastIdMatchesSpec.cfg | violation | On a log holding only CP1, `get_last_id` returns 0. The fallback walk starts at offset 0. |
| wal_file | MC_WalFile.cfg | pass | With opens, seeks, every read, appends torn at any byte and truncates, every handle's cursor stays within the file (`TypeOK`). The bound rests on the `pos < len + 8` check of `seek_previous` (line 441). |
| frame_roundtrip | MC_WalFile_WrittenFramesDecode.cfg | violation | With non-empty label maps, the first frame written fails to decode with `InvalidRecordLength`, whether it is a label set or a checkpoint. |
| seek_previous_frame | MC_WalFile_SeekPreviousLandsOnFrame.cfg | violation | `seek_previous` from the end of a whole frame fails with `IncompleteRecord`. |

| dict_merge | MC_DictMerge.cfg | pass | Disjoint dictionaries pushed and whole stacks merged any number of times: the stack implements `DictStack` (read through `get`, a merged dictionary lists its inputs' external orders concatenated), every dictionary is strictly sorted, and every mapped dictionary's tree, opened with the width a later remap computes from the count (line 66), decodes to the ids it was built with at width `max + 1` (line 96) (`DictSorted`, `RemapDecodesBuiltIds`, `RefinesDictStack`). |
| dict_remap_any_slot | MC_DictMerge_RemapAnySlot.cfg | violation | Push 1, push 2, merge the top entry, merge both: the mapped dictionary in slot 1 keeps id 0 without its offset, so strings 1 and 2 both get id 0 and the stack no longer implements `DictStack`. |
| writer_refines_log | MC_WalFile_WriterRefinesLog.cfg | violation | With non-empty maps and no truncate: open, append label set 1, open, append label set 1 again. Both are accepted, so the accepted records are not a `WalLog` log. |
| dict_shared_strings | MC_DictMerge_SharedStrings.cfg | violation | Two dictionaries holding the same string: the merge passes it to the PFC builder twice. Spec 4.6 says duplicates collapse. |

`PROJECT.json` lists the findings behind the violation runs, with source lines.

Every property of a passing run has a mutant in `PROJECT.json`: a plausible bug in the mapped code, which TLC must catch.

- `ReachedCheckpointedOffByOne` is an off-by-one in the stop test.
- `SeeCheckpointEveryTime` overwrites the checkpoint cell at every checkpoint met.
- `VisitLabelsKeepWanted` uses `contains` instead of `remove`.
- `SeekPreviousOpNoLengthCheck` drops the length check, which lets the cursor go negative.
- `OffsetsReversed` runs the offsets scan from the top of the stack down. Ids stay a permutation, so only the refinement catches it.
- `BuildTreeLenPlusOne` takes the tree's width from the number of indexes plus one. Every id still fits, so only `RemapDecodesBuiltIds` catches it: the later remap opens the tree with a different width.
- `PickFirstNonEmpty` drops `min_by_key` and takes the first input that has an item.

No property says that a read never hands out torn bytes. In the code as written no frame decodes at all (see `frame_roundtrip`), so every read is refused and such a property would hold whatever the decoder accepted. For the same reason there is no property on the append of an empty label map: spec 7 makes record sizing the caller's duty.

### Bounds

**WalRecovery**: the pass run uses `MaxRecords = 5` and `MaxId = 4` (104,784 states, about 50 seconds with coverage on). The violation runs keep `MaxRecords = 4` and `MaxId = 3`, which already give the shortest counterexamples.
- Four records are enough for a label set before and after a checkpoint, a checkpoint naming a label set or not, two checkpoints, and a clean.
- The fifth record and the fourth id add a label set rebinding a label between two checkpoints, and three checkpoints in a row, where the stop rule must pick the latest.
- 2 labels and 2 layers are enough for rebinding a label and for a wanted set that is a strict subset.

**WalFile**: `MaxWrites = 2` and `MaxId = 2`, with one label, "a", and two layers.
- Two writes are enough for overwrite, a torn write over a whole frame, and truncation after a write.
- Torn writes cut at every byte.
- The seek targets are 0, EOF and the boundaries of written frames.

**DictMerge**: strings 1 to 6 and `MaxDicts = 4` (76,705 states).
- Counts 0 to 6 cover the widths 0, 1, 2 and 3, including the counts 0 and 1 where `log2` is -inf and 0, so the tree width changes between merges.
- Four dictionaries give merges of several plain inputs, and a mapped dictionary merged again with new ones, as in spec 8 scenario 3.
- `MergeStack(k)` merges the top `k` entries. The pass run merges only whole stacks, so a mapped dictionary is always in slot 0. `RemapAnySlot` lets any suffix be merged.
- A remapped tree opened with a width other than its build width yields any ids of that width. This is reachable only in the violation runs.

The wal_file run takes about 2 minutes with coverage on; dict_merge and recovery_visitors under a minute each; the others under 30 seconds.

### Fairness

All properties are safety properties, invariants, action properties and the two refinements, so no fairness is assumed. No liveness property is stated: nothing in this code promises that anything eventually happens.

Nothing in the code retries or schedules work. The futures run when the caller polls them, and a caller may stop at any point. This is why `MC_WalRecovery.cfg` turns deadlock checking off: the abstract writer may stop appending.

## 4. Not modelled, and the plan

- **The f32 width in DictMerge** is exact for the model's counts. f32 rounding only matters from about 2^21 strings, which no bounded run reaches. It is a hazard in `PROJECT.json`.
- **The futures of `merge_dictionary_stack`** run one after another in one task. The merge is therefore one action. Its I/O errors are not modelled, because they only abort the merge.
- **Concurrency of shared readers with the writer** is not modelled. The file lock admits one exclusive handle or shared readers only, so one handle at a time is faithful. Readers opened before a write only see bytes up to their tail.
- **The u32 overflow at `last_id = u32::MAX`** is outside the bounds, and live only once frames decode: while none does, `last_id` is always 0.
- **The 100-entry and 255-byte limits** are enforced by panics in `LabelSetRecord::new` and `LabelSetEntry::new`, which spec 7 allows. Reaching them takes 101 labels or a 256-byte label, far beyond the label maps the model enumerates. Both are listed as hazards.
- **The writer refinement maps the accepted records, not the records decodable from the file.** No frame decodes, so a mapping from the file would be the empty log throughout. Every step would then stutter, and the refinement would hold vacuously.
- **`truncate` on a fresh handle empties the file.** It cuts at the cursor, as spec 4.4 describes, and spec 8 scenario 6 seeks to a frame end first. The model allows it, and no property judges it, because the spec leaves the cursor to the caller.
- **`next_record` leaves the cursor at EOF, not after the frame it read.** This cannot be reached while no frame decodes, and it is listed as a hazard.
- **The unit tests of `mapped_dict.rs`** (lines 102-279) are not part of the model. They merge two plain dictionaries of 9 strings, then merge the result through its remap with 3 more, and read the tree with a hard-coded width of 5. The dict_merge run covers the same shapes at counts up to 6. A replay of the tests is a constant expression: it would be checked once at start-up, ahead of every other invariant of the run. Every seeded merger bug that the tests see would then be reported against the replay, not against the property its mutant targets.
- **A successful `truncate` only ever happens at cursor 0, where it empties the file.** From any frame end, `seek_previous` fails (seek_previous_frame) or the frame does not decode (frame_roundtrip). A property about which tail `truncate` cuts would therefore hold vacuously, so none is stated.
- **External collaborators** are not modelled:
  - `LockedFile` is abstracted to the handle;
  - `FramedRead` and `FramedWrite` are modelled by what they do to the cursor;
  - PFC and the wavelet tree are library code.
- **Assumed of the wavelet-tree library: a tree of width 0 decodes to one 0 per string.** A dictionary of 0 or 1 strings gets width 0 (line 66), and its bit index holds no bits from which the tree's length could be read. `SlotIds` takes the library to return `n` zeros. If it returned fewer, the `zip` at line 74 would silently drop strings of a merged one-string dictionary; no property can see that, because the behaviour lies in the library.
