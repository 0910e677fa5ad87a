------------------------------ MODULE DictMerge ------------------------------
(***************************************************************************)
(* The mapped PFC dictionary and the merger of a stack of dictionaries     *)
(* (src/structure/mapped_dict.rs).                                         *)
(*                                                                         *)
(* A dictionary on the stack is its strings in PFC (sorted) order, and for *)
(* a mapped dictionary the wavelet tree that the merger built for it: the  *)
(* symbol sequence it stores and the width it was built with.  A string    *)
(* is a natural, ordered by <.  MC_DictMerge shows that the stack, read    *)
(* through get, implements DictStack.                                      *)
(***************************************************************************)
EXTENDS Integers, Sequences, SequencesExt, FiniteSets

CONSTANTS Strings,       \* the strings the dictionaries are made of
          MaxDicts,      \* bound on the length of the stack
          NoValue,       \* Option::None
          RemapAnySlot,  \* TRUE: any suffix of the stack may be merged
          AllowShared    \* TRUE: two dictionaries may hold the same string

ASSUME Strings \subseteq Nat /\ MaxDicts \in Nat \ {0}
ASSUME RemapAnySlot \in BOOLEAN /\ AllowShared \in BOOLEAN

VARIABLE stack

vars == <<stack>>

Entry == [strings : Seq(Strings), tree : {NoValue} \cup [syms : Seq(Nat), width : 0 .. 255]]


(***************************************************************************)
(* MappedPfcDict::get and ::id.  lookup_one(ix) is the position of the     *)
(* first symbol ix in the tree, None if there is none; decode_one(p) is    *)
(* the symbol at position p.  Positions and ids count from 0.             *)
(***************************************************************************)
\* The panics of get ("index too large", unwrap of None); no string is
\* negative.
Panic == -1

MappedGet(e, ix) ==
    LET hits == {p \in DOMAIN e.tree.syms : e.tree.syms[p] = ix}
    IN IF ix >= Len(e.strings) \/ hits = {} THEN Panic
       ELSE e.strings[CHOOSE p \in hits : \A q \in hits : p <= q]

MappedId(e, s) ==
    IF \E p \in DOMAIN e.strings : e.strings[p] = s
    THEN e.tree.syms[CHOOSE p \in DOMAIN e.strings : e.strings[p] = s]
    ELSE NoValue

\* The strings of an entry in external-id order: get(0), get(1), ...; a
\* plain dictionary's external order is its own.
External(e) ==
    IF e.tree = NoValue THEN e.strings
    ELSE [i \in 1 .. Len(e.strings) |-> MappedGet(e, i - 1)]

(***************************************************************************)
(* (n as f32).log2().ceil() as u8.  For the counts of the model f32 is     *)
(* exact, so this is the least w with 2^w >= n; log2(0) is -inf and the   *)
(* saturating cast gives 0.                                                *)
(***************************************************************************)
Width(n) ==
    IF n = 0 THEN 0 ELSE CHOOSE w \in 0 .. n : 2^w >= n /\ \A v \in 0 .. w - 1 : 2^v < n

(***************************************************************************)
(* The scan of lines 49-54: the tally before each count.                   *)
(***************************************************************************)
\* Seeded fault: the scan run over the stack from the top down.
OffsetsReversed(counts) ==
    [i \in DOMAIN counts |-> FoldLeft(+, 0, SubSeq(counts, i + 1, Len(counts)))]

Offsets(counts) ==
    [i \in DOMAIN counts |-> FoldLeft(+, 0, SubSeq(counts, 1, i - 1))]

(***************************************************************************)
(* The ids paired with an input's strings (lines 58-77).  Without a remap: *)
(* offset, offset+1, ...  With one: wtree.decode() of the prior tree,      *)
(* opened with the width computed from the dictionary's count, and no     *)
(* offset.  A tree opened with a width other than the one it was built     *)
(* with regroups its bits: the model lets each id be any w-bit value.      *)
(* Assumed of the wavelet-tree library: a tree of width 0 (a dictionary   *)
(* of 0 or 1 strings) decodes to one 0 per string, though its bit index   *)
(* holds no bits from which that length could be read.                    *)
(***************************************************************************)
SlotIds(e, off) ==
    LET n == Len(e.strings)
    IN CASE e.tree = NoValue -> {[i \in 1 .. n |-> off + i - 1]}
         [] Width(n) = e.tree.width -> {e.tree.syms}
         [] OTHER -> [1 .. Len(e.tree.syms) -> 0 .. 2^Width(n) - 1]

\* The id sequences of all inputs, one choice per input.
RECURSIVE IdChoices(_, _)
IdChoices(ins, offs) ==
    IF ins = <<>> THEN {<<>>}
    ELSE {<<x>> \o r : x \in SlotIds(Head(ins), Head(offs)),
                       r \in IdChoices(Tail(ins), Tail(offs))}

(***************************************************************************)
(* sorted_stream with the picker of lines 83-87: among the inputs whose    *)
(* head is Some, the one with the least string; min_by_key keeps the      *)
(* first of equal minima, so the lowest input index wins a tie.  An item   *)
(* is <<id, string>>.                                                      *)
(***************************************************************************)
Live(streams) == {j \in DOMAIN streams : streams[j] # <<>>}

\* Seeded fault: the first input with an item, whatever its string.
PickFirstNonEmpty(streams) ==
    CHOOSE j \in Live(streams) : \A i \in Live(streams) : j <= i

Pick(streams) ==
    CHOOSE j \in Live(streams) :
        \A i \in Live(streams) :
            /\ Head(streams[j])[2] <= Head(streams[i])[2]
            /\ i < j => Head(streams[i])[2] > Head(streams[j])[2]

\* The merged stream, emitted in the order the picker chooses.
RECURSIVE KMerge(_, _)
KMerge(streams, out) ==
    IF Live(streams) = {} THEN out
    ELSE LET j == Pick(streams)
         IN KMerge([streams EXCEPT ![j] = Tail(@)], Append(out, Head(streams[j])))

(***************************************************************************)
(* Lines 88-100: every emitted string goes to the PFC builder and its id   *)
(* to `indexes`; max = max(indexes)+1 (1 when empty), width from it, and  *)
(* the wavelet tree stores each index in `width` bits.                     *)
(***************************************************************************)
\* Seeded fault: the width taken from the number of indexes plus one.
BuildTreeLenPlusOne(indexes) ==
    LET w == Width(Len(indexes) + 1)
    IN [syms |-> [i \in DOMAIN indexes |-> indexes[i] % 2^w], width |-> w]

BuildTree(indexes) ==
    LET max == (IF indexes = <<>> THEN 0
                ELSE CHOOSE m \in Range(indexes) : \A x \in Range(indexes) : x <= m) + 1
        w == Width(max)
    IN [syms |-> [i \in DOMAIN indexes |-> indexes[i] % 2^w], width |-> w]

MergeResult(ins, ids) ==
    LET merged == KMerge([j \in DOMAIN ins |-> Zip(ids[j], ins[j].strings)], <<>>)
    IN [strings |-> [i \in DOMAIN merged |-> merged[i][2]],
        tree |-> BuildTree([i \in DOMAIN merged |-> merged[i][1]])]

\* merge_dictionary_stack over the inputs `ins`: one result for each choice
\* of ids (one, unless a remap is opened with a width it was not built with).
MergeOf(ins) ==
    {MergeResult(ins, ids) : ids \in IdChoices(ins, Offsets([j \in DOMAIN ins |-> Len(ins[j].strings)]))}

(***************************************************************************)
(* Actions.                                                                *)
(***************************************************************************)
Init == stack = <<>>

\* A layer's dictionary is built from a set of strings (PfcDictFileBuilder
\* ::add_all over sorted input) and stacked with no remap.
PushDict(S) ==
    /\ Len(stack) < MaxDicts
    /\ AllowShared \/ \A j \in DOMAIN stack : S \cap Range(stack[j].strings) = {}
    /\ stack' = Append(stack, [strings |-> SetToSortSeq(S, <), tree |-> NoValue])

\* merge_dictionary_stack over the top k entries, each passed with its
\* tree as the remap; the result replaces them.
MergeStack(k) ==
    /\ RemapAnySlot \/ k = Len(stack)
    /\ Len(stack) - k < MaxDicts
    /\ \E m \in MergeOf(SubSeq(stack, Len(stack) - k + 1, Len(stack))) :
          stack' = Append(SubSeq(stack, 1, Len(stack) - k), m)

Next ==
    \/ \E S \in SUBSET Strings : PushDict(S)
    \/ \E k \in 0 .. Len(stack) : MergeStack(k)

Spec == Init /\ [][Next]_vars
==============================================================================
