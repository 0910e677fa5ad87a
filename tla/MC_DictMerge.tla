---------------------------- MODULE MC_DictMerge ----------------------------
(***************************************************************************)
(* The dictionary merger over six strings and a stack of up to four      *)
(* dictionaries, checked against DictStack and the MappedPfcDict contract. *)
(***************************************************************************)
EXTENDS DictMerge

MCStrings == 1 .. 6

\* The abstract stack seen through get: each entry's strings in external
\* order.
Abs == INSTANCE DictStack WITH dicts <- [j \in DOMAIN stack |-> External(stack[j])]

(***************************************************************************)
(* merge_dictionary_stack implements DictStack: read through               *)
(* MappedPfcDict::get, the merged dictionary lists the strings of its      *)
(* inputs in their external orders, concatenated in stack order, after any *)
(* sequence of pushes and merges.  The offsets scan, the remap decode of a *)
(* dictionary merged before and the width of the new tree must all agree.  *)
(***************************************************************************)
RefinesDictStack == Abs!Spec

(***************************************************************************)
(* Every dictionary on the stack holds its strings strictly increasing, as *)
(* the PFC builder requires: the k-way merge of sorted_stream with the     *)
(* min_by_key picker emits the union of its sorted inputs in order.        *)
(***************************************************************************)
DictSorted == \A j \in DOMAIN stack : IsSorted(stack[j].strings, <)

(***************************************************************************)
(* A later merge that takes a mapped dictionary as its remap reads back    *)
(* the ids the earlier merge stored: it opens the tree with the width     *)
(* computed from the dictionary's count (line 66), while the tree was     *)
(* built with the width of max(indexes) + 1 (lines 95-96).  Both widths   *)
(* must agree, also at the counts 0 and 1 where log2 is -inf and 0.       *)
(***************************************************************************)
RemapDecodesBuiltIds ==
    \A j \in DOMAIN stack :
        stack[j].tree # NoValue => SlotIds(stack[j], 0) = {stack[j].tree.syms}

==============================================================================
