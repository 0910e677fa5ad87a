------------------------------ MODULE DictStack ------------------------------
(***************************************************************************)
(* What a stack of layer dictionaries promises its users (spec.md 4.5,    *)
(* 4.6 and 8, scenarios 2 and 3): each dictionary is the sequence of its  *)
(* strings in external-id order, so that get(i) is its (i+1)-th element.  *)
(* A layer stacks a dictionary of its strings in sorted order; merging    *)
(* the top k dictionaries gives one dictionary whose external order is    *)
(* theirs, concatenated in stack order.                                   *)
(***************************************************************************)
EXTENDS Integers, Sequences, SequencesExt

CONSTANTS Strings, MaxDicts, AllowShared

VARIABLE dicts

Init == dicts = <<>>

Push(S) ==
    /\ Len(dicts) < MaxDicts
    /\ AllowShared \/ \A j \in DOMAIN dicts : S \cap Range(dicts[j]) = {}
    /\ dicts' = Append(dicts, SetToSortSeq(S, <))

Merge(k) ==
    /\ Len(dicts) - k < MaxDicts
    /\ dicts' = Append(SubSeq(dicts, 1, Len(dicts) - k),
                       FlattenSeq(SubSeq(dicts, Len(dicts) - k + 1, Len(dicts))))

Next ==
    \/ \E S \in SUBSET Strings : Push(S)
    \/ \E k \in 0 .. Len(dicts) : Merge(k)

Spec == Init /\ [][Next]_dicts
==============================================================================
