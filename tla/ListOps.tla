------------------------------- MODULE ListOps -------------------------------
(* Places in lists, counted from 1, and the items that pass a test.          *)
EXTENDS Naturals, Sequences, FiniteSets, Functions

Places(list, chosen) == {i \in DOMAIN list : list[i] \in chosen}
RankOf(i, places) == Cardinality({j \in places : j <= i})

\* The first and the last of some places, 0 without one.
FirstOf(places) == IF places = {} THEN 0 ELSE CHOOSE i \in places : \A j \in places : i <= j
LastOf(places) == IF places = {} THEN 0 ELSE CHOOSE i \in places : \A j \in places : i >= j

\* The items of a list that pass a test, in their order: SelectSeq, with the items that
\* pass given as a set and without its recursion, which no proof can unfold.
Kept(list, chosen) ==
  LET places == Places(list, chosen)
  IN [k \in 1 .. Cardinality(places) |->
        list[CHOOSE i \in places : RankOf(i, places) = k]]

=============================================================================
