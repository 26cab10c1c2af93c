---------------------------- MODULE MCProfileList ----------------------------
(* Instances of ProfileList for TLC.                                         *)
EXTENDS ProfileList, TLC

Symmetry == Permutations(Servers)

Profile(id, sub, server) ==
  [id |-> id, sub |-> sub, server |-> server, missing |-> FALSE]

\* A first start, and two subscriptions that were updated once, the each to one server.
FirstStart == [profiles |-> <<>>, subs |-> <<>>]
TwoLists(s1, s2) ==
  [profiles |-> <<Profile(1, "A", s1), Profile(2, "B", s2)>>,
   subs |-> <<[id |-> "A", enabled |-> TRUE], [id |-> "B", enabled |-> TRUE]>>]

MCFound == {FirstStart} \cup {TwoLists(s, t) : s, t \in Servers}

=============================================================================
