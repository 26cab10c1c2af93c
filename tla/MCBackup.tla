------------------------------ MODULE MCBackup -------------------------------
(* Instances of Backup for TLC: the subscriptions stand for both lists       *)
(* without built-in profiles, the routing profiles for both with them.       *)
EXTENDS Backup

Item(id, body) == [id |-> id, body |-> body, builtIn |-> FALSE]
BypassLan == [id |-> "bypass", body |-> "r0", builtIn |-> TRUE]
S1 == Item("s1", "u1")
S1Moved == Item("s1", "u2")
S2 == Item("s2", "u1")
R1 == Item("r1", "r1")
R1Edited == Item("r1", "r2")

MCLists == <<"subscriptions", "routing">>
MCItems == [subscriptions |-> {S1, S1Moved, S2}, routing |-> {BypassLan, R1, R1Edited}]
MCBuiltIns == [subscriptions |-> <<>>, routing |-> <<BypassLan>>]

ListFile(form, items) == [form |-> form, items |-> items]
Disk(subs, routing, selected, v) ==
  [lists |-> [subscriptions |-> subs, routing |-> routing],
   settings |-> [selected |-> [routing |-> selected],
                 keys |-> [key \in Keys |-> IF key \in {"runtime", "geo"} THEN Absent ELSE v]],
   rulesets |-> v, files |-> v]

\* A start after the subscriptions were set up only, and one over a damaged list and one
\* without a schema.
MCFoundDisk ==
  {[Disk(ListFile("object", <<S1>>), ListFile("absent", <<>>), "bypass", 1)
      EXCEPT !.rulesets = Absent],
   Disk(ListFile("damaged", <<>>), ListFile("array", <<BypassLan, R1>>), "r1", 1)}

Archive(layout, d) ==
  [layout |-> layout, lists |-> d.lists, geo |-> 2,
   settings |-> [d.settings EXCEPT !.keys["xrayPath"] = Absent],
   rulesets |-> IF layout = "root" THEN Absent ELSE d.rulesets,
   files |-> IF layout = "root" THEN Absent ELSE d.files]

\* Settings of three kinds; those of the machine come from the other installation.
MCWrites == {<<"shared", 2>>, <<"runtime", 2>>, <<"geo", 2>>}

\* What another installation, and a portable folder, hold.
Elsewhere == Disk(ListFile("object", <<S2>>), ListFile("object", <<BypassLan, R1Edited>>), "r1", 2)
MCArchives == {Archive("data", Elsewhere), Archive("root", Elsewhere)}

=============================================================================
