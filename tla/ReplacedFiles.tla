---------------------------- MODULE ReplacedFiles ----------------------------
(* What the program promises about a file that it fetches for a core: what   *)
(* can be had of the file is never lost.  It is replaced by a published      *)
(* version, whole and not older than the one it replaces, and changed by     *)
(* nothing else than somebody outside of the program.                        *)
EXTENDS Integers

CONSTANTS Kinds,         \* the files
          Own,           \* a file that the user brought
          None,          \* no file
          MaxPublished,  \* bound: versions that the publisher brings out
          MaxOutside     \* bound: changes from outside

VARIABLES content,    \* what can be had of each file
          published,  \* the newest version of the publisher
          outside     \* changes from outside so far

replacedVars == <<content, published, outside>>

Contents == (1 .. MaxPublished) \cup {Own, None}

ReplacedInit ==
  /\ content \in [Kinds -> {1, Own, None}]
  /\ published = 1
  /\ outside = 0

Publish ==
  /\ published < MaxPublished
  /\ published' = published + 1
  /\ UNCHANGED <<content, outside>>

\* Never an older version in the place of a newer one.
Newer(old) == {v \in 1 .. published : old \in Int => v >= old}

Replace(k) ==
  /\ \E v \in Newer(content[k]) : content' = [content EXCEPT ![k] = v]
  /\ UNCHANGED <<published, outside>>

ChangeOutside(k) ==
  /\ outside < MaxOutside
  /\ outside' = outside + 1
  /\ content' \in {[content EXCEPT ![k] = c] : c \in Contents}
  /\ UNCHANGED published

ReplacedNext == Publish \/ \E k \in Kinds : Replace(k) \/ ChangeOutside(k)

ReplacedSpec == ReplacedInit /\ [][ReplacedNext]_replacedVars

=============================================================================
