---------------------------- MODULE MCUpdateCheck ----------------------------
(* Instances of UpdateCheck for TLC.                                         *)
EXTENDS UpdateCheck

V(minor, patch, suffix) == [major |-> 1, minor |-> minor, patch |-> patch, suffix |-> suffix]
MCStart == V(0, 0, "rc.1")

Archive(id, version, whole, clean) ==
  [id |-> id, version |-> version, whole |-> whole, clean |-> clean]
Stable == Archive(1, V(1, 0, ""), TRUE, TRUE)
Rebuilt == Archive(2, V(1, 0, ""), TRUE, TRUE)
Beta == Archive(3, V(1, 1, "beta"), TRUE, TRUE)
Torn == Archive(4, V(1, 0, ""), FALSE, TRUE)
Astray == Archive(5, V(1, 1, "beta"), TRUE, FALSE)
MCContents == {Stable, Rebuilt, Beta, Torn, Astray}

For(sha, mode) == [fits |-> TRUE, mode |-> mode, valid |-> TRUE, sha256 |-> sha]
Other == [fits |-> FALSE, mode |-> "portable", valid |-> TRUE, sha256 |-> Stable]
Entry(latest, min, assets) == [latest |-> latest, minSupported |-> min, assets |-> assets]
Both(sha) == <<Other, For(sha, "installed"), For(sha, "portable")>>
StableWith(assets) == Entry(V(1, 0, ""), None, assets)

\* A release, built anew, with the newer beta beside it, without a checksum; the
\* candidate that compares equal to the one that runs; too old for the newest; nothing
\* that fits on the newest channel.
MCManifests ==
  { [k \in {"stable"} |-> StableWith(Both(Stable))],
    [k \in {"stable"} |-> StableWith(Both(Rebuilt))],
    [k \in {"stable", "beta"} |->
       IF k = "stable" THEN StableWith(Both(Stable)) ELSE Entry(V(1, 1, "beta"), None, Both(Beta))],
    [k \in {"stable", "beta", "dev"} |->
       IF k = "stable" THEN Entry(V(1, 1, "beta"), None, Both(Beta))
       ELSE StableWith(Both(Stable))],
    [k \in {"stable"} |-> StableWith(<<For(None, "portable")>>)],
    [k \in {"stable"} |-> StableWith(<<For(Torn, "portable")>>)],
    [k \in {"beta"} |-> Entry(V(1, 1, "beta"), None, <<For(Astray, "portable")>>)],
    [k \in {"rc"} |-> Entry(V(0, 0, "rc.2"), None, Both(Beta))],
    [k \in {"stable"} |-> Entry(V(1, 0, ""), V(0, 5, ""), Both(Stable))],
    [k \in {"stable", "beta"} |->
       IF k = "stable" THEN StableWith(Both(Stable)) ELSE Entry(V(1, 1, ""), None, <<Other>>)] }

MCSetups ==
  [channel: {"stable", "beta", "rc"}, portable: BOOLEAN, allowUnsigned: BOOLEAN, enabled: {TRUE}]
=============================================================================
