---------------------------- MODULE ProxyBackend ----------------------------
(* What the platform proxy managers do to the proxy configuration of the     *)
(* desktop (src/src/platform/{linux,macos,windows}).  A configuration is     *)
(* reduced to the three groups of keys whose write order and whose restore   *)
(* treatment differ between the platforms: the mode switch, the endpoint and *)
(* the bypass list.  Every manager writes the groups one after the other,    *)
(* with no transaction, so a failure leaves a prefix of the writes behind.   *)
EXTENDS SequencesExt

CONSTANT UserEndpoints,  \* endpoints the user may have configured
         UserBypasses    \* bypass lists the user may have configured

ASSUME UserAssumption == "zarya" \notin UserEndpoints \cup UserBypasses

\* On Linux the desktop decides; one that is neither, or has no tool to configure it,
\* gets a stub that refuses every call and so changes nothing.
LinuxBackends == {"gnome", "kde"}
AllBackends == LinuxBackends \cup {"macos", "windows"}

Endpoints == UserEndpoints \cup {"zarya"}
Bypasses == UserBypasses \cup {"zarya"}

Configs == [mode : {"off", "manual"}, endpoint : Endpoints, bypass : Bypasses]
UserConfigs ==
  [mode : {"off", "manual"}, endpoint : UserEndpoints, bypass : UserBypasses]

\* The configuration applyHttpProxy("127.0.0.1", mixedPort) asks for.
ZaryaConfig == [mode |-> "manual", endpoint |-> "zarya", bypass |-> "zarya"]

PointsAtZarya(cfg) == cfg.mode = "manual" /\ cfg.endpoint = "zarya"

\* Two configurations an application cannot tell apart: the endpoint and the
\* bypass list of a switched off proxy are not consulted.
SameProxy(a, b) == a = b \/ (a.mode = "off" /\ b.mode = "off")

-----------------------------------------------------------------------------
\* cfg after the given groups of keys were written with the values of target.
Overwrite(cfg, target, keys) ==
  [ mode     |-> IF "mode" \in keys THEN target.mode ELSE cfg.mode,
    endpoint |-> IF "endpoint" \in keys THEN target.endpoint ELSE cfg.endpoint,
    bypass   |-> IF "bypass" \in keys THEN target.bypass ELSE cfg.bypass ]

ApplyOrder ==
  [ gnome   |-> <<"mode", "endpoint", "bypass">>,
    kde     |-> <<"endpoint", "bypass", "mode">>,
    macos   |-> <<"endpoint", "mode", "bypass">>,
    windows |-> <<"mode", "endpoint", "bypass">> ]

\* macOS switches a service off without rewriting its endpoint, so a snapshot
\* whose proxy was off is restored without the endpoint write.
MacRestoreOrder(snapshot) ==
  IF snapshot.mode = "manual"
  THEN <<"endpoint", "mode", "bypass">>
  ELSE <<"mode", "bypass">>

RestoreOrder(backend, snapshot) ==
  [ gnome   |-> <<"mode", "bypass", "endpoint">>,
    kde     |-> <<"endpoint", "bypass", "mode">>,
    macos   |-> MacRestoreOrder(snapshot),
    windows |-> <<"mode", "endpoint", "bypass">> ][backend]

\* Configurations a process killed while it writes may leave.
PartialWrites(cfg, target, order) ==
  {Overwrite(cfg, target, ToSet(written)) : written \in Prefixes(order)}

\* gsettings and networksetup report the write that failed: it is not done.
InterruptedWrites(cfg, target, order) ==
  {Overwrite(cfg, target, ToSet(written)) : written \in Prefixes(order) \ {order}}

\* KDE writes the configuration it read back when a write or the reload fails;
\* the write back may fail in its turn.
KdeRolledBack(cfg, target, order) ==
  UNION {PartialWrites(dirty, cfg, RestoreOrder("kde", cfg)) :
           dirty \in PartialWrites(cfg, target, order)}

\* What a failed write sequence leaves.  The registry reports at sync() or at
\* the change notification, when everything may already be written.
FailedWrites(backend, cfg, target, order) ==
  [ gnome   |-> InterruptedWrites(cfg, target, order),
    macos   |-> InterruptedWrites(cfg, target, order),
    kde     |-> KdeRolledBack(cfg, target, order),
    windows |-> PartialWrites(cfg, target, order) ][backend]

Outcomes(backend, cfg, target, order) ==
  {[ok |-> TRUE, os |-> Overwrite(cfg, target, ToSet(order))]}
    \cup {[ok |-> FALSE, os |-> left] : left \in FailedWrites(backend, cfg, target, order)}

ApplyHttpProxy(backend, cfg) ==
  Outcomes(backend, cfg, ZaryaConfig, ApplyOrder[backend])

RestoreState(backend, cfg, snapshot) ==
  Outcomes(backend, cfg, snapshot, RestoreOrder(backend, snapshot))

\* tryClearZaryaOwnedProxy compares the endpoint with "127.0.0.1:<port>"; the
\* WinINet manager writes and reads "http=127.0.0.1:<port>;https=...".
ReadsAsZaryaEndpoint(backend, cfg) == PointsAtZarya(cfg) /\ backend # "windows"

\* The copy with proxyEnabled and proxyServer reset that the clear hands to
\* restoreState: only WinINet restores from those two fields, the others
\* restore from the raw key values, which the copy keeps.
DisabledCopy(backend, cfg) ==
  IF backend = "windows" THEN [cfg EXCEPT !.mode = "off"] ELSE cfg

=============================================================================
