------------------------- MODULE ConfigurationProofs -------------------------
(* Proofs about EngineConfig: what an engine is given, for any rule sets, any *)
(* profiles to choose from and any number of faults; and about Backup: what   *)
(* exports, imports, failed writes and restarts make of the stored lists and  *)
(* settings, for any lists, archives and number of acts.                      *)
EXTENDS EngineConfig, Backup, ListOpsProofs

-----------------------------------------------------------------------------
(* Starts *)

\* What a start that went through was made from.
StartedRight ==
  last # None /\ last.verdict = "started" =>
    LET c == last.choice
    IN /\ c \in StartChoices
       /\ last.engine = "xray" =>
            /\ XraySupports(c.server)
            /\ last.config.outbound = XrayOutbound(c.server)
            /\ XrayOutbound(c.server) # NoOutbound
            /\ last.config.route = XrayRules(c.routing)
       /\ last.engine = "tun" =>
            /\ SingBoxSupports(c.server)
            /\ last.config.outbound = SingBoxOutbound(c.server)
            /\ SingBoxOutbound(c.server) # NoOutbound
            /\ last.config.route = HijackRules(c.hijack) \o SingBoxRules(c.routing, BackendContext)
            /\ last.config.dns = SingBoxDns(c.dns, BackendContext)
       /\ last.engine \in {"xray", "tun"}

LEMMA StartedRightInit == EngineInit => StartedRight
  BY DEF EngineInit, StartedRight

\* Only the two starts set "last" to an attempt, and they check what they store.
LEMMA StartedRightStep == StartedRight /\ [EngineNext]_vars => StartedRight'
<1> SUFFICES ASSUME StartedRight, [EngineNext]_vars PROVE StartedRight'
  OBVIOUS
<1>1. ASSUME last' = last PROVE StartedRight'
  BY <1>1 DEF StartedRight
<1>2. ASSUME NEW c \in StartChoices, StartTun(c) PROVE StartedRight'
  <2> DEFINE ctx == Context(c.routing, c.dns, c.strict)
             shown == SingBoxConfig(c.server, c.routing, c.dns, c.hijack, ctx)
             config == SingBoxConfig(c.server, c.routing, c.dns, c.hijack, BackendContext)
  <2>1. /\ shown.outbound = SingBoxOutbound(c.server)
        /\ config.outbound = SingBoxOutbound(c.server)
        /\ config.route = HijackRules(c.hijack) \o SingBoxRules(c.routing, BackendContext)
        /\ config.dns = SingBoxDns(c.dns, BackendContext)
    BY DEF SingBoxConfig
  <2>2. CASE TunRefuses(c, ctx, shown)
    <3>1. last' = Refused("tun", c)
      BY <1>2, <2>2 DEF StartTun, Preview
    <3> QED
      BY <3>1 DEF Refused, StartedRight
  <2>3. CASE ~TunRefuses(c, ctx, shown)
    <3>1. last' = [engine |-> "tun", choice |-> c, verdict |-> "started", shown |-> shown,
                   config |-> config]
      BY <1>2, <2>3 DEF StartTun, Preview
    <3>2. SingBoxSupports(c.server) /\ shown.outbound # NoOutbound
      BY <2>3 DEF TunRefuses
    <3> HIDE DEF shown, config, ctx
    <3> QED
      BY <3>1, <3>2, <2>1 DEF StartedRight
  <2> QED
    BY <2>2, <2>3
<1>3. ASSUME NEW c \in StartChoices, StartXray(c) PROVE StartedRight'
  <2> DEFINE config == XrayConfig(c.server, c.routing, c.dns)
  <2>1. config.outbound = XrayOutbound(c.server) /\ config.route = XrayRules(c.routing)
    BY DEF XrayConfig
  <2>2. CASE ~XraySupports(c.server) \/ config.outbound = NoOutbound
    <3>1. last' = Refused("xray", c)
      BY <1>3, <2>2 DEF StartXray
    <3> QED
      BY <3>1 DEF Refused, StartedRight
  <2>3. CASE XraySupports(c.server) /\ config.outbound # NoOutbound
    <3>1. last' = [engine |-> "xray", choice |-> c, verdict |-> "started", config |-> config]
      BY <1>3, <2>3 DEF StartXray
    <3> HIDE DEF config
    <3> QED
      BY <3>1, <2>3, <2>1 DEF StartedRight
  <2> QED
    BY <2>2, <2>3
<1>4. CASE Stop \/ \E c \in StartChoices : CancelTun(c) \/ CancelXray(c)
  BY <1>4 DEF Stop, CancelTun, CancelXray, Refused, StartedRight
<1>5. CASE UNCHANGED vars
  BY <1>1, <1>5 DEF vars
<1>6. CASE \E t \in Catalog : ImportSrs(t) \/ ImportSrsFails(t) \/ CompileJson(t) \/ CompileJsonFails(t)
  BY <1>1, <1>6 DEF ImportSrs, ImportSrsFails, CompileJson, CompileJsonFails
<1>7. CASE (\E t \in Tags : ChangeByHand(t)) \/ CheckStatus
  BY <1>1, <1>7 DEF ChangeByHand, CheckStatus
<1> QED
  BY <1>2, <1>3, <1>4, <1>5, <1>6, <1>7 DEF EngineNext

LEMMA AlwaysStartedRight == EngineSpec => []StartedRight
  BY StartedRightInit, StartedRightStep, PTL DEF EngineSpec

\* The outbound of Xray, by the protocol of the server.
LEMMA XrayOutboundFits ==
  ASSUME NEW s \in Server, XraySupports(s), XrayOutbound(s) # NoOutbound
  PROVE /\ Streamed(s) => XrayOutbound(s) = Outbound(Network(s), s.security)
        /\ s.protocol = "hysteria2" => XrayOutbound(s) = Outbound("hysteria", "tls")
<1>1. s.protocol \in Protocols
  BY DEF Server
<1> QED
  BY <1>1 DEF XrayOutbound, WireGuardOutbound, Streamed, Protocols

LEMMA SingBoxOutboundFits ==
  ASSUME NEW s \in Server, SingBoxSupports(s), SingBoxOutbound(s) # NoOutbound,
         Streamed(s) \/ s.protocol = "hysteria2", s.security \in {"tls", "reality"}
  PROVE SingBoxOutbound(s).security # "none"
<1>1. CASE s.protocol = "vless"
  BY <1>1 DEF SingBoxOutbound, Outbound
<1>2. CASE s.protocol = "vmess"
  BY <1>2 DEF SingBoxOutbound, Outbound, SingBoxSupports
<1>3. CASE s.protocol = "trojan"
  BY <1>3 DEF SingBoxOutbound, Outbound
<1>4. CASE s.protocol = "hysteria2"
  BY <1>4 DEF SingBoxOutbound, Outbound
<1> QED
  BY <1>1, <1>2, <1>3, <1>4 DEF Streamed

\* No start reaches a server that asks for encryption without it, and Xray gets its transport
\* (XrayAdapter::generateOutbound, SingBoxConfigGenerator::buildProxyOutbound).
THEOREM OutboundsAreMeant == EngineSpec => []OutboundIsMeant
<1>1. StartedRight => OutboundIsMeant
  <2> SUFFICES ASSUME StartedRight, last # None, last.verdict = "started" PROVE OutboundIsMeant
    BY DEF OutboundIsMeant
  <2> DEFINE s == last.choice.server
  <2>1. s \in Server
    BY ChoicesAssumption DEF StartedRight
  <2>2. CASE last.engine = "xray"
    <3>1. last.config.outbound = XrayOutbound(s) /\ XraySupports(s) /\ XrayOutbound(s) # NoOutbound
      BY <2>2 DEF StartedRight
    <3>2. Streamed(s) => last.config.outbound = Outbound(Network(s), s.security)
      BY <2>1, <3>1, XrayOutboundFits
    <3>3. s.protocol = "hysteria2" => last.config.outbound = Outbound("hysteria", "tls")
      BY <2>1, <3>1, XrayOutboundFits
    <3> QED
      BY <3>2, <3>3, <2>2 DEF OutboundIsMeant, Outbound, Started
  <2>3. CASE last.engine = "tun"
    <3>1. last.config.outbound = SingBoxOutbound(s) /\ SingBoxSupports(s)
          /\ SingBoxOutbound(s) # NoOutbound
      BY <2>3 DEF StartedRight
    <3>2. (Streamed(s) \/ s.protocol = "hysteria2") /\ s.security \in {"tls", "reality"} =>
            last.config.outbound.security # "none"
      BY <2>1, <3>1, SingBoxOutboundFits
    <3> QED
      BY <3>2, <2>3 DEF OutboundIsMeant, Started
  <2> QED
    BY <2>2, <2>3 DEF StartedRight
<1> QED
  BY <1>1, AlwaysStartedRight, PTL

-----------------------------------------------------------------------------
(* Routing *)

Rank(action) == CASE action = "block" -> 1 [] action = "direct" -> 2 [] OTHER -> 3

InOrder(rules) ==
  \A i, j \in DOMAIN rules : i <= j => Rank(rules[i].action) <= Rank(rules[j].action)

\* The action that the rules of a kind of traffic come to.
Wins(actions) ==
  IF "block" \in actions THEN "block" ELSE IF "direct" \in actions THEN "direct" ELSE "proxy"

LEMMA ActionsAre == Range(Actions) = {"block", "direct", "proxy"}
<1>1. DOMAIN Actions = 1 .. 3
  BY DEF Actions
<1>2. Actions[1] = "block" /\ Actions[2] = "direct" /\ Actions[3] = "proxy"
  BY DEF Actions
<1> QED
  BY <1>1, <1>2 DEF Range

\* The part of a list keeps the order of the list.
LEMMA KeptRulesInOrder ==
  ASSUME NEW rules \in Seq(Rules), InOrder(rules), NEW some
  PROVE InOrder(Kept(rules, some))
<1> DEFINE kept == Kept(rules, some)
<1>0. PICK from : TakesAll(from, rules, some)
  BY KeptInOrder
<1>1. /\ kept \in Seq(Rules \cap some)
      /\ from \in [1 .. Len(kept) -> DOMAIN rules]
      /\ \A k \in 1 .. Len(kept) : kept[k] = rules[from[k]]
      /\ \A k, m \in 1 .. Len(kept) : k < m => from[k] < from[m]
  BY <1>0, KeptInOrder DEF TakesAll
<1>2. DOMAIN kept = 1 .. Len(kept) /\ DOMAIN rules \in SUBSET Nat
  BY <1>1
<1> HIDE DEF kept
<1>3. \A k, m \in DOMAIN kept : k <= m => from[k] <= from[m]
  <2> TAKE k, m \in DOMAIN kept
  <2>1. from[k] \in Nat /\ from[m] \in Nat /\ k \in Int /\ m \in Int
    BY <1>1, <1>2
  <2>2. k = m \/ (k <= m => k < m)
    BY <2>1
  <2> QED
    BY <1>1, <1>2, <2>1, <2>2
<1>4. \A k, m \in DOMAIN kept : k <= m => Rank(kept[k].action) <= Rank(kept[m].action)
  BY <1>1, <1>2, <1>3 DEF InOrder
<1> QED
  BY <1>4 DEF InOrder, kept

\* Both generators put the rules into the order block, direct, proxy, and lose none.
LEMMA SortedRules ==
  ASSUME NEW rules \in Seq(Rules)
  PROVE /\ Sorted(rules) \in Seq(Rules)
        /\ Range(Sorted(rules)) = Range(rules)
        /\ InOrder(Sorted(rules))
<1> DEFINE block == OfAction(rules, "block")
           direct == OfAction(rules, "direct")
           proxy == OfAction(rules, "proxy")
<1>1. \A a : /\ OfAction(rules, a) \in Seq(Rules)
             /\ Range(OfAction(rules, a)) = {r \in Range(rules) : r.action = a}
  <2> TAKE a
  <2> DEFINE those == {r \in Range(rules) : r.action = a}
  <2>1. Kept(rules, those) \in Seq(Rules) /\ Range(Kept(rules, those)) = Range(rules) \cap those
    BY KeptItems
  <2> QED
    BY <2>1 DEF OfAction
<1>2. Sorted(rules) = (block \o direct) \o proxy
  BY DEF Sorted, Actions
<1> HIDE DEF block, direct, proxy
<1>3. block \in Seq(Rules) /\ direct \in Seq(Rules) /\ proxy \in Seq(Rules)
  BY <1>1 DEF block, direct, proxy
<1>4. /\ \A i \in DOMAIN block : block[i].action = "block"
      /\ \A i \in DOMAIN direct : direct[i].action = "direct"
      /\ \A i \in DOMAIN proxy : proxy[i].action = "proxy"
  BY <1>1 DEF Range, block, direct, proxy
<1>5. Range(rules) = Range(block) \cup Range(direct) \cup Range(proxy)
  <2>1. \A r \in Range(rules) : r.action \in {"block", "direct", "proxy"}
    <3>1. \A i \in DOMAIN rules : rules[i] \in Rules
      OBVIOUS
    <3> QED
      BY <3>1, ActionsAre DEF Range, Rules
  <2> QED
    BY <1>1, <2>1 DEF block, direct, proxy
<1>6. Range(Sorted(rules)) = Range(block) \cup Range(direct) \cup Range(proxy)
  <2> DEFINE both == block \o direct
  <2>1. both \in Seq(Rules)
    BY <1>3
  <2>2. Range(both) = Range(block) \cup Range(direct)
    BY <1>3, RangeConcatenation
  <2>3. Sorted(rules) = both \o proxy
    BY <1>2
  <2> HIDE DEF both
  <2>4. Range(both \o proxy) = Range(both) \cup Range(proxy)
    BY <1>3, <2>1, RangeConcatenation
  <2> QED
    BY <2>2, <2>3, <2>4
<1>7. InOrder((block \o direct) \o proxy)
  BY <1>3, <1>4 DEF InOrder, Rank
<1> QED
  BY <1>2, <1>3, <1>5, <1>6, <1>7

LEMMA EnabledRulesInOrder ==
  ASSUME NEW profile, profile.rules \in Seq(Rules)
  PROVE /\ EnabledRules(profile) \in Seq(Rules)
        /\ Range(EnabledRules(profile)) = {r \in Range(profile.rules) : r.on}
        /\ InOrder(EnabledRules(profile))
<1> DEFINE on == {r \in Range(profile.rules) : r.on}
<1>1. /\ Sorted(profile.rules) \in Seq(Rules)
      /\ Range(Sorted(profile.rules)) = Range(profile.rules)
      /\ InOrder(Sorted(profile.rules))
  BY SortedRules
<1>2. EnabledRules(profile) = Kept(Sorted(profile.rules), on)
  BY DEF EnabledRules
<1>3. /\ Kept(Sorted(profile.rules), on) \in Seq(Rules)
      /\ Range(Kept(Sorted(profile.rules), on)) = Range(Sorted(profile.rules)) \cap on
  BY <1>1, KeptItems
<1> QED
  BY <1>1, <1>2, <1>3, KeptRulesInOrder

\* In a route that is in order the first rule that hits has the action that wins.
LEMMA FirstHitWins ==
  ASSUME NEW n \in Nat, NEW route, DOMAIN route = 1 .. n, NEW f,
         \A i \in 1 .. n : route[i].outbound \in Range(Actions),
         \A i, j \in 1 .. n : i <= j => Rank(route[i].outbound) <= Rank(route[j].outbound)
  PROVE Decision(route, f, "proxy") =
          Wins({route[i].outbound : i \in {j \in DOMAIN route : f \in route[j].matches}})
<1> DEFINE hit == {i \in DOMAIN route : f \in route[i].matches}
           actions == {route[i].outbound : i \in hit}
<1>1. CASE hit = {}
  BY <1>1 DEF Decision, Wins
<1>2. CASE hit # {}
  <2>1. hit \in SUBSET Nat
    OBVIOUS
  <2>2. \E i \in hit : \A j \in hit : i <= j
    BY <1>2, <2>1, SmallestNat
  <2> DEFINE first == CHOOSE i \in hit : \A j \in hit : i <= j
  <2>3. first \in hit /\ \A j \in hit : first <= j
    BY <2>2
  <2>4. Decision(route, f, "proxy") = route[first].outbound
    BY <1>2 DEF Decision
  <2> HIDE DEF first
  <2>5. /\ route[first].outbound \in actions
        /\ \A a \in actions : Rank(route[first].outbound) <= Rank(a)
        /\ \A a \in actions : a \in {"block", "direct", "proxy"}
    BY <2>3, ActionsAre
  <2> HIDE DEF actions
  <2>6. route[first].outbound = Wins(actions)
    BY <2>5 DEF Wins, Rank
  <2> QED
    BY <2>4, <2>6 DEF actions
<1> QED
  BY <1>1, <1>2

\* The actions of the enabled rules that hit, as they are listed.
Asks(profile, f, action) ==
  \E r \in Range(profile.rules) : r.on /\ f \in HitsOf(r.values) /\ r.action = action

LEMMA MeantByRules ==
  ASSUME NEW profile, NEW f, NEW actions,
         "block" \in actions <=> Asks(profile, f, "block"),
         "direct" \in actions <=> Asks(profile, f, "direct"),
         profile.mode = "proxyAll" => RulesInForce(profile) = {}
  PROVE Wins(actions) = Meant(profile, f)
<1> DEFINE wanted == {profile.rules[i].action :
                        i \in {j \in DOMAIN profile.rules : /\ profile.rules[j].on
                                                            /\ f \in HitsOf(profile.rules[j].values)}}
<1>1. \A a : a \in wanted <=> Asks(profile, f, a)
  BY DEF Asks, Range
<1>2. profile.mode # "proxyAll" => Meant(profile, f) = Wins(wanted)
  BY DEF Meant, Wins
<1>3. profile.mode = "proxyAll" => wanted = {} /\ Meant(profile, f) = "proxy"
  BY DEF Meant, RulesInForce
<1> HIDE DEF wanted
<1> QED
  BY <1>1, <1>2, <1>3 DEF Wins

\* The part of the enabled rules that a generator translates.
LEMMA PartOfEnabled ==
  ASSUME NEW profile, profile.rules \in Seq(Rules), NEW some
  PROVE LET rules == Kept(EnabledRules(profile), some)
        IN /\ rules \in Seq(Rules)
           /\ DOMAIN rules = 1 .. Len(rules)
           /\ Len(rules) \in Nat
           /\ Range(rules) = {r \in Range(profile.rules) : r.on} \cap some
           /\ InOrder(rules)
<1>1. /\ EnabledRules(profile) \in Seq(Rules)
      /\ Range(EnabledRules(profile)) = {r \in Range(profile.rules) : r.on}
      /\ InOrder(EnabledRules(profile))
  BY EnabledRulesInOrder
<1>2. /\ Kept(EnabledRules(profile), some) \in Seq(Rules)
      /\ Range(Kept(EnabledRules(profile), some)) = Range(EnabledRules(profile)) \cap some
  BY <1>1, KeptItems
<1>3. InOrder(Kept(EnabledRules(profile), some))
  BY <1>1, KeptRulesInOrder
<1> DEFINE rules == Kept(EnabledRules(profile), some)
<1> HIDE DEF rules
<1>4. DOMAIN rules = 1 .. Len(rules) /\ Len(rules) \in Nat
  BY <1>2 DEF rules
<1> QED
  BY <1>1, <1>2, <1>3, <1>4 DEF rules

\* A rule without values hits nothing, no protocol rule speaks of this traffic, and the rule
\* that Xray is given last asks for nothing that was not so anyway.
LEMMA XrayRouteIsMeant ==
  ASSUME NEW profile, profile.rules \in Seq(Rules), NEW f, f \notin Sniffed(profile),
         profile.mode = "proxyAll" => RulesInForce(profile) = {}
  PROVE Decision(XrayRules(profile), f, "proxy") = Meant(profile, f)
<1> DEFINE some == {r \in Range(profile.rules) : r.values # {}}
           rules == Kept(EnabledRules(profile), some)
           n == Len(rules)
           mapped == [i \in DOMAIN rules |->
                        [matches |-> XrayHits(rules[i]), outbound |-> rules[i].action]]
           final == [matches |-> Flows, outbound |-> "proxy"]
           route == mapped \o <<final>>
           actions == {route[i].outbound : i \in {j \in DOMAIN route : f \in route[j].matches}}
<1>1. XrayRules(profile) = route
  BY DEF XrayRules
<1>2. /\ rules \in Seq(Rules) /\ DOMAIN rules = 1 .. n /\ n \in Nat
      /\ Range(rules) = {r \in Range(profile.rules) : r.on} \cap some
      /\ InOrder(rules)
  BY PartOfEnabled
<1> HIDE DEF rules, n
<1>3. mapped \in Seq({mapped[i] : i \in 1 .. n} \cup {final}) /\ Len(mapped) = n
  BY <1>2
<1>4. /\ DOMAIN route = 1 .. n + 1
      /\ \A i \in 1 .. n : /\ route[i].matches = XrayHits(rules[i])
                           /\ route[i].outbound = rules[i].action
      /\ route[n + 1].matches = Flows /\ route[n + 1].outbound = "proxy"
  <2>1. \A i \in 1 .. n : /\ mapped[i].matches = XrayHits(rules[i])
                          /\ mapped[i].outbound = rules[i].action
    BY <1>2
  <2>2. final.matches = Flows /\ final.outbound = "proxy"
    OBVIOUS
  <2> HIDE DEF mapped, final
  <2>3. /\ DOMAIN route = 1 .. n + 1
        /\ \A i \in 1 .. n : route[i] = mapped[i]
        /\ route[n + 1] = final
    BY <1>2, <1>3
  <2> QED
    BY <2>1, <2>2, <2>3
<1> HIDE DEF route, mapped, final
<1>5. \A i \in 1 .. n : rules[i].action \in {"block", "direct", "proxy"}
  <2>1. \A i \in 1 .. n : rules[i] \in Rules
    BY <1>2
  <2> QED
    BY <2>1, ActionsAre DEF Rules
<1>6. \A i \in 1 .. n + 1 : route[i].outbound \in Range(Actions)
  <2>1. \A i \in 1 .. n + 1 : i \in 1 .. n \/ i = n + 1
    BY <1>2
  <2> QED
    BY <1>4, <1>5, <2>1, ActionsAre
<1>7. \A i, j \in 1 .. n + 1 : i <= j => Rank(route[i].outbound) <= Rank(route[j].outbound)
  <2> SUFFICES ASSUME NEW i \in 1 .. n + 1, NEW j \in 1 .. n + 1, i <= j
               PROVE Rank(route[i].outbound) <= Rank(route[j].outbound)
    OBVIOUS
  <2>1. CASE j \in 1 .. n
    <3>1. i \in 1 .. n
      BY <1>2, <2>1
    <3> QED
      BY <1>2, <1>4, <2>1, <3>1 DEF InOrder
  <2>2. CASE j = n + 1
    BY <1>4, <2>2 DEF Rank
  <2> QED
    BY <1>2, <2>1, <2>2
<1>8. Decision(route, f, "proxy") = Wins(actions)
  <2>1. n + 1 \in Nat
    BY <1>2
  <2> QED
    BY <1>4, <1>6, <1>7, <2>1, FirstHitWins
<1>9. ASSUME NEW a \in {"block", "direct"} PROVE a \in actions <=> Asks(profile, f, a)
  <2>1. a \in actions <=> \E i \in 1 .. n : f \in XrayHits(rules[i]) /\ rules[i].action = a
    <3>1. a \in actions <=> \E i \in 1 .. n + 1 : f \in route[i].matches /\ route[i].outbound = a
      BY <1>4
    <3>2. \A i \in 1 .. n + 1 : i \in 1 .. n \/ i = n + 1
      BY <1>2
    <3>3. \A i \in 1 .. n : i \in 1 .. n + 1
      BY <1>2
    <3> HIDE DEF actions
    <3> QED
      BY <1>4, <3>1, <3>2, <3>3
  <2>2. (\E i \in 1 .. n : f \in XrayHits(rules[i]) /\ rules[i].action = a) <=>
          \E r \in Range(rules) : f \in XrayHits(r) /\ r.action = a
    BY <1>2 DEF Range
  <2>3. \A r : f \in HitsOf(r.values) => r.values # {}
    BY DEF HitsOf
  <2>4. ASSUME NEW r \in Range(profile.rules), r.on
        PROVE f \in XrayHits(r) <=> f \in HitsOf(r.values)
    <3>1. r \in RulesInForce(profile)
      BY <2>4 DEF Range, RulesInForce
    <3>2. r.type = "protocol" => f \notin HitsOf(r.values)
      BY <3>1 DEF Sniffed, HitsOf
    <3> QED
      BY <3>2 DEF XrayHits
  <2> QED
    BY <1>2, <2>1, <2>2, <2>3, <2>4 DEF Asks
<1> QED
  BY <1>1, <1>8, <1>9, MeantByRules

\* Without remarks the translation to sing-box drops nothing.
LEMMA SingBoxRouteIsMeant ==
  ASSUME NEW profile, profile.rules \in Seq(Rules), NEW f, NEW ctx,
         profile.mode # "proxyAll", Remarks(profile) = {}
  PROVE Decision(SingBoxRules(profile, ctx), f, "proxy") = Meant(profile, f)
<1> DEFINE some == {r \in Range(profile.rules) : Translated(r) # {}}
           rules == Kept(EnabledRules(profile), some)
           n == Len(rules)
           route == [i \in DOMAIN rules |-> SingBoxRule(rules[i], ctx)]
           actions == {route[i].outbound : i \in {j \in DOMAIN route : f \in route[j].matches}}
<1>1. SingBoxRules(profile, ctx) = route
  BY DEF SingBoxRules
<1>2. /\ rules \in Seq(Rules) /\ DOMAIN rules = 1 .. n /\ n \in Nat
      /\ Range(rules) = {r \in Range(profile.rules) : r.on} \cap some
      /\ InOrder(rules)
  BY PartOfEnabled
<1>3. \A r \in Range(profile.rules) : r.on => Translated(r) = r.values
  <2> SUFFICES ASSUME NEW i \in DOMAIN profile.rules, profile.rules[i].on,
                      NEW v \in profile.rules[i].values, v \notin Translated(profile.rules[i])
               PROVE FALSE
    BY DEF Range, Translated
  <2>1. v \in Remarks(profile)
    BY DEF Remarks, RulesInForce
  <2> QED
    BY <2>1
<1> HIDE DEF rules, n
<1>4. /\ DOMAIN route = 1 .. n
      /\ \A i \in 1 .. n : /\ route[i].matches = HitsOf(rules[i].values)
                           /\ route[i].outbound = rules[i].action
  <2>1. \A i \in 1 .. n : rules[i] \in Range(rules)
    BY <1>2 DEF Range
  <2>2. \A i \in 1 .. n : Translated(rules[i]) = rules[i].values
    BY <1>2, <1>3, <2>1
  <2> QED
    BY <1>2, <2>2 DEF SingBoxRule
<1> HIDE DEF route
<1>5. \A i \in 1 .. n : route[i].outbound \in Range(Actions)
  <2>1. \A i \in 1 .. n : rules[i] \in Rules
    BY <1>2
  <2> QED
    BY <1>4, <2>1 DEF Rules
<1>6. \A i, j \in 1 .. n : i <= j => Rank(route[i].outbound) <= Rank(route[j].outbound)
  BY <1>2, <1>4 DEF InOrder
<1>7. Decision(route, f, "proxy") = Wins(actions)
  BY <1>2, <1>4, <1>5, <1>6, FirstHitWins
<1>8. ASSUME NEW a PROVE a \in actions <=> Asks(profile, f, a)
  <2>1. a \in actions <=> \E i \in 1 .. n : f \in HitsOf(rules[i].values) /\ rules[i].action = a
    BY <1>4
  <2>2. (\E i \in 1 .. n : f \in HitsOf(rules[i].values) /\ rules[i].action = a) <=>
          \E r \in Range(rules) : f \in HitsOf(r.values) /\ r.action = a
    BY <1>2 DEF Range
  <2>3. \A r : f \in HitsOf(r.values) => r.values # {}
    BY DEF HitsOf
  <2> QED
    BY <1>2, <1>3, <2>1, <2>2, <2>3 DEF Asks
<1> QED
  BY <1>1, <1>7, <1>8, MeantByRules

\* The hijack stands before the rules and takes DNS, and nothing else.
LEMMA HijackComesFirst ==
  ASSUME NEW n \in Nat, NEW rules, rules \in Seq(Range(rules)), DOMAIN rules = 1 .. n,
         NEW hijack \in BOOLEAN, NEW f
  PROVE Decision(HijackRules(hijack) \o rules, f, "proxy") =
          IF hijack /\ f \in DnsFlows THEN "hijack" ELSE Decision(rules, f, "proxy")
<1> DEFINE first == [matches |-> DnsFlows, outbound |-> "hijack", ruleSets |-> {}, native |-> {}]
           route == HijackRules(hijack) \o rules
           hit == {i \in DOMAIN rules : f \in rules[i].matches}
           hits == {i \in DOMAIN route : f \in route[i].matches}
<1>1. CASE ~hijack
  BY <1>1 DEF HijackRules
<1>2. CASE hijack
  <2> HIDE DEF first
  <2>1. /\ DOMAIN route = 1 .. n + 1
        /\ route[1] = first
        /\ \A i \in 1 .. n : route[i + 1] = rules[i]
    BY <1>2 DEF HijackRules, first
  <2>2. first.matches = DnsFlows /\ first.outbound = "hijack"
    BY DEF first
  <2>3. /\ 1 \in hits <=> f \in DnsFlows
        /\ \A i \in 1 .. n : i + 1 \in hits <=> i \in hit
        /\ hits \in SUBSET Nat /\ hit \in SUBSET (1 .. n)
        /\ \A i \in hits : i = 1 \/ i - 1 \in 1 .. n
    BY <2>1, <2>2
  <2>4. Decision(route, f, "proxy") =
          IF hits = {} THEN "proxy" ELSE route[CHOOSE i \in hits : \A j \in hits : i <= j].outbound
    BY DEF Decision
  <2>5. Decision(rules, f, "proxy") =
          IF hit = {} THEN "proxy" ELSE rules[CHOOSE i \in hit : \A j \in hit : i <= j].outbound
    BY DEF Decision
  <2> HIDE DEF route, hits, hit
  <2>6. CASE f \in DnsFlows
    <3>1. 1 \in hits /\ \A i \in hits : i >= 1
      BY <2>3, <2>6
    <3>2. (CHOOSE i \in hits : \A j \in hits : i <= j) = 1
      <4>1. \A i \in hits : (\A j \in hits : i <= j) => i = 1
        BY <2>3, <3>1
      <4>2. \A j \in hits : 1 <= j
        BY <2>3, <3>1
      <4> QED
        BY <3>1, <4>1, <4>2
    <3> QED
      BY <1>2, <2>1, <2>2, <2>4, <2>6, <3>1, <3>2 DEF route
  <2>7. CASE f \notin DnsFlows /\ hit = {}
    <3>1. hits = {}
      <4> SUFFICES ASSUME NEW i \in hits PROVE FALSE
        OBVIOUS
      <4>1. i - 1 \in 1 .. n
        BY <2>3, <2>7
      <4>2. (i - 1) + 1 = i
        BY <2>3
      <4> QED
        BY <2>3, <2>7, <4>1, <4>2
    <3> QED
      BY <2>4, <2>5, <2>7, <3>1 DEF route
  <2>8. CASE f \notin DnsFlows /\ hit # {}
    <3>1. \E i \in hit : \A j \in hit : i <= j
      BY <2>3, <2>8, SmallestNat
    <3> DEFINE m == CHOOSE i \in hit : \A j \in hit : i <= j
    <3>2. m \in hit /\ \A j \in hit : m <= j
      BY <3>1
    <3> HIDE DEF m
    <3>3. m \in 1 .. n /\ m + 1 \in hits
      BY <2>3, <3>2
    <3>4. ASSUME NEW j \in hits PROVE m + 1 <= j
      <4>1. j - 1 \in 1 .. n /\ (j - 1) + 1 = j
        BY <2>3, <2>8
      <4>2. j - 1 \in hit
        BY <2>3, <4>1
      <4> QED
        BY <2>3, <3>2, <3>3, <4>1, <4>2
    <3>5. (CHOOSE i \in hits : \A j \in hits : i <= j) = m + 1
      <4>1. \A i \in hits : (\A j \in hits : i <= j) => i = m + 1
        BY <2>3, <3>3, <3>4
      <4> QED
        BY <3>3, <3>4, <4>1
    <3>6. Decision(rules, f, "proxy") = rules[m].outbound
      BY <2>5, <2>8 DEF m
    <3>7. Decision(route, f, "proxy") = route[m + 1].outbound
      BY <2>4, <3>3, <3>5
    <3> QED
      BY <2>1, <2>8, <3>3, <3>6, <3>7 DEF route
  <2> QED
    BY <2>6, <2>7, <2>8
<1> QED
  BY <1>1, <1>2

\* The rules that the tunnel is given are a list.
LEMMA SingBoxRulesAreList ==
  ASSUME NEW profile, profile.rules \in Seq(Rules), NEW ctx
  PROVE /\ SingBoxRules(profile, ctx) \in Seq(Range(SingBoxRules(profile, ctx)))
        /\ Len(SingBoxRules(profile, ctx)) \in Nat
        /\ DOMAIN SingBoxRules(profile, ctx) = 1 .. Len(SingBoxRules(profile, ctx))
<1> DEFINE some == {r \in Range(profile.rules) : Translated(r) # {}}
           rules == Kept(EnabledRules(profile), some)
           route == [i \in DOMAIN rules |-> SingBoxRule(rules[i], ctx)]
<1>1. CASE profile.mode = "proxyAll"
  BY <1>1 DEF SingBoxRules, Range
<1>2. CASE profile.mode # "proxyAll"
  <2>1. SingBoxRules(profile, ctx) = route
    BY <1>2 DEF SingBoxRules
  <2>2. DOMAIN rules = 1 .. Len(rules) /\ Len(rules) \in Nat
    BY PartOfEnabled
  <2> HIDE DEF rules
  <2>3. DOMAIN route = 1 .. Len(rules) /\ \A i \in DOMAIN route : route[i] \in Range(route)
    BY <2>2 DEF Range
  <2>4. route = [i \in 1 .. Len(rules) |-> route[i]]
    BY <2>2
  <2> HIDE DEF route
  <2>5. route \in Seq(Range(route)) /\ Len(route) = Len(rules)
    BY <2>2, <2>3, <2>4
  <2> QED
    BY <2>1, <2>2, <2>3, <2>5
<1> QED
  BY <1>1, <1>2

\* The tunnel of "Proxy All" has no rules.
LEMMA SingBoxProxyAll ==
  ASSUME NEW profile, profile.mode = "proxyAll", NEW f, NEW ctx
  PROVE Decision(SingBoxRules(profile, ctx), f, "proxy") = Meant(profile, f)
  BY DEF SingBoxRules, Decision, Meant

\* Both engines send traffic where the active routing profile means it to go, hijacked DNS and
\* the protocol rules of Xray apart, and ask the same DNS servers of a custom DNS profile
\* (XrayRoutingGenerator::generate, SingBoxRouteGenerator::generateRoute,
\* appendDnsHijackRoute, generateDns).
THEOREM EnginesAlwaysAgree == EngineSpec => []EnginesAgree
<1>1. StartedRight => EnginesAgree
  <2> SUFFICES ASSUME StartedRight, last # None, last.verdict = "started" PROVE EnginesAgree
    BY DEF EnginesAgree
  <2> DEFINE c == last.choice
  <2>1. c.routing.rules \in Seq(Rules)
    BY ChoicesAssumption DEF StartedRight
  <2>2. CASE last.engine = "xray"
    <3>1. last.config.route = XrayRules(c.routing)
      BY <2>2 DEF StartedRight
    <3>2. ASSUME c.routing.mode = "proxyAll" => RulesInForce(c.routing) = {},
                 NEW f \in Flows \ Sniffed(c.routing)
          PROVE Decision(last.config.route, f, "proxy") = Meant(c.routing, f)
      BY <2>1, <3>1, <3>2, XrayRouteIsMeant
    <3> QED
      BY <2>2, <3>2 DEF EnginesAgree, Started
  <2>3. CASE last.engine = "tun"
    <3> DEFINE rules == SingBoxRules(c.routing, BackendContext)
    <3>1. /\ last.config.route = HijackRules(c.hijack) \o rules
          /\ last.config.dns = SingBoxDns(c.dns, BackendContext)
      BY <2>3 DEF StartedRight
    <3>2. c.hijack \in BOOLEAN
      BY ChoicesAssumption DEF StartedRight
    <3>3. rules \in Seq(Range(rules)) /\ Len(rules) \in Nat /\ DOMAIN rules = 1 .. Len(rules)
      BY <2>1, SingBoxRulesAreList
    <3> HIDE DEF rules
    <3>4. ASSUME NEW f
          PROVE Decision(last.config.route, f, "proxy") =
                  IF c.hijack /\ f \in DnsFlows THEN "hijack" ELSE Decision(rules, f, "proxy")
      BY <3>1, <3>2, <3>3, HijackComesFirst
    <3>5. ASSUME c.routing.mode = "proxyAll" \/ Remarks(c.routing) = {}, NEW f
          PROVE Decision(rules, f, "proxy") = Meant(c.routing, f)
      <4>1. CASE c.routing.mode = "proxyAll"
        BY <4>1, SingBoxProxyAll DEF rules
      <4>2. CASE c.routing.mode # "proxyAll"
        BY <2>1, <3>5, <4>2, SingBoxRouteIsMeant DEF rules
      <4> QED
        BY <4>1, <4>2
    <3>6. c.dns.mode = "custom" => last.config.dns.servers = XrayDns(c.dns)
      BY <3>1 DEF SingBoxDns, XrayDns
    <3>7. \A f \in Hijacked(c) : Decision(last.config.route, f, "proxy") = "hijack"
      BY <3>4 DEF Hijacked
    <3>8. ASSUME c.routing.mode = "proxyAll" \/ Remarks(c.routing) = {},
                 NEW f \in Flows \ Hijacked(c)
          PROVE Decision(last.config.route, f, "proxy") = Meant(c.routing, f)
      <4>1. ~(c.hijack /\ f \in DnsFlows)
        BY <3>8 DEF Hijacked
      <4> QED
        BY <3>4, <3>5, <3>8, <4>1
    <3> QED
      BY <2>3, <3>6, <3>7, <3>8 DEF EnginesAgree, Started
  <2> QED
    BY <2>2, <2>3 DEF StartedRight
<1> QED
  BY <1>1, AlwaysStartedRight, PTL

-----------------------------------------------------------------------------
(* Servers that came from a link *)

LEMMA ReadBackKeeps ==
  ASSUME NEW l \in Link, NEW s \in ReadBack(Parsed(l))
  PROVE /\ s.protocol = l.protocol
        /\ s.security = ParsedSecurity(l)
        /\ Network(s) = Network(Parsed(l))
        /\ s.has = Parsed(l).has
<1>1. /\ Parsed(l).protocol = l.protocol
      /\ Parsed(l).security = ParsedSecurity(l)
  BY DEF Parsed
<1>2. s = Parsed(l) \/ (Parsed(l).network = "raw" /\ s = [Parsed(l) EXCEPT !.network = "tcp"])
  BY DEF ReadBack
<1>3. CASE s = Parsed(l)
  BY <1>1, <1>3
<1>4. CASE Parsed(l).network = "raw" /\ s = [Parsed(l) EXCEPT !.network = "tcp"]
  <2>1. /\ s.protocol = Parsed(l).protocol
        /\ s.security = Parsed(l).security
        /\ s.has = Parsed(l).has
        /\ s.network = "tcp"
    BY <1>4 DEF Parsed
  <2> QED
    BY <1>1, <1>4, <2>1 DEF Network
<1> QED
  BY <1>2, <1>3, <1>4

\* The dialog keeps what a link asks for: it has no other item for it.
LEMMA EditedKeeps ==
  ASSUME NEW l \in Link, NEW s \in Edited(Parsed(l))
  PROVE /\ s.protocol = l.protocol
        /\ ParsedSecurity(l) # "other" => s.security = ParsedSecurity(l)
        /\ ParsedNetwork(l) # "other" => Network(s) = Network(Parsed(l))
<1>1. PICK filled \in SUBSET {"key", "sni", "path", "service"} : s = Saved(Parsed(l), filled)
  BY DEF Edited
<1>2. ParsedNetwork(l) \in Networks
  BY DEF ParsedNetwork, Link, Networks
<1> QED
  BY <1>1, <1>2 DEF Saved, Parsed, Network, Networks

\* Whatever happened to a server since its import, it asks for what its link asks for.
LEMMA FromLinkKeeps ==
  ASSUME NEW l \in Link, NEW s \in FromLink(l)
  PROVE /\ s.protocol = l.protocol
        /\ l.protocol \in {"vless", "vmess", "trojan"} =>
             /\ Asked(l) # "nothing" => s.security = Asked(l)
             /\ l.network # "other" =>
                  Network(s) = IF l.network \in {"raw", Unsaid} THEN "tcp" ELSE l.network
<1>1. s \in ReadBack(Parsed(l)) \/ s \in Edited(Parsed(l))
  BY DEF FromLink
<1>2. /\ s.protocol = l.protocol
      /\ ParsedSecurity(l) # "other" => s.security = ParsedSecurity(l)
      /\ ParsedNetwork(l) # "other" => Network(s) = Network(Parsed(l))
  BY <1>1, ReadBackKeeps, EditedKeeps
<1>3. ASSUME l.protocol \in {"vless", "vmess", "trojan"}, Asked(l) # "nothing"
      PROVE ParsedSecurity(l) = Asked(l) /\ Asked(l) # "other"
  BY <1>3 DEF ParsedSecurity, Asked, Unsaid
<1>4. ASSUME l.protocol \in {"vless", "vmess", "trojan"}, l.network # "other"
      PROVE /\ ParsedNetwork(l) # "other"
            /\ Network(Parsed(l)) = IF l.network \in {"raw", Unsaid} THEN "tcp" ELSE l.network
  BY <1>4 DEF ParsedNetwork, Parsed, Network, Unsaid
<1> QED
  BY <1>2, <1>3, <1>4

\* No engine takes a server whose import met a feature that none has.
LEMMA PluginIsRefused ==
  ASSUME NEW l \in Link, NEW s \in ReadBack(Parsed(l)),
         l.protocol \in {"shadowsocks", "hysteria2"}, "plugin" \in l.has
  PROVE ~XraySupports(s) /\ ~SingBoxSupports(s)
<1>1. s.protocol = l.protocol /\ s.has = Parsed(l).has
  BY ReadBackKeeps
<1>2. "plugin" \in Parsed(l).has
  BY DEF Parsed, Read, Noted
<1> QED
  BY <1>1, <1>2 DEF XraySupports, SingBoxSupports

\* The tunnel reaches a server with the security it is stored with, or refuses it.
LEMMA SingBoxKeepsSecurity ==
  ASSUME NEW s, SingBoxSupports(s), Streamed(s), s.security \in {"tls", "reality"}
  PROVE SingBoxOutbound(s).security = s.security
  BY DEF SingBoxSupports, SingBoxOutbound, Outbound, Streamed

\* A server that came from a link is reached the way the link asks
\* (ShareLinkParser::parse, ProfileDialog::profileFromFields, the support checks of the engines).
THEOREM LinksAreMeant == EngineSpec => []LinkIsMeant
<1>1. StartedRight => LinkIsMeant
  <2> SUFFICES ASSUME StartedRight, last # None, last.verdict = "started", last.choice.link # None
               PROVE LinkIsMeant
    BY DEF LinkIsMeant
  <2> DEFINE l == last.choice.link
             s == last.choice.server
  <2>1. l \in Link /\ s \in FromLink(l) /\ s \in Server
    BY ChoicesAssumption DEF StartedRight
  <2>2. /\ s.protocol = l.protocol
        /\ l.protocol \in {"vless", "vmess", "trojan"} =>
             /\ Asked(l) # "nothing" => s.security = Asked(l)
             /\ l.network # "other" =>
                  Network(s) = IF l.network \in {"raw", Unsaid} THEN "tcp" ELSE l.network
    BY <2>1, FromLinkKeeps
  <2>3. Asked(l) \in {"tls", "reality", "nothing"}
    BY DEF Asked
  <2>4. s \in ReadBack(Parsed(l)) =>
          l.has \cap {"plugin"} = {} \/ l.protocol \notin {"shadowsocks", "hysteria2"}
    BY <2>1, PluginIsRefused DEF StartedRight
  <2>5. CASE last.engine = "xray"
    <3>1. ASSUME l.protocol \in {"vless", "vmess", "trojan"}
          PROVE /\ last.config.outbound.security = s.security
                /\ last.config.outbound.network = Network(s)
      <4>1. Streamed(s)
        BY <2>2, <3>1 DEF Streamed
      <4>2. last.config.outbound = Outbound(Network(s), s.security)
        BY <2>1, <2>5, <4>1, XrayOutboundFits DEF StartedRight
      <4> QED
        BY <4>2 DEF Outbound
    <3> QED
      BY <2>2, <2>4, <3>1 DEF LinkIsMeant
  <2>6. CASE last.engine = "tun"
    <3>1. ASSUME l.protocol \in {"vless", "vmess", "trojan"}, Asked(l) # "nothing"
          PROVE last.config.outbound.security = Asked(l)
      <4>1. Streamed(s) /\ s.security \in {"tls", "reality"} /\ s.security = Asked(l)
        BY <2>2, <2>3, <3>1 DEF Streamed
      <4>2. SingBoxSupports(s) /\ last.config.outbound = SingBoxOutbound(s)
        BY <2>6 DEF StartedRight
      <4> QED
        BY <4>1, <4>2, SingBoxKeepsSecurity
    <3>2. ~Started("xray")
      BY <2>6 DEF Started
    <3> QED
      BY <2>4, <3>1, <3>2 DEF LinkIsMeant
  <2> QED
    BY <2>5, <2>6 DEF StartedRight
<1> QED
  BY <1>1, AlwaysStartedRight, PTL

-----------------------------------------------------------------------------
(* Strict mode *)

\* Until something fails the catalog knows its files.
StrictInv ==
  /\ faults \in Nat
  /\ faults = 0 => items = Reloaded(files)
  /\ StrictIsLocal

LEMMA ReloadedKnows ==
  ASSUME NEW present, NEW t \in Catalog, Reloaded(present)[t] = "present"
  PROVE t \in present
  BY DEF Reloaded

\* The generators refer to tags of the context only.
LEMMA RouteRefersToLocal ==
  ASSUME NEW routing, NEW ctx, NEW i \in DOMAIN SingBoxRules(routing, ctx)
  PROVE SingBoxRules(routing, ctx)[i].ruleSets \subseteq ctx.local
<1> DEFINE rules == Kept(EnabledRules(routing), {r \in Range(routing.rules) : Translated(r) # {}})
<1>1. CASE routing.mode = "proxyAll"
  BY <1>1 DEF SingBoxRules
<1>2. CASE routing.mode # "proxyAll"
  <2>1. SingBoxRules(routing, ctx) = [j \in DOMAIN rules |-> SingBoxRule(rules[j], ctx)]
    BY <1>2 DEF SingBoxRules
  <2> HIDE DEF rules
  <2>2. SingBoxRules(routing, ctx)[i] = SingBoxRule(rules[i], ctx)
    BY <2>1
  <2> QED
    BY <2>2 DEF SingBoxRule
<1> QED
  BY <1>1, <1>2

China == {[form |-> "geosite", name |-> n] : n \in {"cn", "geolocation-!cn"}}

LEMMA DnsRefersToLocal ==
  ASSUME NEW dns, NEW ctx, dns.mode \in {"system", "secure", "china", "custom"}
  PROVE /\ SingBoxDns(dns, ctx).ruleSets \subseteq ctx.local
        /\ dns.mode # "custom" =>
             \A v \in SingBoxDns(dns, ctx).native : dns.mode = "china" /\ v \in China
                                                    /\ TagOf[v] \notin ctx.local
<1>1. CASE ~dns.on
  BY <1>1 DEF SingBoxDns
<1>2. CASE dns.on /\ dns.mode = "china"
  BY <1>2 DEF SingBoxDns, China
<1>3. CASE dns.on /\ dns.mode \in {"secure", "system", "custom"}
  BY <1>3 DEF SingBoxDns
<1> QED
  BY <1>1, <1>2, <1>3

LEMMA ChinaIsRequired ==
  ASSUME NEW routing, NEW dns, dns.mode = "china", NEW v \in China
  PROVE TagOf[v] \in Required(routing, dns)
<1>1. v.form = "geosite"
  BY DEF China
<1> QED
  BY <1>1 DEF Required, China, Geo

\* The detector finds the geo data of a rule that the generator translates.
LEMMA RulesAreRequired ==
  ASSUME NEW routing, routing.rules \in Seq(Rules), NEW dns, NEW ctx,
         NEW i \in DOMAIN SingBoxRules(routing, ctx),
         NEW v \in SingBoxRules(routing, ctx)[i].native
  PROVE TagOf[v] \in Required(routing, dns)
<1> DEFINE some == {r \in Range(routing.rules) : Translated(r) # {}}
           rules == Kept(EnabledRules(routing), some)
<1>1. CASE routing.mode = "proxyAll"
  BY <1>1 DEF SingBoxRules
<1>2. CASE routing.mode # "proxyAll"
  <2>1. SingBoxRules(routing, ctx) = [j \in DOMAIN rules |-> SingBoxRule(rules[j], ctx)]
    BY <1>2 DEF SingBoxRules
  <2>2. Range(rules) = {r \in Range(routing.rules) : r.on} \cap some
    BY PartOfEnabled
  <2> HIDE DEF rules
  <2>3. i \in DOMAIN rules /\ v \in SingBoxRule(rules[i], ctx).native
    BY <2>1
  <2>4. rules[i] \in Range(rules)
    BY <2>3 DEF Range
  <2>5. rules[i] \in Range(routing.rules) /\ rules[i].on
    BY <2>2, <2>4
  <2>6. v \in Translated(rules[i]) /\ NamesRuleSet(rules[i], v)
    BY <2>3 DEF SingBoxRule
  <2>7. v \in rules[i].values /\ Geo(v)
    BY <2>6 DEF Translated, NamesRuleSet, Geo
  <2>8. PICK j \in DOMAIN routing.rules : routing.rules[j] = rules[i]
    BY <2>5 DEF Range
  <2>9. routing.rules[j].on /\ v \in routing.rules[j].values
    BY <2>5, <2>7, <2>8
  <2> HIDE DEF some
  <2> QED
    BY <2>7, <2>9 DEF Required
<1> QED
  BY <1>1, <1>2

\* And that of a DNS profile, of a custom one the first domain of a server.
LEMMA DnsIsRequired ==
  ASSUME NEW routing, NEW dns, dns.mode \in {"system", "secure", "china", "custom"},
         dns.servers \in Seq(DnsServers), NEW ctx, NEW v \in SingBoxDns(dns, ctx).native
  PROVE TagOf[v] \in Required(routing, dns)
<1>1. CASE dns.on /\ dns.mode = "custom"
  <2> DEFINE usable == {s \in Range(dns.servers) : Usable(s)}
             servers == Servers(dns)
  <2>1. /\ servers \in Seq(DnsServers)
        /\ Range(servers) = Range(dns.servers) \cap usable
    BY KeptItems DEF Servers
  <2>2. SingBoxDns(dns, ctx).native =
          {servers[j].domains[1] : j \in {k \in DOMAIN servers : /\ servers[k].domains # <<>>
                                                                /\ Geo(servers[k].domains[1])}}
    BY <1>1 DEF SingBoxDns
  <2> HIDE DEF servers
  <2>3. PICK j \in DOMAIN servers : /\ servers[j].domains # <<>>
                                   /\ Geo(servers[j].domains[1])
                                   /\ v = servers[j].domains[1]
    BY <2>2
  <2>4. servers[j] \in DnsServers /\ servers[j] \in Range(dns.servers) /\ servers[j].on
    <3>1. servers[j] \in Range(servers)
      BY DEF Range
    <3>2. servers[j] \in usable
      BY <2>1, <3>1
    <3> QED
      BY <2>1, <3>1, <3>2 DEF Usable
  <2>5. servers[j].domains \in Seq(DOMAIN Hits)
    BY <2>4 DEF DnsServers
  <2>6. 1 \in DOMAIN servers[j].domains
    BY <2>3, <2>5
  <2>7. PICK k \in DOMAIN dns.servers : dns.servers[k] = servers[j]
    BY <2>4 DEF Range
  <2>8. dns.servers[k].on /\ 1 \in DOMAIN dns.servers[k].domains /\ v = dns.servers[k].domains[1]
    BY <2>3, <2>4, <2>6, <2>7
  <2> QED
    BY <2>3, <2>8 DEF Required
<1>2. CASE ~(dns.on /\ dns.mode = "custom")
  <2>1. CASE dns.mode # "custom"
    <3>1. dns.mode = "china" /\ v \in China
      BY <2>1, DnsRefersToLocal
    <3> QED
      BY <3>1, ChinaIsRequired
  <2>2. CASE ~dns.on
    BY <2>2 DEF SingBoxDns
  <2> QED
    BY <1>2, <2>1, <2>2
<1> QED
  BY <1>1, <1>2

\* The hijack names no geo data.
LEMMA HijackNamesNothing ==
  ASSUME NEW n \in Nat, NEW rules, rules \in Seq(Range(rules)), DOMAIN rules = 1 .. n,
         NEW hijack \in BOOLEAN, NEW i \in DOMAIN (HijackRules(hijack) \o rules)
  PROVE \/ (HijackRules(hijack) \o rules)[i].native = {}
        \/ \E j \in DOMAIN rules : (HijackRules(hijack) \o rules)[i] = rules[j]
<1> DEFINE first == [matches |-> DnsFlows, outbound |-> "hijack", ruleSets |-> {}, native |-> {}]
<1>1. CASE ~hijack
  <2>1. HijackRules(hijack) \o rules = rules
    BY <1>1 DEF HijackRules
  <2> QED
    BY <2>1
<1>2. CASE hijack
  <2>1. first.native = {}
    OBVIOUS
  <2> HIDE DEF first
  <2>2. /\ DOMAIN (HijackRules(hijack) \o rules) = 1 .. n + 1
        /\ (HijackRules(hijack) \o rules)[1] = first
        /\ \A j \in 1 .. n : (HijackRules(hijack) \o rules)[j + 1] = rules[j]
    BY <1>2 DEF HijackRules, first
  <2>3. CASE i = 1
    BY <2>1, <2>2, <2>3
  <2>4. CASE i # 1
    <3>1. i - 1 \in 1 .. n /\ (i - 1) + 1 = i
      BY <2>2, <2>4
    <3> QED
      BY <2>2, <3>1
  <2> QED
    BY <2>3, <2>4
<1> QED
  BY <1>1, <1>2

\* What a configuration declares and misses comes from its rules.
LEMMA SingBoxConfigParts ==
  ASSUME NEW server, NEW routing, NEW dns, NEW hijack, NEW ctx
  PROVE LET config == SingBoxConfig(server, routing, dns, hijack, ctx)
            route == SingBoxRules(routing, ctx)
        IN /\ config.route = HijackRules(hijack) \o route
           /\ config.dns = SingBoxDns(dns, ctx)
           /\ \A t \in config.declared :
                t \in SingBoxDns(dns, ctx).ruleSets
                \/ \E i \in DOMAIN route : t \in route[i].ruleSets
           /\ ctx.strict => \A i \in DOMAIN route : \A v \in route[i].native :
                              TagOf[v] \in config.missing
<1> DEFINE config == SingBoxConfig(server, routing, dns, hijack, ctx)
           route == SingBoxRules(routing, ctx)
           part == SingBoxDns(dns, ctx)
<1> DEFINE routeSets == UNION {route[i].ruleSets : i \in DOMAIN route}
<1>1. config.route = HijackRules(hijack) \o route /\ config.dns = part /\ config.declared = routeSets \cup part.ruleSets
  <2> DEFINE missing == IF ctx.strict
                        THEN {TagOf[v] : v \in UNION {route[i].native : i \in DOMAIN route}} ELSE {}
             all == HijackRules(hijack) \o route
  <2>1. config = [outbound |-> SingBoxOutbound(server), route |-> all, dns |-> part,
                  declared |-> routeSets \cup part.ruleSets, missing |-> missing]
    BY DEF SingBoxConfig
  <2>2. all = HijackRules(hijack) \o route
    OBVIOUS
  <2> HIDE DEF config, route, part, routeSets, missing, all
  <2> QED
    BY <2>1, <2>2
<1>5. \A t \in routeSets : \E i \in DOMAIN route : t \in route[i].ruleSets
  <2> HIDE DEF route
  <2> QED
    OBVIOUS
<1>2. ctx.strict =>
        config.missing = {TagOf[v] : v \in UNION {route[i].native : i \in DOMAIN route}}
  BY DEF SingBoxConfig
<1> HIDE DEF config, route, part, routeSets
<1>3. \A t \in config.declared : t \in part.ruleSets \/ \E i \in DOMAIN route : t \in route[i].ruleSets
  BY <1>1, <1>5
<1>4. ctx.strict => \A i \in DOMAIN route : \A v \in route[i].native : TagOf[v] \in config.missing
  BY <1>2
<1> QED
  BY <1>1, <1>3, <1>4 DEF config, route, part

\* Whatever a configuration names the detector has found.
LEMMA NamedIsRequired ==
  ASSUME NEW server, NEW routing, routing.rules \in Seq(Rules), NEW dns,
         dns.mode \in {"system", "secure", "china", "custom"}, dns.servers \in Seq(DnsServers),
         NEW hijack \in BOOLEAN, NEW ctx, ctx.local \subseteq Required(routing, dns)
  PROVE TagsNamed(SingBoxConfig(server, routing, dns, hijack, ctx)) \subseteq Required(routing, dns)
<1> DEFINE config == SingBoxConfig(server, routing, dns, hijack, ctx)
           rules == SingBoxRules(routing, ctx)
           all == HijackRules(hijack) \o rules
<1>1. /\ config.route = all
      /\ config.dns = SingBoxDns(dns, ctx)
      /\ \A t \in config.declared :
           t \in SingBoxDns(dns, ctx).ruleSets \/ \E i \in DOMAIN rules : t \in rules[i].ruleSets
  BY SingBoxConfigParts
<1>2. rules \in Seq(Range(rules)) /\ Len(rules) \in Nat /\ DOMAIN rules = 1 .. Len(rules)
  BY SingBoxRulesAreList
<1>3. /\ SingBoxDns(dns, ctx).ruleSets \subseteq ctx.local
      /\ \A i \in DOMAIN rules : rules[i].ruleSets \subseteq ctx.local
  BY DnsRefersToLocal, RouteRefersToLocal
<1>4. \A i \in DOMAIN rules : \A v \in rules[i].native : TagOf[v] \in Required(routing, dns)
  BY RulesAreRequired
<1>5. \A v \in SingBoxDns(dns, ctx).native : TagOf[v] \in Required(routing, dns)
  BY DnsIsRequired
<1> HIDE DEF rules
<1>6. \A i \in DOMAIN all : all[i].native = {} \/ \E j \in DOMAIN rules : all[i] = rules[j]
  BY <1>2, HijackNamesNothing
<1> HIDE DEF config, all
<1>7. config.declared \subseteq Required(routing, dns)
  BY <1>1, <1>3
<1>8. \A i \in DOMAIN all : \A v \in all[i].native : TagOf[v] \in Required(routing, dns)
  BY <1>4, <1>6
<1>9. TagsNamed(config) \subseteq Required(routing, dns)
  BY <1>1, <1>5, <1>7, <1>8 DEF TagsNamed
<1> QED
  BY <1>9 DEF config

LEMMA StrictInit == EngineInit => StrictInv
  BY DEF EngineInit, StrictInv, StrictIsLocal, Started

LEMMA StrictStep == StrictInv /\ [EngineNext]_vars => StrictInv'
<1> SUFFICES ASSUME StrictInv, [EngineNext]_vars PROVE StrictInv'
  OBVIOUS
<1>1. ASSUME last' = last, Fault PROVE StrictInv'
  <2>1. faults' \in Nat /\ faults' # 0
    BY <1>1 DEF Fault, StrictInv
  <2> QED
    BY <1>1, <2>1 DEF StrictInv, StrictIsLocal, Started, TagsNamed
<1>2. ASSUME last' = last, faults' = faults, items' = Reloaded(files'), files \subseteq files'
      PROVE StrictInv'
  BY <1>2 DEF StrictInv, StrictIsLocal, Started, TagsNamed
<1>3. ASSUME UNCHANGED <<files, items, faults>>, StrictIsLocal' PROVE StrictInv'
  BY <1>3 DEF StrictInv
<1>4. ASSUME NEW c \in StartChoices, StartTun(c) PROVE StrictInv'
  <2> DEFINE ctx == Context(c.routing, c.dns, c.strict)
             route == SingBoxRules(c.routing, ctx)
             dns == SingBoxDns(c.dns, ctx)
             shown == SingBoxConfig(c.server, c.routing, c.dns, c.hijack, ctx)
             config == SingBoxConfig(c.server, c.routing, c.dns, c.hijack, BackendContext)
  <2>0. UNCHANGED <<files, items, faults>>
    BY <1>4 DEF StartTun, Preview
  <2>1. CASE TunRefuses(c, ctx, shown)
    <3>1. last' = Refused("tun", c)
      BY <1>4, <2>1 DEF StartTun, Preview
    <3> QED
      BY <1>3, <2>0, <3>1 DEF Refused, StrictIsLocal, Started
  <2>2. CASE ~TunRefuses(c, ctx, shown)
    <3>1. last' = [engine |-> "tun", choice |-> c, verdict |-> "started", shown |-> shown,
                   config |-> config]
      BY <1>4, <2>2 DEF StartTun, Preview
    <3>2. /\ c.strict => Required(c.routing, c.dns) \subseteq ctx.local
          /\ shown.missing = {}
      BY <2>2 DEF TunRefuses
    <3>3. /\ shown.route = HijackRules(c.hijack) \o route
          /\ shown.dns = dns
          /\ ctx.strict => \A i \in DOMAIN route : \A v \in route[i].native :
                             TagOf[v] \in shown.missing
      BY SingBoxConfigParts
    <3>4. ctx.strict = c.strict
      BY DEF Context
    <3>5. /\ ctx.local \subseteq Required(c.routing, c.dns)
          /\ ctx.local \subseteq {t \in ctx.local : Available(t)}
          /\ BackendContext.local \subseteq Required(c.routing, c.dns)
      BY DEF Context, BackendContext
    <3>13. /\ c.dns.mode \in {"system", "secure", "china", "custom"}
           /\ c.dns.servers \in Seq(DnsServers)
           /\ c.routing.rules \in Seq(Rules)
           /\ c.hijack \in BOOLEAN
      BY ChoicesAssumption
    <3>6. /\ TagsNamed(shown) \subseteq Required(c.routing, c.dns)
          /\ TagsNamed(config) \subseteq Required(c.routing, c.dns)
      BY <3>5, <3>13, NamedIsRequired
    <3>7. ASSUME faults = 0, c.strict PROVE TagsNamed(shown) \cup TagsNamed(config) \subseteq files
      <4>1. ASSUME NEW t \in ctx.local PROVE t \in files
        <5>1. Available(t)
          BY <3>5
        <5>2. items = Reloaded(files)
          BY <3>7 DEF StrictInv
        <5> QED
          BY <5>1, <5>2, ReloadedKnows DEF Available
      <4> QED
        BY <3>2, <3>6, <3>7, <4>1
    <3>8. /\ route \in Seq(Range(route)) /\ Len(route) \in Nat
          /\ DOMAIN route = 1 .. Len(route)
      BY <3>13, SingBoxRulesAreList
    <3>9. ASSUME c.strict, NEW i \in DOMAIN shown.route PROVE shown.route[i].native = {}
      <4> HIDE DEF route
      <4>1. \A j \in DOMAIN route : route[j].native = {}
        BY <3>2, <3>3, <3>4, <3>9
      <4>2. i \in DOMAIN (HijackRules(c.hijack) \o route)
        BY <3>3, <3>9
      <4>3. \/ (HijackRules(c.hijack) \o route)[i].native = {}
            \/ \E j \in DOMAIN route : (HijackRules(c.hijack) \o route)[i] = route[j]
        BY <3>8, <3>13, <4>2, HijackNamesNothing
      <4> QED
        BY <3>3, <4>1, <4>3
    <3>10. ASSUME c.strict, c.dns.mode # "custom" PROVE dns.native = {}
      <4> SUFFICES ASSUME NEW v \in dns.native PROVE FALSE
        OBVIOUS
      <4>1. c.dns.mode = "china" /\ v \in China /\ TagOf[v] \notin ctx.local
        <5>1. c.dns.mode # "custom"
          BY <3>10
        <5> QED
          BY <5>1, <3>13, DnsRefersToLocal
      <4> QED
        BY <3>2, <3>10, <4>1, ChinaIsRequired
    <3> HIDE DEF shown, config, ctx, route, dns
    <3>11. /\ last'.shown = shown /\ last'.choice = c /\ last'.config = config
      BY <3>1
    <3>12. StrictIsLocal'
      BY <2>0, <3>3, <3>7, <3>9, <3>10, <3>11 DEF StrictIsLocal, Started
    <3> QED
      BY <1>3, <2>0, <3>12
  <2> QED
    BY <2>1, <2>2
<1>5. ASSUME NEW c \in StartChoices, StartXray(c) PROVE StrictInv'
  <2>1. last'.engine = "xray" /\ UNCHANGED <<files, items, faults>>
    BY <1>5 DEF StartXray, Refused
  <2> QED
    BY <1>3, <2>1 DEF StrictIsLocal, Started
<1>6. CASE Stop \/ \E c \in StartChoices : CancelTun(c) \/ CancelXray(c)
  BY <1>3, <1>6 DEF Stop, CancelTun, CancelXray, Refused, StrictIsLocal, Started
<1>7. CASE UNCHANGED vars
  BY <1>3, <1>7 DEF vars, StrictInv, StrictIsLocal, Started, TagsNamed
<1>8. ASSUME NEW t \in Catalog, ImportSrs(t) \/ CompileJson(t) PROVE StrictInv'
  BY <1>2, <1>8 DEF ImportSrs, CompileJson
<1>9. ASSUME NEW t \in Catalog, ImportSrsFails(t) \/ CompileJsonFails(t) PROVE StrictInv'
  BY <1>1, <1>9 DEF ImportSrsFails, CompileJsonFails
<1>10. ASSUME NEW t \in Tags, ChangeByHand(t) PROVE StrictInv'
  BY <1>1, <1>10 DEF ChangeByHand
<1>11. CASE CheckStatus
  BY <1>2, <1>11 DEF CheckStatus
<1> QED
  BY <1>4, <1>5, <1>6, <1>7, <1>8, <1>9, <1>10, <1>11 DEF EngineNext

\* In strict mode the confirmed configuration takes no route from native geo data, and, while
\* nothing failed, every geo tag that it or the started one names has its rule set on the disk
\* (AppController::confirmRuleSetsIfNeeded, RuleSetManager::buildContext,
\* SingBoxTunRuntimeBackend::buildTunConfig).
THEOREM StrictStartsAreLocal == EngineSpec => []StrictIsLocal
<1>1. StrictInv => StrictIsLocal
  BY DEF StrictInv
<1> QED
  BY <1>1, StrictInit, StrictStep, PTL DEF EngineSpec

-----------------------------------------------------------------------------
(* Backups: the lists *)

\* What the operators on lists give: lists of the same records.
LEMMA ListTypes ==
  ASSUME NEW l \in Kinds, NEW list \in Seq(Records)
  PROVE /\ WithBuiltIns(l, list) \in Seq(Records)
        /\ Ids(WithBuiltIns(l, list)) = Ids(list) \cup Ids(BuiltIns[l])
        /\ \A old \in Range(list) : old \in Range(WithBuiltIns(l, list))
<1> DEFINE missing == {item \in Range(BuiltIns[l]) : item.id \notin Ids(list)}
           added == Kept(BuiltIns[l], missing)
<1>1. BuiltIns[l] \in Seq(Records)
  <2>1. BuiltIns[l] \in Seq(Items[l]) /\ Items[l] \subseteq Records
    BY ListsAssumption DEF Kinds, Records
  <2> QED
    BY <2>1, SeqMonotonic
<1>2. added \in Seq(Records) /\ Range(added) = Range(BuiltIns[l]) \cap missing
  BY <1>1, KeptItems
<1>3. WithBuiltIns(l, list) = list \o added
  BY DEF WithBuiltIns
<1>4. Range(added) = missing
  BY <1>2
<1> HIDE DEF added
<1>5. list \o added \in Seq(Records) /\ Range(list \o added) = Range(list) \cup Range(added)
  BY <1>2, RangeConcatenation
<1>6. Ids(list \o added) = Ids(list) \cup {item.id : item \in missing}
  BY <1>4, <1>5 DEF Ids
<1>7. Ids(list) \cup {item.id : item \in missing} = Ids(list) \cup Ids(BuiltIns[l])
  BY DEF Ids
<1> QED
  BY <1>3, <1>5, <1>6, <1>7

\* The built-in profiles are added once.
LEMMA BuiltInsAddedOnce ==
  ASSUME NEW l \in Kinds, NEW list \in Seq(Records)
  PROVE WithBuiltIns(l, WithBuiltIns(l, list)) = WithBuiltIns(l, list)
<1> DEFINE whole == WithBuiltIns(l, list)
           missing == {item \in Range(BuiltIns[l]) : item.id \notin Ids(whole)}
           added == Kept(BuiltIns[l], missing)
<1>1. whole \in Seq(Records) /\ Ids(BuiltIns[l]) \subseteq Ids(whole)
  BY ListTypes
<1>2. WithBuiltIns(l, whole) = whole \o added
  BY DEF WithBuiltIns
<1> HIDE DEF whole
<1>3. missing = {}
  BY <1>1 DEF Ids
<1>4. BuiltIns[l] \in Seq(Items[l])
  BY ListsAssumption DEF Kinds
<1>5. added \in Seq(Items[l] \cap {})
  BY <1>3, <1>4, KeptInOrder
<1>6. added = <<>>
  <2> HIDE DEF added
  <2>1. Items[l] \cap {} = {}
    OBVIOUS
  <2>2. added \in Seq({})
    BY <1>5, <2>1
  <2> QED
    BY <2>2
<1>7. whole \o <<>> = whole
  BY <1>1
<1> HIDE DEF added
<1> QED
  BY <1>2, <1>6, <1>7 DEF whole

LEMMA UpsertedType ==
  ASSUME NEW list \in Seq(Records), NEW item \in Records
  PROVE /\ Upserted(list, item) \in Seq(Records)
        /\ Ids(list) \subseteq Ids(Upserted(list, item))
<1>1. CASE item.id \in Ids(list)
  <2> DEFINE new == [i \in DOMAIN list |-> IF list[i].id = item.id THEN item ELSE list[i]]
  <2>1. Upserted(list, item) = new
    BY <1>1 DEF Upserted
  <2>2. new \in Seq(Records)
    <3>1. DOMAIN list = 1 .. Len(list) /\ Len(list) \in Nat
      OBVIOUS
    <3>2. new \in [1 .. Len(list) -> Records]
      BY <3>1
    <3> QED
      BY <3>1, <3>2
  <2>3. \A i \in DOMAIN list : i \in DOMAIN new /\ new[i].id = list[i].id
    OBVIOUS
  <2> HIDE DEF new
  <2>4. Ids(list) \subseteq Ids(new)
    BY <2>3 DEF Ids, Range
  <2> QED
    BY <2>1, <2>2, <2>4
<1>2. CASE item.id \notin Ids(list)
  <2>1. Upserted(list, item) = Append(list, item)
    BY <1>2 DEF Upserted
  <2>2. Append(list, item) \in Seq(Records)
    OBVIOUS
  <2>3. \A i \in DOMAIN list : i \in DOMAIN Append(list, item) /\ Append(list, item)[i] = list[i]
    OBVIOUS
  <2>4. Range(list) \subseteq Range(Append(list, item))
    BY <2>3 DEF Range
  <2> QED
    BY <2>1, <2>2, <2>4 DEF Ids
<1> QED
  BY <1>1, <1>2

\* An item is put into the place of one with its id, or, of a subscription, with its URL.
LEMMA PlaceFits ==
  ASSUME NEW l, NEW list \in Seq(Records), NEW item
  PROVE /\ Place(l, list, item) \in 0 .. Len(list)
        /\ Place(l, list, item) # 0 =>
             LET old == list[Place(l, list, item)]
             IN item.id = old.id \/ (l = "subscriptions" /\ item.body = old.body)
<1> DEFINE byId == {i \in DOMAIN list : list[i].id = item.id}
           byUrl == {i \in DOMAIN list : list[i].body = item.body}
           at == IF byId # {} \/ l # "subscriptions" THEN byId ELSE byUrl
<1>1. Place(l, list, item) = LastOf(at)
  BY DEF Place
<1>2. at \in SUBSET (1 .. Len(list)) /\ Len(list) \in Nat
  OBVIOUS
<1>3. \A i \in at : item.id = list[i].id \/ (l = "subscriptions" /\ item.body = list[i].body)
  OBVIOUS
<1> HIDE DEF at
<1>4. /\ LastOf(at) \in 0 .. Len(list)
      /\ at # {} => LastOf(at) \in at
      /\ at = {} => LastOf(at) = 0
  BY <1>2, LastIsOne
<1> QED
  BY <1>1, <1>3, <1>4

\* A merge keeps every item of the list, or puts one into its place.
LEMMA MergedKeeps ==
  ASSUME NEW l, NEW list \in Seq(Records), NEW imported \in Seq(Records)
  PROVE /\ Merged(l, list, imported) \in Seq(Records)
        /\ \A old \in Range(list) : \E item \in Range(Merged(l, list, imported)) :
             item.id = old.id \/ (l = "subscriptions" /\ item.body = old.body)
<1> DEFINE taken == Kept(imported, {item \in Range(imported) : ~item.builtIn})
           At(i) == {k \in DOMAIN taken : Place(l, list, taken[k]) = i}
           kept == [i \in DOMAIN list |-> IF At(i) = {} THEN list[i] ELSE taken[LastOf(At(i))]]
           new == Kept(taken, {item \in Range(taken) : Place(l, list, item) = 0})
<1>1. Merged(l, list, imported) = kept \o new
  BY DEF Merged
<1>2. taken \in Seq(Records)
  BY KeptItems
<1> HIDE DEF taken
<1>3. new \in Seq(Records)
  BY <1>2, KeptItems
<1>4. ASSUME NEW i \in DOMAIN list
      PROVE /\ kept[i] \in Records
            /\ kept[i].id = list[i].id \/ (l = "subscriptions" /\ kept[i].body = list[i].body)
  <2>1. CASE At(i) = {}
    BY <2>1
  <2>2. CASE At(i) # {}
    <3>1. At(i) \in SUBSET (1 .. Len(taken)) /\ Len(taken) \in Nat
      BY <1>2
    <3>2. LastOf(At(i)) \in At(i)
      BY <2>2, <3>1, LastIsOne
    <3> DEFINE k == LastOf(At(i))
    <3>3. k \in DOMAIN taken /\ Place(l, list, taken[k]) = i
      BY <3>2
    <3>4. kept[i] = taken[k]
      BY <2>2
    <3>5. taken[k] \in Records
      BY <1>2, <3>3
    <3>6. i # 0
      OBVIOUS
    <3> HIDE DEF k, kept
    <3> QED
      BY <3>3, <3>4, <3>5, <3>6, PlaceFits
  <2> QED
    BY <2>1, <2>2
<1>5. DOMAIN kept = 1 .. Len(list) /\ Len(list) \in Nat /\ DOMAIN list = 1 .. Len(list)
  OBVIOUS
<1> HIDE DEF new
<1>6. kept \in [1 .. Len(list) -> Records]
  BY <1>4, <1>5
<1> HIDE DEF kept
<1>7. kept \in Seq(Records) /\ DOMAIN kept = DOMAIN list
  BY <1>5, <1>6
<1>8. kept \o new \in Seq(Records) /\ Range(kept) \subseteq Range(kept \o new)
  BY <1>3, <1>7, RangeConcatenation
<1>9. \A old \in Range(list) : \E item \in Range(kept) :
        item.id = old.id \/ (l = "subscriptions" /\ item.body = old.body)
  BY <1>4, <1>7 DEF Range
<1> QED
  BY <1>1, <1>8, <1>9

-----------------------------------------------------------------------------
(* Backups: types *)

ListFile == [form : {"absent", "damaged", "array", "object"}, items : Seq(Records)]
RecordIds == {item.id : item \in Records}

LEMMA FileTypes ==
  /\ \A file \in ListFile : Load(file) \in Seq(Records)
  /\ \A list \in Seq(Records) : /\ SavedList(list) \in ListFile
                                /\ Load(SavedList(list)) = list
<1>1. ASSUME NEW file \in ListFile PROVE Load(file) \in Seq(Records)
  BY DEF Load, ListFile
<1>2. ASSUME NEW list \in Seq(Records)
      PROVE SavedList(list) \in ListFile /\ Load(SavedList(list)) = list
  BY DEF SavedList, ListFile, Load
<1> QED
  BY <1>1, <1>2

LEMMA DiskParts ==
  ASSUME NEW d \in Disks
  PROVE /\ d.lists \in [Kinds -> ListFile]
        /\ d.settings.selected \in Selections
        /\ d.settings.keys \in [Keys -> Optional]
        /\ d.settings \in Settings
        /\ d.rulesets \in Optional
        /\ d.files \in Optional
  BY DEF Disks, Settings, ListFiles, ListFile

LEMMA DiskOfParts ==
  ASSUME NEW lists \in [Kinds -> ListFile], NEW settings \in Settings, NEW rulesets \in Optional,
         NEW extras \in Optional
  PROVE [lists |-> lists, settings |-> settings, rulesets |-> rulesets, files |-> extras] \in Disks
  BY DEF Disks, ListFiles, ListFile

\* One part of the data directory is changed.
LEMMA DiskWithLists ==
  ASSUME NEW d \in Disks, NEW lists \in [Kinds -> ListFile]
  PROVE /\ [d EXCEPT !.lists = lists] \in Disks
        /\ [d EXCEPT !.lists = lists].lists = lists
        /\ [d EXCEPT !.lists = lists].settings = d.settings
        /\ [d EXCEPT !.lists = lists].rulesets = d.rulesets
  BY DEF Disks, ListFiles, ListFile

LEMMA DiskWithList ==
  ASSUME NEW d \in Disks, NEW l \in Kinds, NEW file \in ListFile
  PROVE /\ [d EXCEPT !.lists[l] = file] \in Disks
        /\ [d EXCEPT !.lists[l] = file].lists = [d.lists EXCEPT ![l] = file]
        /\ [d EXCEPT !.lists[l] = file].settings = d.settings
        /\ [d EXCEPT !.lists[l] = file].rulesets = d.rulesets
<1>1. [d.lists EXCEPT ![l] = file] \in [Kinds -> ListFile]
  BY DiskParts
<1>2. [d EXCEPT !.lists[l] = file] = [d EXCEPT !.lists = [d.lists EXCEPT ![l] = file]]
  BY DEF Disks
<1> QED
  BY <1>1, <1>2, DiskWithLists

LEMMA DiskWithSettings ==
  ASSUME NEW d \in Disks, NEW settings \in Settings
  PROVE /\ [d EXCEPT !.settings = settings] \in Disks
        /\ [d EXCEPT !.settings = settings].settings = settings
        /\ [d EXCEPT !.settings = settings].lists = d.lists
        /\ [d EXCEPT !.settings = settings].rulesets = d.rulesets
  BY DEF Disks

LEMMA DiskWithSelected ==
  ASSUME NEW d \in Disks, NEW l \in Managed, NEW id \in RecordIds
  PROVE [d EXCEPT !.settings.selected[l] = id] \in Disks
<1> DEFINE selected == [d.settings.selected EXCEPT ![l] = id]
<1>1. selected \in Selections
  BY DiskParts DEF Selections, RecordIds
<1>2. [d.settings EXCEPT !.selected = selected] \in Settings
  BY <1>1, DiskParts DEF Settings
<1>3. [d EXCEPT !.settings.selected[l] = id] = [d EXCEPT !.settings = [d.settings EXCEPT !.selected = selected]]
  BY DEF Disks, Settings
<1> QED
  BY <1>2, <1>3, DiskWithSettings

LEMMA IdsOfRecords ==
  ASSUME NEW list \in Seq(Records)
  PROVE Ids(list) \subseteq RecordIds
<1>1. \A i \in DOMAIN list : list[i] \in Records
  OBVIOUS
<1> QED
  BY <1>1 DEF Ids, Range, RecordIds

LEMMA ManagedKinds ==
  ASSUME NEW l \in Managed
  PROVE /\ l \in Kinds
        /\ BuiltIns[l] \in Seq(Items[l])
        /\ Head(BuiltIns[l]).id \in Ids(BuiltIns[l])
<1>1. l \in Kinds /\ BuiltIns[l] # <<>>
  BY DEF Managed
<1>2. BuiltIns[l] \in Seq(Items[l])
  BY <1>1, ListsAssumption DEF Kinds
<1>3. 1 \in DOMAIN BuiltIns[l] /\ Head(BuiltIns[l]) = BuiltIns[l][1]
  BY <1>1, <1>2
<1> QED
  BY <1>1, <1>2, <1>3 DEF Ids, Range

\* After a start and an import every list has its built-in profiles, and an active one.
LEMMA LoadAllGives ==
  ASSUME NEW d \in Disks, LoadAll(d)
  PROVE /\ mem' \in [Kinds -> Seq(Records)]
        /\ active' \in Selections
        /\ disk' \in Disks
        /\ \A l \in Kinds : mem'[l] = WithBuiltIns(l, Load(d.lists[l]))
        /\ \A l \in Managed : /\ active'[l] \in Ids(mem'[l])
                              /\ Ids(BuiltIns[l]) \subseteq Ids(mem'[l])
        /\ \A l \in Managed : active'[l] = Resolved(l, mem'[l], d.settings.selected[l])
        /\ disk'.settings = [d.settings EXCEPT !.selected = active']
        /\ disk'.rulesets = d.rulesets
<1> DEFINE lists == [l \in Kinds |-> WithBuiltIns(l, Load(d.lists[l]))]
           chosen == [l \in Managed |-> Resolved(l, lists[l], d.settings.selected[l])]
           written == [l \in Kinds |-> IF l \in Managed /\ d.lists[l].form = "absent"
                                       THEN SavedList(lists[l]) ELSE d.lists[l]]
<1>1. /\ mem' = lists
      /\ active' = chosen
      /\ disk' = [d EXCEPT !.settings.selected = chosen, !.lists = written]
  BY DEF LoadAll
<1>2. ASSUME NEW l \in Kinds
      PROVE /\ lists[l] \in Seq(Records)
            /\ Ids(BuiltIns[l]) \subseteq Ids(lists[l])
            /\ lists[l] = WithBuiltIns(l, Load(d.lists[l]))
  <2>1. Load(d.lists[l]) \in Seq(Records)
    <3>1. d.lists[l] \in ListFile
      BY DiskParts
    <3> QED
      BY <3>1, FileTypes
  <2> QED
    BY <2>1, ListTypes
<1>3. lists \in [Kinds -> Seq(Records)]
  BY <1>2
<1>4. ASSUME NEW l \in Managed
      PROVE /\ chosen[l] \in Ids(lists[l]) /\ chosen[l] \in RecordIds
            /\ chosen[l] = Resolved(l, lists[l], d.settings.selected[l])
  <2>1. l \in Kinds /\ Head(BuiltIns[l]).id \in Ids(BuiltIns[l])
    BY ManagedKinds
  <2>2. Ids(BuiltIns[l]) \subseteq Ids(lists[l]) /\ lists[l] \in Seq(Records)
    BY <1>2, <2>1
  <2>3. chosen[l] = Resolved(l, lists[l], d.settings.selected[l])
    OBVIOUS
  <2> HIDE DEF lists, chosen
  <2>4. chosen[l] \in Ids(lists[l])
    BY <2>1, <2>2, <2>3 DEF Resolved
  <2> QED
    BY <2>2, <2>3, <2>4, IdsOfRecords
<1>5. written \in [Kinds -> ListFile]
  <2>1. ASSUME NEW l \in Kinds PROVE SavedList(lists[l]) \in ListFile /\ d.lists[l] \in ListFile
    BY <1>2, FileTypes, DiskParts
  <2> HIDE DEF lists
  <2> QED
    BY <2>1
<1>6. chosen \in Selections
  <2>1. \A l \in Managed : chosen[l] \in RecordIds
    BY <1>4
  <2>2. chosen = [l \in Managed |-> chosen[l]]
    OBVIOUS
  <2> HIDE DEF chosen
  <2> QED
    BY <2>1, <2>2 DEF Selections, RecordIds
<1> HIDE DEF written, chosen, lists
<1> DEFINE settings == [d.settings EXCEPT !.selected = chosen]
<1>7. settings \in Settings
  BY <1>6, DiskParts DEF Settings
<1>8. disk' = [[d EXCEPT !.settings = settings] EXCEPT !.lists = written]
  BY <1>1 DEF Disks, Settings
<1> HIDE DEF settings
<1>9. /\ [d EXCEPT !.settings = settings] \in Disks
      /\ [d EXCEPT !.settings = settings].settings = settings
      /\ [d EXCEPT !.settings = settings].rulesets = d.rulesets
  BY <1>7, DiskWithSettings
<1>10. disk' \in Disks /\ disk'.settings = settings /\ disk'.rulesets = d.rulesets
  BY <1>5, <1>8, <1>9, DiskWithLists
<1> QED
  BY <1>1, <1>2, <1>3, <1>4, <1>6, <1>10, ManagedKinds DEF settings

LEMMA StagedType ==
  ASSUME NEW d \in Disks, NEW withFiles \in BOOLEAN
  PROVE /\ Staged(d, withFiles) \in Backups
        /\ [backup |-> Staged(d, withFiles), from |-> d] \in Made
<1> DEFINE lists == [l \in Kinds |-> IF d.lists[l].form = "absent"
                                     THEN [form |-> "array", items |-> <<>>] ELSE d.lists[l]]
<1>1. lists \in [Kinds -> ListFile]
  <2>1. \A l \in Kinds : d.lists[l] \in ListFile
    BY DiskParts
  <2>2. [form |-> "array", items |-> <<>>] \in ListFile
    BY DEF ListFile
  <2> QED
    BY <2>1, <2>2
<1> DEFINE keys == [key \in Keys |-> IF key \in NotExported THEN Absent ELSE d.settings.keys[key]]
           settings == [d.settings EXCEPT !.keys = keys]
           geo == IF d.settings.keys["geo"] = Absent THEN Default ELSE d.settings.keys["geo"]
<1>2. Staged(d, withFiles) = [layout |-> "data", lists |-> lists, settings |-> settings, geo |-> geo,
                              rulesets |-> d.rulesets, files |-> IF withFiles THEN d.files ELSE Absent]
  BY DiskParts DEF Staged, Settings
<1>3. Absent \in Optional
  BY DEF Optional
<1>4. keys \in [Keys -> Optional] /\ geo \in Values
  <2>1. d.settings.keys \in [Keys -> Optional] /\ "geo" \in Keys
    BY DiskParts DEF Keys
  <2> QED
    BY <1>3, <2>1, ListsAssumption DEF Optional
<1> HIDE DEF lists, keys, geo
<1>5. settings \in Settings
  BY <1>4, DiskParts DEF Settings
<1> HIDE DEF settings
<1>6. Staged(d, withFiles) \in Backups
  BY <1>1, <1>2, <1>3, <1>4, <1>5, DiskParts DEF Backups, ListFiles, ListFile
<1> QED
  BY <1>6 DEF Made

LEMMA BackupParts ==
  ASSUME NEW b \in Backups
  PROVE /\ b.layout \in {"data", "root"}
        /\ b.lists \in [Kinds -> ListFile]
        /\ b.settings \in Settings
        /\ b.geo \in Values
        /\ b.rulesets \in Optional
        /\ b.files \in Optional
  BY DEF Backups, ListFiles, ListFile

\* What the categories of the settings make of those there are.
WithArchiveSettings(old) ==
  [selected |-> archive.settings.selected,
   keys |-> SetKeys(import.modes.settings, old.keys, archive.settings.keys)]
WithArchiveGeo(old) == [old EXCEPT !.keys = [old.keys EXCEPT !["geo"] = archive.geo]]

LEMMA SettingsBroughtType ==
  ASSUME archive \in Backups, NEW old \in Settings
  PROVE WithArchiveSettings(old) \in Settings /\ WithArchiveGeo(old) \in Settings
<1>1. /\ old.keys \in [Keys -> Optional] /\ archive.settings.keys \in [Keys -> Optional]
      /\ archive.settings.selected \in Selections /\ archive.geo \in Optional
  BY BackupParts DEF Settings, Optional
<1>2. SetKeys(import.modes.settings, old.keys, archive.settings.keys) \in [Keys -> Optional]
  BY <1>1 DEF SetKeys
<1>3. [old.keys EXCEPT !["geo"] = archive.geo] \in [Keys -> Optional]
  BY <1>1
<1> QED
  BY <1>1, <1>2, <1>3 DEF WithArchiveSettings, WithArchiveGeo, Settings

LEMMA DiskWithKey ==
  ASSUME NEW d \in Disks, NEW key \in Keys, NEW value \in Optional
  PROVE [d EXCEPT !.settings.keys[key] = value] \in Disks
<1> DEFINE keys == [d.settings.keys EXCEPT ![key] = value]
<1>1. keys \in [Keys -> Optional]
  BY DiskParts
<1>2. [d.settings EXCEPT !.keys = keys] \in Settings
  BY <1>1, DiskParts DEF Settings
<1>3. [d EXCEPT !.settings.keys[key] = value] = [d EXCEPT !.settings = [d.settings EXCEPT !.keys = keys]]
  OBVIOUS
<1> QED
  BY <1>2, <1>3, DiskWithSettings

LEMMA DiskWithGeo ==
  ASSUME NEW d \in Disks, archive \in Backups
  PROVE /\ [d EXCEPT !.settings.keys["geo"] = archive.geo] \in Disks
        /\ [d EXCEPT !.settings.keys["geo"] = archive.geo]
             = [d EXCEPT !.settings = WithArchiveGeo(d.settings)]
<1>1. archive.geo \in Optional /\ "geo" \in Keys
  BY BackupParts DEF Optional, Keys
<1> QED
  BY <1>1, DiskWithKey DEF WithArchiveGeo

LEMMA WritesTyped == \A write \in Writes : write[1] \in Keys /\ write[2] \in Values
  BY BackupAssumption

\* An import has its archive and its pre-import backup.
BackupTypeInv ==
  /\ BackupTypeOK
  /\ window \in {"preview", "import"} => archive \in Backups
  /\ window = "import" => copy \in Made

LEMMA NoImportType == NoImport \in Imports
<1>1. NoImport.modes \in Modes
  BY DEF NoImport, Modes
<1>2. 0 \in 0 .. Len(Steps)
  BY ListsAssumption DEF Steps
<1> QED
  BY <1>1, <1>2 DEF NoImport, Imports

\* One more category is done.
LEMMA DoneType ==
  ASSUME import \in Imports, import.done < Len(Steps), NEW ok \in BOOLEAN, Done(ok)
  PROVE /\ import' \in Imports
        /\ import'.modes = import.modes
        /\ import'.done = import.done + 1
        /\ import'.ok = (import.ok /\ ok)
<1>1. Len(Steps) \in Nat
  BY ListsAssumption DEF Steps
<1>2. import.done + 1 \in 0 .. Len(Steps) /\ (import.ok /\ ok) \in BOOLEAN
  BY <1>1 DEF Imports
<1>3. import' = [import EXCEPT !.done = import.done + 1, !.ok = import.ok /\ ok]
  BY DEF Done
<1> QED
  BY <1>2, <1>3 DEF Imports

\* What an import brings is made of records.
LEMMA ImportedType ==
  ASSUME BackupTypeInv, window = "import", NEW l \in Kinds
  PROVE /\ Incoming(l) \in Seq(Records)
        /\ Imported(l) \in Seq(Records)
        /\ SavedList(Imported(l)) \in ListFile
<1>1. /\ Load(archive.lists[l]) \in Seq(Records)
      /\ Load(disk.lists[l]) \in Seq(Records)
  <2>1. archive.lists[l] \in ListFile /\ disk.lists[l] \in ListFile
    BY BackupParts, DiskParts DEF BackupTypeInv, BackupTypeOK
  <2> QED
    BY <2>1, FileTypes
<1>2. Incoming(l) \in Seq(Records)
  BY <1>1 DEF Incoming
<1>3. Imported(l) \in Seq(Records)
  BY <1>1, <1>2, ListTypes, MergedKeeps DEF Imported
<1> QED
  BY <1>2, <1>3, FileTypes

LEMMA BackupTypeInit == BackupInit => BackupTypeInv
<1> SUFFICES ASSUME BackupInit PROVE BackupTypeInv
  OBVIOUS
<1>1. disk \in Disks
  BY BackupAssumption DEF BackupInit
<1>2. mem \in [Kinds -> Seq(Records)]
  BY DEF BackupInit
<1>3. active \in Selections
  <2>1. \A l \in Managed : Head(BuiltIns[l]).id \in RecordIds
    <3> TAKE l \in Managed
    <3>1. BuiltIns[l] \in Seq(Records)
      <4>1. Items[l] \subseteq Records
        BY ManagedKinds DEF Records
      <4> QED
        BY <4>1, ManagedKinds, SeqMonotonic
    <3> QED
      BY <3>1, ManagedKinds, IdsOfRecords
  <2> QED
    BY <2>1 DEF BackupInit, Selections, RecordIds
<1>4. window = "down" /\ archive = Absent /\ import \in Imports
  BY NoImportType DEF BackupInit
<1>5. acts \in 0 .. MaxActs
  BY BackupAssumption DEF BackupInit
<1> QED
  BY <1>1, <1>2, <1>3, <1>4, <1>5 DEF BackupInit, BackupTypeInv, BackupTypeOK

LEMMA SavedUpToType ==
  ASSUME disk \in Disks, mem \in [Kinds -> Seq(Records)], NEW n \in 0 .. Len(Lists)
  PROVE [disk EXCEPT !.lists = SavedUpTo(n)] \in Disks
<1>1. SavedUpTo(n) \in [Kinds -> ListFile]
  <2>1. \A l \in Kinds : SavedList(mem[l]) \in ListFile /\ disk.lists[l] \in ListFile
    BY FileTypes, DiskParts
  <2> QED
    BY <2>1 DEF SavedUpTo
<1> QED
  BY <1>1, DiskWithLists

LEMMA MigrationsType ==
  ASSUME disk \in Disks, NEW d \in Migrations
  PROVE d \in Disks
<1>1. PICK done \in SUBSET {l \in Kinds : disk.lists[l].form = "array"} :
        d = [disk EXCEPT !.lists = [l \in Kinds |->
               IF l \in done THEN SavedList(disk.lists[l].items) ELSE disk.lists[l]]]
  BY DEF Migrations, Migratable
<1>2. \A l \in Kinds : SavedList(disk.lists[l].items) \in ListFile /\ disk.lists[l] \in ListFile
  <2> TAKE l \in Kinds
  <2>1. disk.lists[l] \in ListFile
    BY DiskParts
  <2>2. disk.lists[l].items \in Seq(Records)
    BY <2>1 DEF ListFile
  <2> QED
    BY <2>1, <2>2, FileTypes
<1>3. [l \in Kinds |-> IF l \in done THEN SavedList(disk.lists[l].items) ELSE disk.lists[l]]
        \in [Kinds -> ListFile]
  BY <1>2
<1> QED
  BY <1>1, <1>3, DiskWithLists

LEMMA BackupTypeStep == BackupTypeInv /\ [BackupNext]_backupVars => BackupTypeInv'
<1> SUFFICES ASSUME BackupTypeInv, [BackupNext]_backupVars PROVE BackupTypeInv'
  OBVIOUS
<1> USE DEF BackupTypeInv
<1>0. /\ disk \in Disks /\ mem \in [Kinds -> Seq(Records)] /\ active \in Selections
      /\ window \in {"down", "open", "preview", "import"}
      /\ import \in Imports /\ acts \in 0 .. MaxActs /\ MaxActs \in Nat
  BY BackupAssumption DEF BackupTypeOK
<1>01. acts < MaxActs /\ acts' = acts + 1 => acts' \in 0 .. MaxActs
  BY <1>0
<1>02. \A l \in Kinds : \A item \in Items[l] : item \in Records
  BY DEF Records
<1>1. ASSUME NEW l \in Kinds, NEW list \in Seq(Records), Changed(l, list)
      PROVE disk' \in Disks /\ mem' \in [Kinds -> Seq(Records)]
  <2>1. [disk EXCEPT !.lists[l] = SavedList(list)] \in Disks
    BY <1>0, FileTypes, DiskWithList
  <2> QED
    BY <1>0, <1>1, <2>1 DEF Changed
<1>2. ASSUME NEW l \in Kinds, NEW item \in Items[l], PutItem(l, item) PROVE BackupTypeInv'
  <2>1. Upserted(mem[l], item) \in Seq(Records)
    BY <1>0, <1>02, UpsertedType
  <2>2. disk' \in Disks /\ mem' \in [Kinds -> Seq(Records)]
    BY <1>1, <1>2, <2>1 DEF PutItem
  <2> QED
    BY <1>01, <1>2, <2>2 DEF PutItem, UserActs, BackupTypeOK
<1>3. ASSUME NEW l \in Kinds, NEW item \in Items[l], RemoveItem(l, item) PROVE BackupTypeInv'
  <2> DEFINE list == Kept(mem[l], {other \in Range(mem[l]) : other.id # item.id})
             id == Head(BuiltIns[l]).id
             chosen == [disk EXCEPT !.settings.selected[l] = id]
  <2>1. list \in Seq(Records)
    BY <1>0, KeptItems
  <2> HIDE DEF list
  <2>2. CASE l \in Managed /\ active[l] = item.id
    <3>1. id \in RecordIds
      <4>1. BuiltIns[l] \in Seq(Records)
        <5>1. Items[l] \subseteq Records
          BY DEF Records
        <5> QED
          BY <2>2, <5>1, ManagedKinds, SeqMonotonic
      <4> QED
        BY <2>2, <4>1, ManagedKinds, IdsOfRecords
    <3>2. chosen \in Disks /\ [active EXCEPT ![l] = id] \in Selections
      BY <1>0, <2>2, <3>1, DiskWithSelected DEF Selections, RecordIds
    <3>3. [chosen EXCEPT !.lists[l] = SavedList(list)] \in Disks
      BY <2>1, <3>2, FileTypes, DiskWithList
    <3>4. /\ active' = [active EXCEPT ![l] = id]
          /\ mem' = [mem EXCEPT ![l] = list]
          /\ disk' \in {chosen, [chosen EXCEPT !.lists[l] = SavedList(list)]}
      BY <1>3, <2>2 DEF RemoveItem, list
    <3> HIDE DEF chosen, id
    <3>5. disk' \in Disks /\ mem' \in [Kinds -> Seq(Records)] /\ active' \in Selections
      BY <1>0, <2>1, <3>2, <3>3, <3>4
    <3> QED
      BY <1>01, <1>3, <3>5 DEF RemoveItem, UserActs, BackupTypeOK
  <2>3. CASE ~(l \in Managed /\ active[l] = item.id)
    <3>1. Changed(l, list) /\ UNCHANGED active
      BY <1>3, <2>3 DEF RemoveItem, list
    <3>2. disk' \in Disks /\ mem' \in [Kinds -> Seq(Records)]
      BY <1>1, <2>1, <3>1
    <3> QED
      BY <1>01, <1>3, <3>1, <3>2 DEF RemoveItem, UserActs, BackupTypeOK
  <2> QED
    BY <2>2, <2>3
<1>4. ASSUME NEW l \in Managed, NEW id \in Ids(mem[l]), SetActive(l, id) PROVE BackupTypeInv'
  <2> DEFINE chosen == [disk EXCEPT !.settings.selected[l] = id]
  <2>1. l \in Kinds /\ mem[l] \in Seq(Records)
    BY <1>0, ManagedKinds
  <2>2. id \in RecordIds
    BY <2>1, IdsOfRecords
  <2>3. chosen \in Disks /\ [active EXCEPT ![l] = id] \in Selections
    BY <1>0, <2>2, DiskWithSelected DEF Selections, RecordIds
  <2>4. [chosen EXCEPT !.lists[l] = SavedList(mem[l])] \in Disks
    BY <2>1, <2>3, FileTypes, DiskWithList
  <2>5. disk' \in {chosen, [chosen EXCEPT !.lists[l] = SavedList(mem[l])]}
    BY <1>4 DEF SetActive
  <2> HIDE DEF chosen
  <2>6. disk' \in Disks
    BY <2>3, <2>4, <2>5
  <2> QED
    BY <1>01, <1>4, <2>3, <2>6 DEF SetActive, UserActs, BackupTypeOK
<1>5. CASE SaveAll
  BY <1>0, <1>01, <1>5, SavedUpToType DEF SaveAll, UserActs, BackupTypeOK
<1>6. CASE ExportBackup
  <2>1. PICK n \in 0 .. Len(Lists), withFiles \in BOOLEAN, archived \in BOOLEAN :
          /\ disk' = [disk EXCEPT !.lists = SavedUpTo(n)]
          /\ exported' = IF n = Len(Lists) /\ archived
                         THEN [backup |-> Staged(disk', withFiles), from |-> disk'] ELSE exported
    BY <1>6 DEF ExportBackup
  <2>2. disk' \in Disks
    BY <1>0, <2>1, SavedUpToType
  <2>3. [backup |-> Staged(disk', withFiles), from |-> disk'] \in Made
    BY <2>2, StagedType
  <2> QED
    BY <1>01, <1>6, <2>1, <2>2, <2>3 DEF ExportBackup, UserActs, BackupTypeOK
<1>7. CASE OpenImport
  <2>1. archive' \in Backups /\ source' \in Disks \cup {Absent}
    BY <1>7, BackupAssumption DEF OpenImport, BackupTypeOK, Made
  <2> QED
    BY <1>01, <1>7, <2>1 DEF OpenImport, UserActs, BackupTypeOK
<1>8. CASE CloseImport
  BY <1>8 DEF CloseImport, BackupTypeOK
<1>9. CASE BeginImport
  <2>1. copy' \in Made
    BY <1>0, <1>9, StagedType DEF BeginImport, PreImportBackup
  <2>2. import' \in Imports
    <3>1. 0 \in 0 .. Len(Steps)
      BY ListsAssumption DEF Steps
    <3> QED
      BY <1>9, <3>1 DEF BeginImport, Imports
  <2> QED
    BY <1>01, <1>9, <2>1, <2>2 DEF BeginImport, BackupTypeOK
<1>10. ASSUME NEW step, Importing(step), UNCHANGED <<mem, active, window, archive, exported, copy, source, acts>>,
              disk' \in Disks, NEW ok \in BOOLEAN, Done(ok)
       PROVE BackupTypeInv'
  <2>1. import' \in Imports
    BY <1>0, <1>10, DoneType DEF Importing
  <2> QED
    BY <1>10, <2>1 DEF BackupTypeOK
<1>11. ASSUME NEW l \in Kinds, ImportList(l) PROVE BackupTypeInv'
  <2>1. SavedList(Imported(l)) \in ListFile
    BY <1>11, ImportedType DEF ImportList, Importing
  <2>2. [disk EXCEPT !.lists[l] = SavedList(Imported(l))] \in Disks
    BY <1>0, <2>1, DiskWithList
  <2>3. disk' \in Disks /\ \E ok \in BOOLEAN : Done(ok)
    BY <1>0, <1>11, <2>2 DEF ImportList
  <2> QED
    BY <1>10, <1>11, <2>3 DEF ImportList
<1>12. CASE ImportSettings
  <2>1. archive \in Backups
    BY <1>12 DEF ImportSettings, Importing
  <2>2. WithArchiveSettings(disk.settings) \in Settings
    BY <1>0, <2>1, DiskParts, SettingsBroughtType
  <2>3. [disk EXCEPT !.settings = WithArchiveSettings(disk.settings)] \in Disks
    BY <1>0, <2>2, DiskWithSettings
  <2>4. disk' \in Disks /\ \E ok \in BOOLEAN : Done(ok)
    BY <1>0, <1>12, <2>3 DEF ImportSettings, WithArchiveSettings
  <2> QED
    BY <1>10, <1>12, <2>4 DEF ImportSettings
<1>13. CASE ImportGeoSettings
  <2>1. archive \in Backups
    BY <1>13 DEF ImportGeoSettings, Importing
  <2>2. [disk EXCEPT !.settings.keys["geo"] = archive.geo] \in Disks
    BY <1>0, <2>1, DiskWithGeo
  <2>3. disk' \in Disks /\ \E ok \in BOOLEAN : Done(ok)
    BY <1>0, <1>13, <2>2 DEF ImportGeoSettings
  <2> QED
    BY <1>10, <1>13, <2>3 DEF ImportGeoSettings
<1>20. ASSUME NEW key \in Keys, NEW value \in Values, WriteSetting(key, value) PROVE BackupTypeInv'
  <2>1. disk' \in Disks
    BY <1>0, <1>20, DiskWithKey DEF WriteSetting, Optional
  <2> QED
    BY <1>01, <1>20, <2>1 DEF WriteSetting, UserActs, BackupTypeOK
<1>14. ASSUME NEW step \in {"rulesets", "files"}, ImportFile(step) PROVE BackupTypeInv'
  <2>1. archive \in Backups
    BY <1>14 DEF ImportFile, Importing
  <2>2. archive[step] \in Optional /\ Absent \in Optional
    BY <2>1, BackupParts DEF Optional
  <2>3. [disk EXCEPT ![step] = archive[step]] \in Disks /\ [disk EXCEPT ![step] = Absent] \in Disks
    BY <1>0, <2>2 DEF Disks
  <2>4. disk' \in Disks /\ \E ok \in BOOLEAN : Done(ok)
    BY <1>0, <1>14, <2>3 DEF ImportFile
  <2> QED
    BY <1>10, <1>14, <2>4 DEF ImportFile
<1>15. CASE ImportSucceeds
  <2>1. disk' \in Disks /\ mem' \in [Kinds -> Seq(Records)] /\ active' \in Selections
    BY <1>0, <1>15, LoadAllGives DEF ImportSucceeds
  <2> QED
    BY <1>15, <2>1, NoImportType DEF ImportSucceeds, BackupTypeOK
<1>16. CASE ImportFails
  BY <1>16, NoImportType DEF ImportFails, BackupTypeOK
<1>17. CASE Kill
  BY <1>17, NoImportType DEF Kill, BackupTypeOK
<1>18. CASE Start
  <2>1. PICK d \in Migrations : LoadAll(d)
    BY <1>18 DEF Start
  <2>2. d \in Disks
    BY <1>0, MigrationsType
  <2>3. disk' \in Disks /\ mem' \in [Kinds -> Seq(Records)] /\ active' \in Selections
    BY <2>1, <2>2, LoadAllGives
  <2> QED
    BY <1>01, <1>18, <2>3 DEF Start, BackupTypeOK
<1>19. CASE UNCHANGED backupVars
  BY <1>19 DEF backupVars, BackupTypeOK
<1> QED
  BY <1>2, <1>3, <1>4, <1>5, <1>6, <1>7, <1>8, <1>9, <1>11, <1>12, <1>13, <1>14, <1>15,
     <1>16, <1>17, <1>18, <1>19, <1>20, WritesTyped DEF BackupNext

LEMMA BackupTypeAlways == BackupSpec => []BackupTypeInv
  BY BackupTypeInit, BackupTypeStep, PTL DEF BackupSpec

\* The stored lists and settings, what the window and the managers hold, and the backups are
\* what the stores can hold (storage/*Store.cpp, BackupImporter, MainWindow).
THEOREM BackupTypeCorrect == BackupSpec => []BackupTypeOK
<1>1. BackupTypeInv => BackupTypeOK
  BY DEF BackupTypeInv
<1> QED
  BY <1>1, BackupTypeAlways, PTL

-----------------------------------------------------------------------------
(* Backups: the active profile *)

HasActive(l) == active[l] \in Ids(mem[l]) /\ Ids(BuiltIns[l]) \subseteq Ids(mem[l])

\* Also while the import dialog works, since it leaves the lists in the memory alone.
ActiveInv == window # "down" => \A l \in Managed : HasActive(l)

LEMMA KeptIds ==
  ASSUME NEW list \in Seq(Records), NEW id
  PROVE Ids(Kept(list, {other \in Range(list) : other.id # id})) = Ids(list) \ {id}
<1> DEFINE others == {other \in Range(list) : other.id # id}
<1>1. Range(Kept(list, others)) = Range(list) \cap others
  BY KeptItems
<1> QED
  BY <1>1 DEF Ids

LEMMA ActiveInit == BackupInit => ActiveInv
  BY DEF BackupInit, ActiveInv

LEMMA ActiveStep == BackupTypeInv /\ ActiveInv /\ [BackupNext]_backupVars => ActiveInv'
<1> SUFFICES ASSUME BackupTypeInv, ActiveInv, [BackupNext]_backupVars PROVE ActiveInv'
  OBVIOUS
<1>0. /\ disk \in Disks /\ mem \in [Kinds -> Seq(Records)] /\ active \in Selections
  BY DEF BackupTypeInv, BackupTypeOK
<1>1. ASSUME UNCHANGED <<mem, active>>, window # "down" \/ window' = "down" PROVE ActiveInv'
  BY <1>1 DEF ActiveInv, HasActive
<1>2. ASSUME NEW l \in Kinds, NEW list \in Seq(Records), window # "down", UNCHANGED active,
             mem' = [mem EXCEPT ![l] = list],
             l \in Managed => active[l] \in Ids(list) /\ Ids(BuiltIns[l]) \subseteq Ids(list)
      PROVE ActiveInv'
  <2>1. ASSUME NEW k \in Managed PROVE HasActive(k)'
    <3>1. k \in Kinds /\ HasActive(k)
      BY <1>2, ManagedKinds DEF ActiveInv
    <3> QED
      BY <1>0, <1>2, <3>1 DEF HasActive
  <2> QED
    BY <2>1 DEF ActiveInv
<1>3. ASSUME NEW d \in Disks, LoadAll(d) PROVE ActiveInv'
  BY <1>3, LoadAllGives DEF ActiveInv, HasActive
<1>4. ASSUME NEW l \in Kinds, NEW item \in Items[l], PutItem(l, item) PROVE ActiveInv'
  <2>1. item \in Records
    BY DEF Records
  <2>2. /\ Upserted(mem[l], item) \in Seq(Records)
        /\ Ids(mem[l]) \subseteq Ids(Upserted(mem[l], item))
    BY <1>0, <2>1, UpsertedType
  <2>3. /\ window # "down" /\ UNCHANGED active
        /\ mem' = [mem EXCEPT ![l] = Upserted(mem[l], item)]
    BY <1>4 DEF PutItem, UserActs, Changed
  <2>4. l \in Managed => HasActive(l)
    BY <2>3 DEF ActiveInv
  <2> QED
    BY <1>2, <2>2, <2>3, <2>4 DEF HasActive
<1>5. ASSUME NEW l \in Kinds, NEW item \in Items[l], RemoveItem(l, item) PROVE ActiveInv'
  <2> DEFINE list == Kept(mem[l], {other \in Range(mem[l]) : other.id # item.id})
             id == Head(BuiltIns[l]).id
  <2>1. list \in Seq(Records) /\ Ids(list) = Ids(mem[l]) \ {item.id}
    BY <1>0, KeptItems, KeptIds
  <2>2. window # "down" /\ item \in Range(mem[l]) /\ ~item.builtIn
    BY <1>5 DEF RemoveItem, UserActs
  <2>3. l \in Managed => item.id \notin Ids(BuiltIns[l])
    <3>1. item \in Records
      BY DEF Records
    <3> QED
      BY <2>2, <3>1, BackupAssumption DEF Ids
  <2>4. l \in Managed => HasActive(l)
    BY <2>2 DEF ActiveInv
  <2>5. l \in Managed => Ids(BuiltIns[l]) \subseteq Ids(list)
    BY <2>1, <2>3, <2>4 DEF HasActive
  <2>6. CASE l \in Managed /\ active[l] = item.id
    <3>1. active' = [active EXCEPT ![l] = id] /\ mem' = [mem EXCEPT ![l] = list]
      BY <1>5, <2>6 DEF RemoveItem
    <3>2. id \in Ids(list)
      BY <2>5, <2>6, ManagedKinds
    <3> HIDE DEF list, id
    <3>3. ASSUME NEW k \in Managed PROVE HasActive(k)'
      <4>1. k \in Kinds /\ HasActive(k)
        BY <2>2, ManagedKinds DEF ActiveInv
      <4>2. k \in DOMAIN active /\ k \in DOMAIN mem
        BY <1>0, <4>1 DEF Selections
      <4>3. CASE k = l
        <5>1. active'[k] = id /\ mem'[k] = list
          BY <3>1, <4>2, <4>3
        <5> QED
          BY <2>5, <2>6, <3>2, <4>3, <5>1 DEF HasActive
      <4>4. CASE k # l
        BY <3>1, <4>1, <4>2, <4>4 DEF HasActive
      <4> QED
        BY <4>3, <4>4
    <3> QED
      BY <3>3 DEF ActiveInv
  <2>7. CASE ~(l \in Managed /\ active[l] = item.id)
    <3>1. UNCHANGED active /\ mem' = [mem EXCEPT ![l] = list]
      BY <1>5, <2>7 DEF RemoveItem, Changed
    <3>2. l \in Managed => active[l] \in Ids(list)
      BY <2>1, <2>4, <2>7 DEF HasActive
    <3> HIDE DEF list
    <3> QED
      BY <1>2, <2>1, <2>2, <2>5, <3>1, <3>2
  <2> QED
    BY <2>6, <2>7
<1>6. ASSUME NEW l \in Managed, NEW id \in Ids(mem[l]), SetActive(l, id) PROVE ActiveInv'
  <2>1. window # "down" /\ active' = [active EXCEPT ![l] = id] /\ UNCHANGED mem
    BY <1>6 DEF SetActive, UserActs
  <2>2. ASSUME NEW k \in Managed PROVE HasActive(k)'
    <3>1. HasActive(k) /\ k \in DOMAIN active
      BY <1>0, <2>1 DEF ActiveInv, Selections
    <3> QED
      BY <2>1, <3>1 DEF HasActive
  <2> QED
    BY <2>2 DEF ActiveInv
<1>7. CASE SaveAll \/ ExportBackup \/ OpenImport
  BY <1>1, <1>7 DEF SaveAll, ExportBackup, OpenImport, UserActs
<1>8. CASE CloseImport \/ BeginImport
  BY <1>1, <1>8 DEF CloseImport, BeginImport
<1>9. ASSUME NEW l \in Kinds, ImportList(l) PROVE ActiveInv'
  BY <1>1, <1>9 DEF ImportList, Importing
<1>10. CASE ImportSettings \/ ImportGeoSettings
  BY <1>1, <1>10 DEF ImportSettings, ImportGeoSettings, Importing
<1>11. ASSUME NEW step \in {"rulesets", "files"}, ImportFile(step) PROVE ActiveInv'
  BY <1>1, <1>11 DEF ImportFile, Importing
<1>12. CASE ImportSucceeds
  BY <1>0, <1>3, <1>12 DEF ImportSucceeds
<1>13. CASE ImportFails \/ Kill
  BY <1>1, <1>13 DEF ImportFails, Kill
<1>14. CASE Start
  <2>1. PICK d \in Migrations : LoadAll(d)
    BY <1>14 DEF Start
  <2> QED
    BY <1>0, <1>3, <2>1, MigrationsType
<1>15. CASE UNCHANGED backupVars
  BY <1>15 DEF backupVars, ActiveInv, HasActive
<1>16. ASSUME NEW key, NEW value, WriteSetting(key, value) PROVE ActiveInv'
  BY <1>1, <1>16 DEF WriteSetting, UserActs
<1> QED
  BY <1>4, <1>5, <1>6, <1>7, <1>8, <1>9, <1>10, <1>11, <1>12, <1>13, <1>14, <1>15, <1>16
     DEF BackupNext

\* While the window is open, the built-in routing and DNS profiles are there and the active
\* profile is one of the list (RoutingManager::resolveActiveProfile, DnsManager).
THEOREM ActiveProfilesExist == BackupSpec => []ActiveProfileExists
<1>1. ActiveInv => ActiveProfileExists
  BY DEF ActiveInv, HasActive, ActiveProfileExists
<1>2. BackupSpec => []ActiveInv
  BY ActiveInit, ActiveStep, BackupTypeAlways, PTL DEF BackupSpec
<1> QED
  BY <1>1, <1>2, PTL

-----------------------------------------------------------------------------
(* Backups: what an import writes *)

\* Every backup of this installation is one of the data directory it is said to be from.
OwnInv ==
  /\ exported # Absent => \E withFiles \in BOOLEAN : exported.backup = Staged(exported.from, withFiles)
  /\ copy # Absent => copy.backup = Staged(copy.from, FALSE)
  /\ source # Absent => \E withFiles \in BOOLEAN : archive = Staged(source, withFiles)

LEMMA OwnInit == BackupInit => OwnInv
  BY DEF BackupInit, OwnInv

LEMMA OwnStep == OwnInv /\ [BackupNext]_backupVars => OwnInv'
<1> SUFFICES ASSUME OwnInv, [BackupNext]_backupVars PROVE OwnInv'
  OBVIOUS
<1>1. ASSUME UNCHANGED <<exported, copy, archive, source>> PROVE OwnInv'
  BY <1>1 DEF OwnInv
<1>2. ASSUME UNCHANGED <<exported, copy>>, source' = Absent PROVE OwnInv'
  BY <1>2 DEF OwnInv
<1>3. ASSUME NEW l \in Kinds, NEW item \in Items[l], PutItem(l, item) \/ RemoveItem(l, item)
      PROVE OwnInv'
  BY <1>1, <1>3 DEF PutItem, RemoveItem
<1>4. ASSUME NEW l \in Managed, NEW id \in Ids(mem[l]), SetActive(l, id) PROVE OwnInv'
  BY <1>1, <1>4 DEF SetActive
<1>5. CASE SaveAll \/ ImportFails
  BY <1>1, <1>5 DEF SaveAll, ImportFails
<1>6. CASE ExportBackup
  <2>1. PICK n \in 0 .. Len(Lists), withFiles \in BOOLEAN, archived \in BOOLEAN :
          exported' = IF n = Len(Lists) /\ archived
                      THEN [backup |-> Staged(disk', withFiles), from |-> disk'] ELSE exported
    BY <1>6 DEF ExportBackup
  <2>2. UNCHANGED <<copy, archive, source>>
    BY <1>6 DEF ExportBackup
  <2>3. CASE exported' = exported
    BY <1>1, <2>2, <2>3
  <2>4. CASE exported' = [backup |-> Staged(disk', withFiles), from |-> disk']
    <3>1. exported'.backup = Staged(exported'.from, withFiles)
      BY <2>4
    <3> QED
      BY <2>2, <3>1 DEF OwnInv
  <2> QED
    BY <2>1, <2>3, <2>4
<1>7. CASE OpenImport
  <2>1. UNCHANGED <<exported, copy>>
    BY <1>7 DEF OpenImport
  <2>2. source' = Absent \/ \E withFiles \in BOOLEAN : archive' = Staged(source', withFiles)
    BY <1>7 DEF OpenImport, OwnInv
  <2> QED
    BY <2>1, <2>2 DEF OwnInv
<1>8. CASE BeginImport
  <2>1. copy' = [backup |-> Staged(disk, FALSE), from |-> disk]
        /\ UNCHANGED <<exported, archive, source>>
    BY <1>8 DEF BeginImport, PreImportBackup
  <2>2. copy'.backup = Staged(copy'.from, FALSE)
    BY <2>1
  <2> QED
    BY <2>1, <2>2 DEF OwnInv
<1>9. CASE CloseImport \/ ImportSucceeds \/ Kill
  BY <1>2, <1>9 DEF CloseImport, ImportSucceeds, Kill
<1>10. ASSUME NEW l \in Kinds, ImportList(l) PROVE OwnInv'
  BY <1>1, <1>10 DEF ImportList
<1>11. CASE ImportSettings \/ ImportGeoSettings
  BY <1>1, <1>11 DEF ImportSettings, ImportGeoSettings
<1>12. ASSUME NEW step \in {"rulesets", "files"}, ImportFile(step) PROVE OwnInv'
  BY <1>1, <1>12 DEF ImportFile
<1>13. CASE Start
  BY <1>1, <1>13 DEF Start
<1>14. ASSUME NEW key, NEW value, WriteSetting(key, value) PROVE OwnInv'
  BY <1>1, <1>14 DEF WriteSetting
<1>15. CASE UNCHANGED backupVars
  BY <1>1, <1>15 DEF backupVars
<1> QED
  BY <1>3, <1>4, <1>5, <1>6, <1>7, <1>8, <1>9, <1>10, <1>11, <1>12, <1>13, <1>14, <1>15
     DEF BackupNext

LEMMA OwnAlways == BackupSpec => []OwnInv
  BY OwnInit, OwnStep, PTL DEF BackupSpec

\* The categories are taken in one order, the lists first.
LEMMA StepsAre ==
  /\ Len(Lists) \in Nat
  /\ Len(Steps) = Len(Lists) + 4
  /\ \A i \in 1 .. Len(Lists) : Steps[i] = Lists[i]
  /\ Steps[Len(Lists) + 1] = "settings"
  /\ Steps[Len(Lists) + 2] = "geo"
  /\ Steps[Len(Lists) + 3] = "rulesets"
  /\ Steps[Len(Lists) + 4] = "files"
<1> DEFINE rest == <<"settings", "geo", "rulesets", "files">>
<1>1. Lists \in Seq({"profiles", "subscriptions", "routing", "dns"}) /\ Len(Lists) \in Nat
  BY ListsAssumption
<1>2. /\ rest \in Seq({"settings", "geo", "rulesets", "files"}) /\ Len(rest) = 4
      /\ rest[1] = "settings" /\ rest[2] = "geo" /\ rest[3] = "rulesets" /\ rest[4] = "files"
  OBVIOUS
<1>3. Steps = Lists \o rest
  BY DEF Steps
<1> HIDE DEF rest
<1>4. /\ Len(Lists \o rest) = Len(Lists) + Len(rest)
      /\ \A i \in 1 .. Len(Lists) + Len(rest) :
           (Lists \o rest)[i] = IF i <= Len(Lists) THEN Lists[i] ELSE rest[i - Len(Lists)]
  <2> DEFINE names == {"profiles", "subscriptions", "routing", "dns"}
                      \cup {"settings", "geo", "rulesets", "files"}
  <2>1. Lists \in Seq(names) /\ rest \in Seq(names)
    BY <1>1, <1>2, SeqMonotonic
  <2> HIDE DEF names
  <2> QED
    BY <2>1, ConcatProperties
<1>5. Steps[Len(Lists) + 1] = rest[1]
  BY <1>1, <1>2, <1>3, <1>4
<1>6. Steps[Len(Lists) + 2] = rest[2]
  BY <1>1, <1>2, <1>3, <1>4
<1>7. Steps[Len(Lists) + 3] = rest[3]
  BY <1>1, <1>2, <1>3, <1>4
<1>8. Steps[Len(Lists) + 4] = rest[4]
  BY <1>1, <1>2, <1>3, <1>4
<1> QED
  BY <1>1, <1>2, <1>3, <1>4, <1>5, <1>6, <1>7, <1>8

\* Where an import stands when it takes a category.
LEMMA WhereImportStands ==
  ASSUME BackupTypeInv, NEW step, Importing(step)
  PROVE /\ step \in Kinds => import.done + 1 \in 1 .. Len(Lists) /\ Lists[import.done + 1] = step
        /\ step = "settings" => import.done = Len(Lists)
        /\ step = "geo" => import.done = Len(Lists) + 1
        /\ step = "rulesets" => import.done = Len(Lists) + 2
        /\ step = "files" => import.done = Len(Lists) + 3
        /\ import.done \in Nat /\ import.done < Len(Steps)
<1> DEFINE n == Len(Lists)
           at == import.done + 1
<1>1. import.done \in 0 .. Len(Steps) /\ import.done < Len(Steps) /\ Steps[at] = step
  BY DEF BackupTypeInv, BackupTypeOK, Imports, Importing, Step
<1>2. n \in Nat /\ at \in 1 .. n + 4 /\ import.done \in Nat
  BY <1>1, StepsAre
<1>3. CASE at \in 1 .. n
  <2>1. step = Lists[at] /\ Lists[at] \in {"profiles", "subscriptions", "routing", "dns"}
    BY <1>1, <1>3, StepsAre, ListsAssumption
  <2> QED
    BY <1>1, <1>2, <1>3, <2>1
<1>4. CASE at \in {n + 1, n + 2, n + 3, n + 4}
  <2>1. step \notin Kinds
    <3>1. step \in {"settings", "geo", "rulesets", "files"}
      BY <1>1, <1>4, StepsAre
    <3>2. \A l \in Kinds : l \in {"profiles", "subscriptions", "routing", "dns"}
      BY ListsAssumption DEF Kinds, Range
    <3> QED
      BY <3>1, <3>2
  <2>2. /\ at = n + 1 => step = "settings"
        /\ at = n + 2 => step = "geo"
        /\ at = n + 3 => step = "rulesets"
        /\ at = n + 4 => step = "files"
    BY <1>1, StepsAre
  <2> QED
    BY <1>1, <1>2, <1>4, <2>1, <2>2
<1> QED
  BY <1>2, <1>3, <1>4

\* What the import makes of a list that was "old" when it began.
Brought(l, old) ==
  IF import.modes.lists[l] = "skip" \/ ~Included(l) THEN old
  ELSE SavedList(IF import.modes.lists[l] = "replace" THEN WithBuiltIns(l, Incoming(l))
                 ELSE Merged(l, Load(old), Incoming(l)))

\* What the import has made of the settings when so many categories are done.
SettingsAt(done) ==
  LET before == copy.from.settings
      set == IF import.modes.settings = "skip" \/ archive.layout = "root" THEN before
             ELSE WithArchiveSettings(before) IN
  IF done <= Len(Lists) THEN before
  ELSE IF done = Len(Lists) + 1 \/ archive.layout = "root" THEN set
  ELSE WithArchiveGeo(set)

\* Of the categories that are done, while nothing failed, each is what its mode says, and the
\* lists that are not done are as they were.
ProgressInv ==
  window = "import" =>
    /\ \A i \in 1 .. Len(Lists) : import.done < i => disk.lists[Lists[i]] = copy.from.lists[Lists[i]]
    /\ import.ok =>
         /\ \A i \in 1 .. Len(Lists) : i <= import.done =>
              disk.lists[Lists[i]] = Brought(Lists[i], copy.from.lists[Lists[i]])
         /\ disk.settings = SettingsAt(import.done)
         /\ import.done > Len(Lists) + 2 /\ archive.rulesets # Absent =>
              disk.rulesets = archive.rulesets

LEMMA ProgressInit == BackupInit => ProgressInv
  BY DEF BackupInit, ProgressInv

\* A category is taken, the lists stay, and so does what was brought of the rest.
LEMMA ProgressPastLists ==
  ASSUME BackupTypeInv, ProgressInv, NEW step, Importing(step), NEW ok \in BOOLEAN, Done(ok),
         UNCHANGED <<window, archive, copy>>, disk'.lists = disk.lists,
         import.done >= Len(Lists),
         import'.ok => disk'.settings = SettingsAt(import.done + 1),
         import'.ok /\ import'.done > Len(Lists) + 2 /\ archive.rulesets # Absent =>
           disk'.rulesets = archive.rulesets
  PROVE ProgressInv'
<1>1. import \in Imports /\ window = "import" /\ import.done < Len(Steps)
  BY WhereImportStands DEF BackupTypeInv, BackupTypeOK, Importing
<1>2. /\ import'.modes = import.modes
      /\ import'.done = import.done + 1
      /\ import'.ok => import.ok
  BY <1>1, DoneType
<1>3. import.done \in Nat /\ Len(Lists) \in Nat
  BY WhereImportStands, StepsAre
<1>5. \A i \in 1 .. Len(Lists) : i <= import.done /\ ~(import'.done < i)
  BY <1>2, <1>3
<1>6. ASSUME import'.ok, NEW i \in 1 .. Len(Lists)
      PROVE disk'.lists[Lists[i]] = Brought(Lists[i], copy.from.lists[Lists[i]])'
  <2>1. disk.lists[Lists[i]] = Brought(Lists[i], copy.from.lists[Lists[i]])
    BY <1>1, <1>2, <1>5, <1>6 DEF ProgressInv
  <2>2. Brought(Lists[i], copy.from.lists[Lists[i]])' = Brought(Lists[i], copy.from.lists[Lists[i]])
    BY <1>2 DEF Brought, Included, Incoming
  <2> QED
    BY <2>1, <2>2
<1>7. SettingsAt(import.done)' = SettingsAt(import.done + 1)
  BY <1>2 DEF SettingsAt, WithArchiveSettings, WithArchiveGeo
<1> QED
  BY <1>5, <1>6, <1>7 DEF ProgressInv

LEMMA ProgressOfList ==
  ASSUME BackupTypeInv, ProgressInv, NEW l \in Kinds, ImportList(l)
  PROVE ProgressInv'
<1> DEFINE at == import.done + 1
<1>1. /\ at \in 1 .. Len(Lists) /\ Lists[at] = l /\ Len(Lists) \in Nat
      /\ import.done \in Nat /\ import.done < Len(Steps)
      /\ window = "import" /\ import \in Imports
  BY WhereImportStands, StepsAre DEF ImportList, Importing, BackupTypeInv, BackupTypeOK
<1>2. PICK ok \in BOOLEAN : Done(ok)
  BY DEF ImportList
<1>3. /\ import'.modes = import.modes
      /\ import'.done = at
      /\ import'.ok = (import.ok /\ ok)
  BY <1>1, <1>2, DoneType
<1>4. UNCHANGED <<window, archive, copy>>
  BY DEF ImportList
<1>6. disk \in Disks /\ disk.lists \in [Kinds -> ListFile]
  BY DiskParts DEF BackupTypeInv, BackupTypeOK
<1>7. SavedList(Imported(l)) \in ListFile
  BY <1>1, ImportedType
<1>8. disk'.lists = disk.lists \/ disk'.lists = [disk.lists EXCEPT ![l] = SavedList(Imported(l))]
  <2>1. disk' = disk \/ disk' = [disk EXCEPT !.lists[l] = SavedList(Imported(l))]
    BY DEF ImportList
  <2>2. [disk EXCEPT !.lists[l] = SavedList(Imported(l))].lists
          = [disk.lists EXCEPT ![l] = SavedList(Imported(l))]
    BY <1>6, <1>7, DiskWithList
  <2> QED
    BY <2>1, <2>2
<1>9. ASSUME NEW i \in 1 .. Len(Lists), i # at PROVE disk'.lists[Lists[i]] = disk.lists[Lists[i]]
  <2>1. Lists[i] # l
    BY <1>1, <1>9, ListsAssumption
  <2>2. Lists[i] \in Kinds
    BY <1>9, ListsAssumption DEF Kinds, Range
  <2> QED
    BY <1>6, <1>8, <2>1, <2>2
<1>10. ASSUME NEW i \in 1 .. Len(Lists), at < i
       PROVE disk'.lists[Lists[i]] = copy.from.lists[Lists[i]]
  <2>1. import.done < i /\ i # at
    BY <1>1, <1>10
  <2> QED
    BY <1>1, <1>9, <2>1 DEF ProgressInv
<1>11. ASSUME import'.ok, NEW i \in 1 .. Len(Lists), i <= at
       PROVE disk'.lists[Lists[i]] = Brought(Lists[i], copy.from.lists[Lists[i]])
  <2>1. CASE i # at
    <3>1. i <= import.done
      BY <1>1, <1>11, <2>1
    <3> QED
      BY <1>1, <1>3, <1>9, <1>11, <2>1, <3>1 DEF ProgressInv
  <2>2. CASE i = at
    <3>1. disk.lists[l] = copy.from.lists[l]
      <4>1. import.done < i
        BY <1>1, <2>2
      <4> QED
        BY <1>1, <2>2, <4>1 DEF ProgressInv
    <3>2. CASE import.modes.lists[l] = "skip" \/ ~Included(l)
      <4>1. UNCHANGED disk
        BY <3>2 DEF ImportList
      <4> QED
        BY <1>1, <2>2, <3>1, <3>2, <4>1 DEF Brought
    <3>3. CASE ~(import.modes.lists[l] = "skip" \/ ~Included(l))
      <4>1. ~Done(FALSE)
        <5> SUFFICES ASSUME Done(FALSE) PROVE FALSE
          OBVIOUS
        <5>1. import'.ok = (import.ok /\ FALSE)
          BY <1>1, DoneType
        <5> QED
          BY <1>11, <5>1
      <4>2. disk' = [disk EXCEPT !.lists[l] = SavedList(Imported(l))]
        BY <3>3, <4>1 DEF ImportList
      <4>3. disk'.lists = [disk.lists EXCEPT ![l] = SavedList(Imported(l))]
        BY <1>6, <1>7, <4>2, DiskWithList
      <4>4. disk'.lists[l] = SavedList(Imported(l))
        BY <1>6, <4>3
      <4> QED
        BY <1>1, <2>2, <3>1, <3>3, <4>4 DEF Brought, Imported
    <3> QED
      BY <3>2, <3>3
  <2> QED
    BY <2>1, <2>2
<1>12. ASSUME NEW i \in 1 .. Len(Lists)
       PROVE Brought(Lists[i], copy.from.lists[Lists[i]])' = Brought(Lists[i], copy.from.lists[Lists[i]])
  BY <1>3, <1>4 DEF Brought, Included, Incoming
<1>13. ~(at > Len(Lists) + 2)
  BY <1>1
<1>14. import'.ok => disk'.settings = SettingsAt(import.done)'
  <2>1. disk'.settings = disk.settings
    <3>1. disk' = disk \/ disk' = [disk EXCEPT !.lists[l] = SavedList(Imported(l))]
      BY DEF ImportList
    <3>2. [disk EXCEPT !.lists[l] = SavedList(Imported(l))].settings = disk.settings
      BY <1>6, <1>7, DiskWithList
    <3> QED
      BY <3>1, <3>2
  <2>2. import.ok => disk.settings = SettingsAt(import.done)
    BY <1>1 DEF ProgressInv
  <2>3. at <= Len(Lists) /\ import.done <= Len(Lists)
    BY <1>1
  <2> QED
    BY <1>3, <1>4, <2>1, <2>2, <2>3 DEF SettingsAt
<1> QED
  BY <1>3, <1>4, <1>10, <1>11, <1>12, <1>13, <1>14 DEF ProgressInv

LEMMA ProgressStep ==
  BackupTypeInv /\ ProgressInv /\ [BackupNext]_backupVars => ProgressInv'
<1> SUFFICES ASSUME BackupTypeInv, ProgressInv, [BackupNext]_backupVars PROVE ProgressInv'
  OBVIOUS
<1>1. ASSUME window' # "import" PROVE ProgressInv'
  BY <1>1 DEF ProgressInv
<1>2. ASSUME NEW l \in Kinds, NEW item \in Items[l], PutItem(l, item) \/ RemoveItem(l, item)
      PROVE ProgressInv'
  BY <1>1, <1>2 DEF PutItem, RemoveItem, UserActs
<1>3. ASSUME NEW l \in Managed, NEW id \in Ids(mem[l]), SetActive(l, id) PROVE ProgressInv'
  BY <1>1, <1>3 DEF SetActive, UserActs
<1>11. ASSUME NEW key, NEW value, WriteSetting(key, value) PROVE ProgressInv'
  BY <1>1, <1>11 DEF WriteSetting, UserActs
<1>4. CASE SaveAll \/ ExportBackup \/ OpenImport \/ CloseImport \/ ImportSucceeds \/ ImportFails
           \/ Kill \/ Start
  BY <1>1, <1>4 DEF SaveAll, ExportBackup, OpenImport, CloseImport, ImportSucceeds, ImportFails,
                    Kill, Start, UserActs
<1>5. CASE BeginImport
  <2>1. import'.done = 0 /\ copy'.from = disk /\ disk' = disk
    BY <1>5 DEF BeginImport, PreImportBackup
  <2>2. Len(Lists) \in Nat
    BY StepsAre
  <2>3. SettingsAt(import.done)' = disk'.settings
    BY <2>1, <2>2 DEF SettingsAt
  <2> QED
    BY <2>1, <2>2, <2>3 DEF ProgressInv
<1>6. ASSUME NEW l \in Kinds, ImportList(l) PROVE ProgressInv'
  BY <1>6, ProgressOfList
<1>7. CASE ImportSettings
  <2>1. /\ Importing("settings") /\ import.done = Len(Lists)
        /\ import \in Imports /\ import.done < Len(Steps) /\ Len(Lists) \in Nat
    BY <1>7, WhereImportStands, StepsAre DEF ImportSettings, Importing, BackupTypeInv, BackupTypeOK
  <2>2. PICK ok \in BOOLEAN : Done(ok)
    BY <1>7 DEF ImportSettings
  <2>3. import'.modes = import.modes /\ import'.done = import.done + 1 /\ import'.ok = (import.ok /\ ok)
    BY <2>1, <2>2, DoneType
  <2>4. UNCHANGED <<window, archive, copy>>
    BY <1>7 DEF ImportSettings
  <2>5. disk \in Disks /\ archive \in Backups
    BY <2>1 DEF BackupTypeInv, BackupTypeOK, Importing
  <2> DEFINE settings == WithArchiveSettings(disk.settings)
  <2>6. settings \in Settings
    BY <2>5, DiskParts, SettingsBroughtType
  <2>7. disk' = disk \/ disk' = [disk EXCEPT !.settings = settings]
    BY <1>7 DEF ImportSettings, WithArchiveSettings
  <2>8. /\ import'.ok => import.ok
        /\ import'.ok =>
             IF import.modes.settings = "skip" \/ archive.layout = "root" THEN disk' = disk
             ELSE disk' = [disk EXCEPT !.settings = settings]
    <3>1. Done(FALSE) => ~import'.ok
      <4> SUFFICES ASSUME Done(FALSE) PROVE ~import'.ok
        OBVIOUS
      <4>1. import'.ok = (import.ok /\ FALSE)
        BY <2>1, DoneType
      <4> QED
        BY <4>1
    <3> QED
      BY <1>7, <2>3, <3>1 DEF ImportSettings, WithArchiveSettings
  <2> HIDE DEF settings
  <2>9. /\ [disk EXCEPT !.settings = settings].lists = disk.lists
        /\ [disk EXCEPT !.settings = settings].settings = settings
    BY <2>5, <2>6, DiskWithSettings
  <2>10. disk'.lists = disk.lists
    BY <2>7, <2>9
  <2>11. import'.ok => disk'.settings = SettingsAt(import.done + 1)
    <3> SUFFICES ASSUME import'.ok PROVE disk'.settings = SettingsAt(import.done + 1)
      OBVIOUS
    <3>1. disk.settings = copy.from.settings
      BY <2>1, <2>8 DEF ProgressInv, SettingsAt, Importing
    <3>2. ~(import.done + 1 <= Len(Lists)) /\ import.done + 1 = Len(Lists) + 1
      BY <2>1
    <3>3. disk'.settings = IF import.modes.settings = "skip" \/ archive.layout = "root"
                           THEN disk.settings ELSE settings
      BY <2>8, <2>9
    <3> QED
      BY <3>1, <3>2, <3>3 DEF SettingsAt, settings
  <2>12. ~(import'.done > Len(Lists) + 2) /\ import.done >= Len(Lists)
    BY <2>1, <2>3
  <2> QED
    BY <2>1, <2>2, <2>4, <2>10, <2>11, <2>12, ProgressPastLists
<1>8. CASE ImportGeoSettings
  <2>1. /\ Importing("geo") /\ import.done = Len(Lists) + 1 /\ window = "import"
        /\ import \in Imports /\ import.done < Len(Steps) /\ Len(Lists) \in Nat
    BY <1>8, WhereImportStands, StepsAre DEF ImportGeoSettings, Importing, BackupTypeInv, BackupTypeOK
  <2>2. PICK ok \in BOOLEAN : Done(ok)
    BY <1>8 DEF ImportGeoSettings
  <2>3. import'.modes = import.modes /\ import'.done = import.done + 1 /\ import'.ok = (import.ok /\ ok)
    BY <2>1, <2>2, DoneType
  <2>4. UNCHANGED <<window, archive, copy>>
    BY <1>8 DEF ImportGeoSettings
  <2>5. disk \in Disks /\ archive \in Backups
    BY <2>1 DEF BackupTypeInv, BackupTypeOK
  <2> DEFINE settings == WithArchiveGeo(disk.settings)
  <2>6. settings \in Settings
    BY <2>5, DiskParts, SettingsBroughtType
  <2>7. [disk EXCEPT !.settings.keys["geo"] = archive.geo] = [disk EXCEPT !.settings = settings]
    BY <2>5, DiskWithGeo
  <2>8. /\ import'.ok => import.ok
        /\ disk' = disk \/ disk' = [disk EXCEPT !.settings = settings]
        /\ import'.ok => IF archive.layout = "root" THEN disk' = disk
                         ELSE disk' = [disk EXCEPT !.settings = settings]
    <3>1. Done(FALSE) => ~import'.ok
      <4> SUFFICES ASSUME Done(FALSE) PROVE ~import'.ok
        OBVIOUS
      <4>1. import'.ok = (import.ok /\ FALSE)
        BY <2>1, DoneType
      <4> QED
        BY <4>1
    <3> HIDE DEF settings
    <3> QED
      BY <1>8, <2>3, <2>7, <3>1 DEF ImportGeoSettings
  <2> HIDE DEF settings
  <2>9. /\ [disk EXCEPT !.settings = settings].lists = disk.lists
        /\ [disk EXCEPT !.settings = settings].settings = settings
    BY <2>5, <2>6, DiskWithSettings
  <2>10. import'.ok => disk'.settings = SettingsAt(import.done + 1)
    <3> SUFFICES ASSUME import'.ok PROVE disk'.settings = SettingsAt(import.done + 1)
      OBVIOUS
    <3>1. disk.settings = SettingsAt(import.done)
      BY <2>1, <2>8 DEF ProgressInv
    <3>2. /\ ~(import.done <= Len(Lists)) /\ import.done = Len(Lists) + 1
          /\ ~(import.done + 1 <= Len(Lists)) /\ import.done + 1 # Len(Lists) + 1
      BY <2>1
    <3>3. disk'.settings = IF archive.layout = "root" THEN disk.settings ELSE settings
      BY <2>8, <2>9
    <3> QED
      BY <3>1, <3>2, <3>3 DEF SettingsAt, settings
  <2>11. disk'.lists = disk.lists
    BY <2>8, <2>9
  <2>12. ~(import'.done > Len(Lists) + 2) /\ import.done >= Len(Lists)
    BY <2>1, <2>3
  <2> QED
    BY <2>1, <2>2, <2>4, <2>10, <2>11, <2>12, ProgressPastLists
<1>9. ASSUME NEW step \in {"rulesets", "files"}, ImportFile(step) PROVE ProgressInv'
  <2>1. /\ Importing(step) /\ window = "import"
        /\ step = "rulesets" => import.done = Len(Lists) + 2
        /\ step = "files" => import.done = Len(Lists) + 3
        /\ import \in Imports /\ import.done < Len(Steps) /\ Len(Lists) \in Nat
    BY <1>9, WhereImportStands, StepsAre DEF ImportFile, Importing, BackupTypeInv, BackupTypeOK
  <2>2. PICK ok \in BOOLEAN : Done(ok)
    BY <1>9 DEF ImportFile
  <2>3. import'.modes = import.modes /\ import'.done = import.done + 1 /\ import'.ok = (import.ok /\ ok)
    BY <2>1, <2>2, DoneType
  <2>4. UNCHANGED <<window, archive, copy>>
    BY <1>9 DEF ImportFile
  <2>5. disk \in Disks /\ archive \in Backups
    BY <2>1 DEF BackupTypeInv, BackupTypeOK
  <2>6. disk' \in {disk, [disk EXCEPT ![step] = Absent], [disk EXCEPT ![step] = archive[step]]}
    BY <1>9 DEF ImportFile
  <2>7. disk'.lists = disk.lists /\ disk'.settings = disk.settings
    BY <2>5, <2>6 DEF Disks
  <2>8. step = "files" => disk'.rulesets = disk.rulesets
    BY <2>5, <2>6 DEF Disks
  <2>9. import'.ok /\ archive[step] # Absent => disk' = [disk EXCEPT ![step] = archive[step]]
    <3>1. Done(FALSE) => ~import'.ok
      <4> SUFFICES ASSUME Done(FALSE) PROVE ~import'.ok
        OBVIOUS
      <4>1. import'.ok = (import.ok /\ FALSE)
        BY <2>1, DoneType
      <4> QED
        BY <4>1
    <3> QED
      BY <1>9, <3>1 DEF ImportFile
  <2>10. import'.ok => disk'.settings = SettingsAt(import.done + 1)
    <3>1. import'.ok => disk.settings = SettingsAt(import.done)
      BY <2>1, <2>3 DEF ProgressInv
    <3>2. /\ ~(import.done <= Len(Lists)) /\ import.done # Len(Lists) + 1
          /\ ~(import.done + 1 <= Len(Lists)) /\ import.done + 1 # Len(Lists) + 1
      BY <2>1
    <3> QED
      BY <2>7, <3>1, <3>2 DEF SettingsAt
  <2>11. import'.ok /\ archive.rulesets # Absent => disk'.rulesets = archive.rulesets
    <3>1. CASE step = "rulesets"
      BY <2>5, <2>9, <3>1 DEF Disks
    <3>2. CASE step = "files"
      <4>1. import.done > Len(Lists) + 2
        BY <2>1, <3>2
      <4> QED
        BY <2>1, <2>3, <2>8, <3>2, <4>1 DEF ProgressInv
    <3> QED
      BY <3>1, <3>2
  <2>12. import.done >= Len(Lists)
    BY <2>1
  <2> QED
    BY <2>1, <2>2, <2>4, <2>7, <2>10, <2>11, <2>12, ProgressPastLists
<1>10. CASE UNCHANGED backupVars
  <2>1. UNCHANGED <<disk, window, archive, import, copy>>
    BY <1>10 DEF backupVars
  <2> QED
    BY <2>1 DEF ProgressInv, Brought, Included, Incoming, SettingsAt, WithArchiveSettings,
                WithArchiveGeo
<1> QED
  BY <1>2, <1>3, <1>4, <1>5, <1>6, <1>7, <1>8, <1>9, <1>10, <1>11 DEF BackupNext

LEMMA ProgressAlways == BackupSpec => []ProgressInv
  BY ProgressInit, ProgressStep, BackupTypeAlways, PTL DEF BackupSpec

\* An import that succeeds has brought what its modes say: from a backup of this installation
\* the lists, settings and rule sets it was made from, and nothing else; and a merge keeps the
\* local items (BackupImporter::importFromStaging, importSettings, importProfiles).
LEMMA ImportApplies ==
  ASSUME BackupTypeInv, OwnInv, ProgressInv, [BackupNext]_backupVars, ImportApplied
  PROVE /\ source # Absent =>
             /\ \A l \in Kinds : import.modes.lists[l] = "replace" =>
                  mem'[l] = WithBuiltIns(l, Load(source.lists[l]))
             /\ SettingsRestored
             /\ source.rulesets # Absent => disk'.rulesets = source.rulesets
        /\ \A l \in Kinds : import.modes.lists[l] = "merge" =>
             \A old \in Range(Load(copy.from.lists[l])) :
               \E item \in Range(mem'[l]) :
                 \/ item.id = old.id
                 \/ l = "subscriptions" /\ item.body = old.body
<1>1. ImportSucceeds
  <2>1. window = "import" /\ window' = "open"
    BY DEF ImportApplied
  <2> QED
    BY <2>1 DEF BackupNext, backupVars, PutItem, RemoveItem, SetActive, WriteSetting, SaveAll, ExportBackup,
      UserActs, OpenImport, CloseImport, BeginImport, ImportList, ImportSettings,
      ImportGeoSettings, ImportFile, ImportFails, Kill, Start
<1>2. /\ window = "import" /\ import.done = Len(Steps) /\ import.ok
      /\ disk \in Disks /\ archive \in Backups /\ copy \in Made /\ import \in Imports
      /\ source \in Disks \cup {Absent}
  BY <1>1 DEF ImportSucceeds, BackupTypeInv, BackupTypeOK
<1>3. /\ \A l \in Kinds : mem'[l] = WithBuiltIns(l, Load(disk.lists[l]))
      /\ \A l \in Managed : active'[l] = Resolved(l, mem'[l], disk.settings.selected[l])
      /\ disk'.settings = [disk.settings EXCEPT !.selected = active']
      /\ disk'.rulesets = disk.rulesets
  BY <1>1, <1>2, LoadAllGives DEF ImportSucceeds
<1>4. /\ Len(Lists) \in Nat
      /\ import.done > Len(Lists) + 2 /\ import.done > Len(Lists)
      /\ \A i \in 1 .. Len(Lists) : i <= import.done
  BY <1>2, StepsAre
<1>5. \A l \in Kinds : disk.lists[l] = Brought(l, copy.from.lists[l])
  <2> SUFFICES ASSUME NEW l \in Kinds PROVE disk.lists[l] = Brought(l, copy.from.lists[l])
    OBVIOUS
  <2>1. PICK i \in 1 .. Len(Lists) : Lists[i] = l
    BY ListsAssumption DEF Kinds, Range
  <2> QED
    BY <1>2, <1>4, <2>1 DEF ProgressInv
<1>6. ASSUME NEW l \in Kinds
      PROVE /\ Incoming(l) \in Seq(Records)
            /\ Load(copy.from.lists[l]) \in Seq(Records)
            /\ copy.from.lists[l] \in ListFile
  <2>1. copy.from.lists[l] \in ListFile
    BY <1>2, DiskParts DEF Made
  <2> QED
    BY <1>2, <2>1, ImportedType, FileTypes
<1>7. ASSUME source # Absent 
      PROVE /\ \A l \in Kinds : import.modes.lists[l] = "replace" =>
                 mem'[l] = WithBuiltIns(l, Load(source.lists[l]))
            /\ SettingsRestored
            /\ source.rulesets # Absent => disk'.rulesets = source.rulesets
  <2>1. PICK withFiles \in BOOLEAN : archive = Staged(source, withFiles)
    BY <1>7 DEF OwnInv
  <2>2. /\ archive.layout = "data"
        /\ archive.settings.selected = source.settings.selected
        /\ archive.settings.keys =
             [key \in Keys |-> IF key \in NotExported THEN Absent ELSE source.settings.keys[key]]
        /\ archive.geo = IF source.settings.keys["geo"] = Absent THEN Default
                         ELSE source.settings.keys["geo"]
        /\ archive.rulesets = source.rulesets
        /\ \A l \in Kinds : Load(archive.lists[l]) = Load(source.lists[l])
    BY <1>2, <1>7, <2>1, DiskParts DEF Staged, Load, Settings
  <2>3. ASSUME NEW l \in Kinds, import.modes.lists[l] = "replace"
        PROVE mem'[l] = WithBuiltIns(l, Load(source.lists[l]))
    <3>1. Incoming(l) = Load(source.lists[l]) /\ Included(l)
      BY <2>2 DEF Incoming, Included
    <3>2. Brought(l, copy.from.lists[l]) = SavedList(WithBuiltIns(l, Incoming(l)))
      BY <2>3, <3>1 DEF Brought
    <3>3. Load(disk.lists[l]) = WithBuiltIns(l, Incoming(l))
      BY <1>5, <1>6, <3>2, ListTypes, FileTypes
    <3>4. WithBuiltIns(l, WithBuiltIns(l, Incoming(l))) = WithBuiltIns(l, Incoming(l))
      BY <1>6, BuiltInsAddedOnce
    <3> QED
      BY <1>3, <3>1, <3>3, <3>4
  <2>4. SettingsRestored
    <3>1. disk.settings = SettingsAt(Len(Lists) + 4)
      BY <1>2, StepsAre DEF ProgressInv
    <3> DEFINE before == copy.from.settings
               set == IF import.modes.settings = "skip" THEN before ELSE WithArchiveSettings(before)
    <3>2. /\ ~(Len(Lists) + 4 <= Len(Lists)) /\ Len(Lists) + 4 # Len(Lists) + 1
          /\ archive.layout # "root"
      BY <1>4, <2>2
    <3>3. disk.settings = WithArchiveGeo(set)
      BY <3>1, <3>2 DEF SettingsAt
    <3>4. before \in Settings /\ set \in Settings
      BY <1>2, DiskParts, SettingsBroughtType DEF Made
    <3>5. set.keys \in [Keys -> Optional] /\ "geo" \in Keys
      BY <3>4 DEF Settings, Keys
    <3> HIDE DEF set
    <3>6. /\ disk.settings.selected = set.selected
          /\ disk.settings.keys["geo"] = archive.geo
          /\ \A key \in Keys \ {"geo"} : disk.settings.keys[key] = set.keys[key]
      BY <3>3, <3>4, <3>5 DEF WithArchiveGeo, Settings
    <3>7. disk'.settings.keys = disk.settings.keys /\ disk'.settings.selected = active'
      BY <1>2, <1>3 DEF Disks, Settings
    <3>8. ASSUME NEW key \in Keys \ {"geo"}
          PROVE set.keys[key] = IF /\ import.modes.settings # "skip"
                                   /\ source.settings.keys[key] # Absent
                                   /\ key \notin NotExported /\ key \notin Skipped(import.modes.settings)
                                THEN source.settings.keys[key] ELSE before.keys[key]
      BY <2>2 DEF set, WithArchiveSettings, SetKeys
    <3>9. set.selected = IF import.modes.settings = "skip" THEN before.selected
                         ELSE source.settings.selected
      BY <2>2 DEF set, WithArchiveSettings
    <3>10. source.settings.keys["geo"] # Absent => archive.geo = source.settings.keys["geo"]
      BY <2>2
    <3>11. \A key \in Keys \ {"geo"} : disk'.settings.keys[key] =
             IF /\ import.modes.settings # "skip"
                /\ source.settings.keys[key] # Absent
                /\ key \notin NotExported /\ key \notin Skipped(import.modes.settings)
             THEN source.settings.keys[key] ELSE before.keys[key]
      BY <3>6, <3>7, <3>8
    <3>12. \A l \in Managed : disk'.settings.selected[l] =
             Resolved(l, mem'[l], IF import.modes.settings = "skip" THEN before.selected[l]
                                  ELSE source.settings.selected[l])
      BY <1>3, <3>6, <3>7, <3>9
    <3>13. source.settings.keys["geo"] # Absent =>
             disk'.settings.keys["geo"] = source.settings.keys["geo"]
      BY <3>6, <3>7, <3>10
    <3> QED
      BY <3>11, <3>12, <3>13 DEF SettingsRestored
  <2>5. source.rulesets # Absent => disk'.rulesets = source.rulesets
    BY <1>2, <1>3, <1>4, <2>2 DEF ProgressInv
  <2> QED
    BY <2>3, <2>4, <2>5
<1>8. ASSUME NEW l \in Kinds, import.modes.lists[l] = "merge",
             NEW old \in Range(Load(copy.from.lists[l]))
      PROVE \E item \in Range(mem'[l]) :
              item.id = old.id \/ (l = "subscriptions" /\ item.body = old.body)
  <2> DEFINE list == Load(disk.lists[l])
             merged == Merged(l, Load(copy.from.lists[l]), Incoming(l))
  <2>1. merged \in Seq(Records)
        /\ \E item \in Range(merged) :
             item.id = old.id \/ (l = "subscriptions" /\ item.body = old.body)
    BY <1>6, <1>8, MergedKeeps
  <2>2. disk.lists[l] = copy.from.lists[l] \/ disk.lists[l] = SavedList(merged)
    BY <1>5, <1>8 DEF Brought
  <2>3. list = Load(copy.from.lists[l]) \/ list = merged
    BY <2>1, <2>2, FileTypes
  <2>4. PICK item \in Range(list) :
          item.id = old.id \/ (l = "subscriptions" /\ item.body = old.body)
    BY <1>8, <2>1, <2>3
  <2>5. item \in Range(WithBuiltIns(l, list))
    <3>1. list \in Seq(Records)
      BY <1>6, <2>1, <2>3
    <3> QED
      BY <2>4, <3>1, ListTypes
  <2> QED
    BY <1>3, <2>4, <2>5
<1> QED
  BY <1>7, <1>8

ImportInv == BackupTypeInv /\ OwnInv /\ ProgressInv

LEMMA ImportAlways == BackupSpec => []ImportInv
  BY BackupTypeAlways, OwnAlways, ProgressAlways, PTL DEF ImportInv

\* An import of a backup of this installation, above all of the pre-import backup after an
\* import that failed or was killed half way, brings back the lists, the settings and the rule
\* sets it was asked for and leaves every other setting as it was (BackupImporter,
\* BackupExporter).
THEOREM BackupAlwaysRestores == BackupSpec => BackupRestores
<1> DEFINE Restored ==
             ImportApplied /\ source # Absent =>
               /\ \A l \in Kinds : import.modes.lists[l] = "replace" =>
                    mem'[l] = WithBuiltIns(l, Load(source.lists[l]))
               /\ SettingsRestored
               /\ source.rulesets # Absent => disk'.rulesets = source.rulesets
<1>1. ImportInv /\ [BackupNext]_backupVars => [Restored]_backupVars
  BY ImportApplies DEF ImportInv
<1> QED
  BY <1>1, ImportAlways, PTL DEF BackupSpec, BackupRestores

\* A merge that succeeds has lost no local item (importProfiles, importSubscriptions,
\* importRouting, importDns).
THEOREM MergeAlwaysKeeps == BackupSpec => MergeKeepsLocal
<1> DEFINE LocalKept ==
             ImportApplied =>
               \A l \in Kinds : import.modes.lists[l] = "merge" =>
                 \A old \in Range(Load(copy.from.lists[l])) :
                   \E item \in Range(mem'[l]) :
                     \/ item.id = old.id
                     \/ l = "subscriptions" /\ item.body = old.body
<1>1. ImportInv /\ [BackupNext]_backupVars => [LocalKept]_backupVars
  BY ImportApplies DEF ImportInv
<1> QED
  BY <1>1, ImportAlways, PTL DEF BackupSpec, MergeKeepsLocal

=====
