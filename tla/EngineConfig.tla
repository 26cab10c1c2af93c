---------------------------- MODULE EngineConfig -----------------------------
(* The configurations that Zarya generates for Xray and for the sing-box     *)
(* tunnel out of the server, the active routing profile and the active DNS   *)
(* profile, and the local rule sets that stand in for geo data in the        *)
(* tunnel: RuleSetManager with its dialog, the generators, and the start up  *)
(* to the configuration that the engine is given.                            *)
EXTENDS ShareLink, ListOps

CONSTANTS Flows,      \* kinds of traffic
          DnsFlows,   \* those that are DNS queries
          Hits,       \* value of a rule -> the traffic it stands for
          TagOf,      \* geo value -> tag of its rule set
          Catalog,    \* the tags that Zarya lists, and the dialog can import
          OtherTags,  \* tags that only profiles name
          StartChoices, \* what the user may have selected for a start
          MaxFaults,  \* bound: failed imports and changes by hand
          None

Tags == Catalog \cup OtherTags
Actions == <<"block", "direct", "proxy">>
Rules == [on : BOOLEAN, type : {"domain", "ip", "port", "protocol"}, action : Range(Actions),
          values : SUBSET DOMAIN Hits]
DnsServers == [on : BOOLEAN, kind : {"plain", "fake"}, address : Nat,
               domains : Seq(DOMAIN Hits)]
Geo(v) == v.form \in {"geosite", "geoip"}

ASSUME ChoicesAssumption ==
  \A c \in StartChoices :
    /\ c.server \in Server
    /\ c.link # None => c.link \in Link /\ c.server \in FromLink(c.link)
    /\ c.routing.rules \in Seq(Rules)
    /\ c.dns.mode \in {"system", "secure", "china", "custom"}
    /\ c.dns.servers \in Seq(DnsServers)
    /\ c.hijack \in BOOLEAN

VARIABLES files,   \* tags whose .srs file is in its place
          aside,   \* tags with a .bak file
          items,   \* what the catalog knows about its files
          faults,
          last     \* the attempt to start, None when nothing runs

vars == <<files, aside, items, faults, last>>

-----------------------------------------------------------------------------
(* Routing *)

OfAction(rules, a) == Kept(rules, {r \in Range(rules) : r.action = a})

\* Mutant of Sorted: the rules are taken in the order they are listed.
SortedAsListed(rules) == rules

\* The stable sort of both generators.
Sorted(rules) ==
  OfAction(rules, Actions[1]) \o OfAction(rules, Actions[2]) \o OfAction(rules, Actions[3])

EnabledRules(profile) ==
  Kept(Sorted(profile.rules), {r \in Range(profile.rules) : r.on})

HitsOf(values) == UNION {Hits[v] : v \in values}

RulesInForce(profile) ==
  {profile.rules[i] : i \in {j \in DOMAIN profile.rules : profile.rules[j].on}}

\* The inbounds of Xray do not sniff: nothing ever has the protocol that a rule asks for.
XrayHits(rule) == IF rule.type = "protocol" THEN {} ELSE HitsOf(rule.values)

XrayRules(profile) ==
  LET rules == Kept(EnabledRules(profile), {r \in Range(profile.rules) : r.values # {}})
  IN [i \in DOMAIN rules |-> [matches |-> XrayHits(rules[i]), outbound |-> rules[i].action]]
     \o <<[matches |-> Flows, outbound |-> "proxy"]>>

Decision(rules, f, final) ==
  LET hit == {i \in DOMAIN rules : f \in rules[i].matches}
  IN IF hit = {} THEN final
     ELSE rules[CHOOSE i \in hit : \A j \in hit : i <= j].outbound

\* The values that the translation to sing-box does not drop.
Translated(rule) ==
  {v \in rule.values :
     CASE rule.type = "domain" -> v.form \in {"geosite", "name"}
       [] rule.type = "port" -> v.form = "single"
       [] OTHER -> TRUE}

\* A geo value of a rule of its type names a rule set; in another rule it is taken literally.
NamesRuleSet(rule, v) ==
  \/ rule.type = "domain" /\ v.form = "geosite"
  \/ rule.type = "ip" /\ v.form = "geoip"

\* "ctx.local": the tags that the generator may refer to.
SingBoxRule(rule, ctx) ==
  LET geo == {v \in Translated(rule) : NamesRuleSet(rule, v)}
  IN [matches |-> HitsOf(Translated(rule)), outbound |-> rule.action,
      ruleSets |-> {TagOf[v] : v \in geo} \cap ctx.local,
      native |-> {v \in geo : TagOf[v] \notin ctx.local}]

SingBoxRules(profile, ctx) ==
  IF profile.mode = "proxyAll" THEN <<>> ELSE
  LET rules == Kept(EnabledRules(profile), {r \in Range(profile.rules) : Translated(r) # {}})
  IN [i \in DOMAIN rules |-> SingBoxRule(rules[i], ctx)]

\* The values of a rule that the validator of routing profiles does not expect in its type.
Unusual(rule) ==
  {v \in rule.values :
     CASE rule.type = "ip" -> v.form \notin {"geoip", "private", "cidr"}
       [] rule.type = "port" -> v.form \notin {"single", "range"}
       [] rule.type = "protocol" -> FALSE
       [] OTHER -> v.form \in {"geoip", "private", "single", "range", "protocol"}}

\* The protocols that the translation to sing-box passes on without knowing them.
UnknownProtocols(rule) ==
  {v \in rule.values : rule.type = "protocol" /\ v.form # "protocol"}

\* Values that the validator or the translation to sing-box remarks on.
Remarks(profile) ==
  UNION {(r.values \ Translated(r)) \cup Unusual(r) \cup UnknownProtocols(r) :
           r \in RulesInForce(profile)}

\* "private" is a tag of geoip, too, and a "foreign" value names a geo file itself.
GeoTags(profile) ==
  {v \in UNION {r.values : r \in RulesInForce(profile)} : Geo(v) \/ v.form \in {"private", "foreign"}}

-----------------------------------------------------------------------------
(* DNS *)

\* The address is 0 when it is empty.
Usable(s) == s.on /\ s.kind # "fake" /\ s.address # 0
Servers(dns) == Kept(dns.servers, {s \in Range(dns.servers) : Usable(s)})
Addresses(servers) == [i \in DOMAIN servers |-> servers[i].address]

XrayDns(dns) ==
  IF dns.on /\ dns.mode # "system" THEN Addresses(Servers(dns)) ELSE <<>>

\* The rules of the fixed modes name rule sets, those of a custom profile never do; of the
\* domains of a server only the first is kept.
SingBoxDns(dns, ctx) ==
  IF ~dns.on THEN [servers |-> <<>>, ruleSets |-> {}, native |-> {}] ELSE
  CASE dns.mode = "china" ->
         LET geo == {[form |-> "geosite", name |-> n] : n \in {"cn", "geolocation-!cn"}}
         IN [servers |-> <<"local-cn", "remote">>,
             ruleSets |-> {TagOf[v] : v \in geo} \cap ctx.local,
             native |-> {v \in geo : TagOf[v] \notin ctx.local}]
    [] dns.mode = "secure" ->
         [servers |-> <<"remote-1", "remote-2">>, ruleSets |-> {}, native |-> {}]
    [] dns.mode = "system" -> [servers |-> <<"local">>, ruleSets |-> {}, native |-> {}]
    [] dns.mode = "custom" ->
         [servers |-> Addresses(Servers(dns)), ruleSets |-> {},
          native |-> {Servers(dns)[i].domains[1] :
                        i \in {j \in DOMAIN Servers(dns) : /\ Servers(dns)[j].domains # <<>>
                                                           /\ Geo(Servers(dns)[j].domains[1])}}]

ServersInForce(dns) == {s \in Range(dns.servers) : s.on}

GeoReferences(dns) ==
  {v \in UNION {Range(s.domains) : s \in ServersInForce(dns)} : Geo(v) \/ v.form = "private"}

\* DnsValidator; how an address is written is not modelled.
DnsWarned(dns) ==
  \/ dns.on /\ dns.mode # "system" /\ Servers(dns) = <<>>
  \/ \E s \in ServersInForce(dns) :
       s.address = 0 \/ \E v \in Range(s.domains) : v.form \notin {"geosite", "name"}

-----------------------------------------------------------------------------
(* Rule sets *)

\* Mutant of Required: disabled rules count, and the DNS profile does not.
RequiredByRules(routing, dns) ==
  {TagOf[v] : v \in {w \in UNION {r.values : r \in {routing.rules[i] : i \in
                       DOMAIN routing.rules}} : Geo(w)}}

\* RequiredRuleSetDetector: whatever the mode of the routing profile, and of a DNS profile
\* whether it is enabled or not.
Required(routing, dns) ==
  LET ruleValues == UNION {r.values : r \in {routing.rules[i] : i \in
                             {j \in DOMAIN routing.rules : routing.rules[j].on}}}
      onServers == {s \in {dns.servers[i] : i \in DOMAIN dns.servers} : s.on}
      dnsValues == UNION {{s.domains[i] : i \in DOMAIN s.domains} : s \in onServers}
      china == IF dns.mode = "china"
               THEN {[form |-> "geosite", name |-> n] : n \in {"cn", "geolocation-!cn"}} ELSE {}
  IN {TagOf[v] : v \in {w \in ruleValues \cup dnsValues \cup china : Geo(w)}}

\* The catalog answers for its own tags from what it remembers.
Available(t) == IF t \in Catalog THEN items[t] = "present" ELSE t \in files

\* RuleSetManager::buildContext.
Context(routing, dns, strict) ==
  [local |-> {t \in Required(routing, dns) : Available(t)}, strict |-> strict]

\* What the backend of the tunnel generates with.
BackendContext == [local |-> {}, strict |-> FALSE]

\* Before every rule of the profile, whatever its mode.
HijackRules(hijack) ==
  IF hijack THEN <<[matches |-> DnsFlows, outbound |-> "hijack", ruleSets |-> {}, native |-> {}]>>
            ELSE <<>>

SingBoxConfig(server, routing, dns, hijack, ctx) ==
  LET rules == SingBoxRules(routing, ctx)
      dnsPart == SingBoxDns(dns, ctx)
      routeSets == UNION {rules[i].ruleSets : i \in DOMAIN rules}
  IN [outbound |-> SingBoxOutbound(server), route |-> HijackRules(hijack) \o rules,
      dns |-> dnsPart, declared |-> routeSets \cup dnsPart.ruleSets,
      missing |-> IF ctx.strict THEN {TagOf[v] : v \in UNION {rules[i].native : i \in DOMAIN rules}}
                                ELSE {}]

-----------------------------------------------------------------------------
(* Actions *)

ItemStatuses == {"present", "missing", "compileFailed"}

EngineTypeOK ==
  /\ files \subseteq Tags
  /\ aside \subseteq Catalog
  /\ items \in [Catalog -> ItemStatuses]
  /\ faults \in 0 .. MaxFaults
  /\ last = None \/ last.verdict \in {"refused", "started"}

\* RuleSetManager::reload: the catalog as the folder is.
Reloaded(present) == [t \in Catalog |-> IF t \in present THEN "present" ELSE "missing"]

EngineInit ==
  /\ files \in SUBSET Tags
  /\ aside = {}
  /\ items = Reloaded(files)
  /\ faults = 0
  /\ last = None

Fault == faults < MaxFaults /\ faults' = faults + 1

\* The old file is set aside, then the chosen one is copied.
ImportSrs(t) ==
  /\ files' = files \cup {t}
  /\ aside' = IF t \in files THEN aside \cup {t} ELSE aside
  /\ items' = Reloaded(files')
  /\ UNCHANGED <<faults, last>>

\* The copy fails, as it does of a file chosen from its own place: the old file stays aside.
\* Or the old file cannot be set aside, and the copy fails because it is there.  Nobody reads
\* the folder again.
ImportSrsFails(t) ==
  /\ Fault
  /\ \/ /\ files' = files \ {t}
        /\ aside' = IF t \in files THEN aside \cup {t} ELSE aside
     \/ /\ t \in files
        /\ files' = files
        /\ aside' \in {aside, aside \ {t}}
  /\ UNCHANGED <<items, last>>

CompileJson(t) ==
  /\ files' = files \cup {t}
  /\ items' = Reloaded(files')
  /\ UNCHANGED <<aside, faults, last>>

\* The helper refuses the source, or fails to write and removes the file.
CompileJsonFails(t) ==
  /\ Fault
  /\ files' \in {files, files \ {t}}
  /\ items' = [items EXCEPT ![t] = "compileFailed"]
  /\ UNCHANGED <<aside, last>>

CheckStatus ==
  /\ items # Reloaded(files)
  /\ items' = Reloaded(files)
  /\ UNCHANGED <<files, aside, faults, last>>

\* In the folder that the dialog opens.
ChangeByHand(t) ==
  /\ Fault
  /\ files' = IF t \in files THEN files \ {t} ELSE files \cup {t}
  /\ UNCHANGED <<aside, items, last>>

Refused(engine, c) == [engine |-> engine, choice |-> c, verdict |-> "refused"]

TunRefuses(c, ctx, shown) ==
  \/ ~SingBoxSupports(c.server)
  \/ c.strict /\ ~(Required(c.routing, c.dns) \subseteq ctx.local)
  \/ shown.outbound = NoOutbound
  \/ shown.missing # {}

\* generateSingBoxTunConfig.
Preview(c) ==
  SingBoxConfig(c.server, c.routing, c.dns, c.hijack, Context(c.routing, c.dns, c.strict))

\* The user confirms the configuration of the controller, and the backend generates the one
\* that the helper is given.
StartTun(c) ==
  LET ctx == Context(c.routing, c.dns, c.strict)
      shown == Preview(c)
  IN /\ last = None
     /\ last' = IF TunRefuses(c, ctx, shown) THEN Refused("tun", c)
                ELSE [engine |-> "tun", choice |-> c, verdict |-> "started", shown |-> shown,
                      config |-> SingBoxConfig(c.server, c.routing, c.dns, c.hijack, BackendContext)]
     /\ UNCHANGED <<files, aside, items, faults>>

XrayConfig(server, routing, dns) ==
  [outbound |-> XrayOutbound(server), route |-> XrayRules(routing), dns |-> XrayDns(dns)]

StartXray(c) ==
  LET config == XrayConfig(c.server, c.routing, c.dns)
  IN /\ last = None
     /\ last' = IF ~XraySupports(c.server) \/ config.outbound = NoOutbound
                THEN Refused("xray", c)
                ELSE [engine |-> "xray", choice |-> c, verdict |-> "started", config |-> config]
     /\ UNCHANGED <<files, aside, items, faults>>

\* What a start asks the user about first.  Whether geo files are missing is not
\* modelled, and a configuration nearly always has warnings: these questions may always come.
AsksAboutGeoData(routing) == GeoTags(routing) # {}
AsksAboutDnsGeoData(dns) == GeoReferences(dns) # {}
AsksAboutDns(routing, dns) ==
  DnsWarned(dns) \/ (GeoTags(routing) # {} /\ dns.mode = "system")
AsksAboutConfig(shown) == shown.outbound # NoOutbound /\ shown.missing = {}
AsksAboutProfiles(c) ==
  AsksAboutGeoData(c.routing) \/ AsksAboutDnsGeoData(c.dns) \/ AsksAboutDns(c.routing, c.dns)

CancelTun(c) ==
  /\ last = None
  /\ SingBoxSupports(c.server)
  /\ AsksAboutProfiles(c) \/ AsksAboutConfig(Preview(c))
  /\ last' = Refused("tun", c)
  /\ UNCHANGED <<files, aside, items, faults>>

\* Only Xray asks about unusual values; the tunnel logs them.
CancelXray(c) ==
  /\ last = None
  /\ XraySupports(c.server)
  /\ AsksAboutProfiles(c) \/ \E r \in RulesInForce(c.routing) : Unusual(r) # {}
  /\ last' = Refused("xray", c)
  /\ UNCHANGED <<files, aside, items, faults>>

\* The user stops the engine, or closes the message that it did not start.
Stop ==
  /\ last # None
  /\ last' = None
  /\ UNCHANGED <<files, aside, items, faults>>

EngineNext ==
  \/ \E t \in Catalog : ImportSrs(t) \/ ImportSrsFails(t) \/ CompileJson(t) \/ CompileJsonFails(t)
  \/ \E t \in Tags : ChangeByHand(t)
  \/ CheckStatus
  \/ Stop
  \/ \E c \in StartChoices : StartTun(c) \/ StartXray(c) \/ CancelTun(c) \/ CancelXray(c)

EngineSpec == EngineInit /\ [][EngineNext]_vars

-----------------------------------------------------------------------------
(* Properties *)

Started(engine) == last # None /\ last.engine = engine /\ last.verdict = "started"

\* What a routing profile means: "Proxy All" sends everything to the proxy, and otherwise block
\* wins over direct, and direct over proxy, in whatever order the enabled rules are listed.
Meant(profile, f) ==
  LET wanted == {profile.rules[i].action :
                   i \in {j \in DOMAIN profile.rules : /\ profile.rules[j].on
                                                       /\ f \in HitsOf(profile.rules[j].values)}}
  IN IF profile.mode = "proxyAll" THEN "proxy"
     ELSE IF "block" \in wanted THEN "block" ELSE IF "direct" \in wanted THEN "direct" ELSE "proxy"

Sniffed(profile) ==
  HitsOf(UNION {r.values : r \in {q \in RulesInForce(profile) : q.type = "protocol"}})

Hijacked(c) == IF c.hijack THEN DnsFlows ELSE {}

\* Both engines send traffic where the active routing profile means it to go.  Xray: except
\* what a protocol rule speaks of, and a "Proxy All" profile must have no rules in force.  The
\* tunnel: hijacked DNS before every rule, and all the rest, unless a remark in the log or in
\* a dialog names a value that is dropped or unusual.  And the tunnel asks the same servers of
\* a custom DNS profile as Xray (XrayRoutingGenerator::generate,
\* SingBoxRouteGenerator::generateRoute, appendDnsHijackRoute, generateDns).
EnginesAgree ==
  last # None /\ last.verdict = "started" =>
    LET c == last.choice
        To(f) == Decision(last.config.route, f, "proxy")
    IN /\ Started("xray") /\ (c.routing.mode = "proxyAll" => RulesInForce(c.routing) = {}) =>
            \A f \in Flows \ Sniffed(c.routing) : To(f) = Meant(c.routing, f)
       /\ Started("tun") => \A f \in Hijacked(c) : To(f) = "hijack"
       /\ Started("tun") /\ (c.routing.mode = "proxyAll" \/ Remarks(c.routing) = {}) =>
            \A f \in Flows \ Hijacked(c) : To(f) = Meant(c.routing, f)
       /\ Started("tun") /\ c.dns.mode = "custom" =>
            last.config.dns.servers = XrayDns(c.dns)

\* The tags of all the geo data that a configuration for the tunnel names, as a rule set or
\* natively.
TagsNamed(config) ==
  config.declared \cup
    {TagOf[v] : v \in config.dns.native \cup
                         UNION {config.route[i].native : i \in DOMAIN config.route}}

\* The strict mode, of both configurations of a start.  What the user confirms takes no route
\* from native geo data, no fixed DNS mode either.  And whatever the confirmed and the started
\* one name is on the disk as a rule set, unless an import failed or the folder was changed by
\* hand: the detector finds every tag that the generators come across, in DNS servers, too.
\* The started one still names all of it natively, since the backend generates without the
\* rule sets (RequiredRuleSetDetector::detect, SingBoxRouteGenerator matchersToRule,
\* SingBoxTunRuntimeBackend::buildTunConfig).
StrictIsLocal ==
  Started("tun") /\ last.choice.strict =>
    /\ \A i \in DOMAIN last.shown.route : last.shown.route[i].native = {}
    /\ last.choice.dns.mode # "custom" => last.shown.dns.native = {}
    /\ faults = 0 => TagsNamed(last.shown) \cup TagsNamed(last.config) \subseteq files

\* A server that asks for TLS or REALITY is never reached without: a start is refused, or the
\* outbound is encrypted.  Xray is given the transport of the server, too
\* (XrayStreamSettings::generate, SingBoxConfigGenerator::buildProxyOutbound).
OutboundIsMeant ==
  last # None /\ last.verdict = "started" =>
    LET s == last.choice.server
    IN /\ (Streamed(s) \/ s.protocol = "hysteria2") /\ s.security \in {"tls", "reality"} =>
            last.config.outbound.security # "none"
       /\ Started("xray") /\ Streamed(s) => last.config.outbound.network = Network(s)

\* A server that came from a link is reached the way the link asks, with TLS, or with REALITY
\* because it says so or gives a key, and by Xray over the transport of the link; a feature
\* that no engine has is not silently dropped, as long as the server is as imported
\* (ShareLinkParser::parse, ProfileDialog::profileFromFields, the support checks of the engines).
LinkIsMeant ==
  last # None /\ last.verdict = "started" /\ last.choice.link # None =>
    LET l == last.choice.link
    IN /\ l.protocol \in {"vless", "vmess", "trojan"} =>
            /\ Asked(l) # "nothing" => last.config.outbound.security = Asked(l)
            /\ Started("xray") /\ l.network # "other" =>
                 last.config.outbound.network =
                   IF l.network \in {"raw", Unsaid} THEN "tcp" ELSE l.network
       /\ last.choice.server \in ReadBack(Parsed(l)) =>
            l.has \cap {"plugin"} = {} \/ l.protocol \notin {"shadowsocks", "hysteria2"}

=============================================================================
