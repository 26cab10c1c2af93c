--------------------------- MODULE MCEngineConfig ----------------------------
(* Instances of EngineConfig for TLC. *)
EXTENDS EngineConfig

Value(form, name) == [form |-> form, name |-> name]
GeoRu == Value("geosite", "ru")
GeoCn == Value("geosite", "cn")
GeoNotCn == Value("geosite", "geolocation-!cn")
IpRu == Value("geoip", "ru")
Lan == Value("private", "lan")
Site == Value("name", "site")
Single == Value("single", "443")
Ports == Value("range", "400-499")
Foreign == Value("foreign", "ext")
Torrent == Value("protocol", "bittorrent")
Queries == Value("protocol", "dns")
Gopher == Value("otherProtocol", "gopher")
MCValues == {GeoRu, GeoCn, GeoNotCn, IpRu, Lan, Site, Single, Ports, Foreign,
             Torrent, Queries, Gopher}

MCFlows == {"ru", "cn", "lan", "site", "port", "torrent", "dns"}
MCHits == [v \in MCValues |->
  CASE v \in {GeoRu, IpRu} -> {"ru"}
    [] v \in {GeoCn, Foreign} -> {"cn"}
    [] v = GeoNotCn -> {"ru", "site"}
    [] v = Lan -> {"lan"}
    [] v = Site -> {"site", "ru"}
    [] v = Torrent -> {"torrent"}
    [] v = Queries -> {"dns"}
    [] v = Gopher -> {}
    [] v = Ports -> {"port", "dns"}
    [] OTHER -> {"port", "site"}]

MCTagOf == [v \in {GeoRu, GeoCn, GeoNotCn, IpRu} |->
  CASE v = GeoRu -> "geosite-ru" [] v = GeoCn -> "geosite-cn"
    [] v = IpRu -> "geoip-ru" [] OTHER -> "geosite-not-cn"]
MCCatalog == {"geosite-ru", "geosite-cn"}

Rule(type, action, values) == [on |-> TRUE, type |-> type, action |-> action, values |-> values]
MCRules ==
  {Rule("domain", "direct", {GeoRu, Site}), Rule("domain", "block", {GeoRu}),
   Rule("domain", "proxy", {Site}), Rule("ip", "direct", {IpRu, Lan}),
   Rule("port", "block", {Single}), Rule("port", "direct", {Ports}),
   Rule("domain", "block", {GeoCn, Foreign}),
   Rule("protocol", "block", {Torrent, Queries}), Rule("protocol", "direct", {Torrent, Gopher}),
   [Rule("domain", "block", {Site}) EXCEPT !.on = FALSE]}
Routing(mode, rules) == [mode |-> mode, rules |-> rules]
MCRoutings ==
  {Routing("custom", <<r, q>>) : r \in MCRules, q \in MCRules}
    \cup {Routing("custom", <<>>), Routing("proxyAll", <<>>),
          Routing("proxyAll", <<Rule("domain", "direct", {GeoRu})>>)}
BypassRu == Routing("custom", <<Rule("domain", "direct", {GeoRu}), Rule("ip", "direct", {IpRu})>>)

DnsServer(address, domains) ==
  [on |-> TRUE, kind |-> "plain", address |-> address, domains |-> domains]
Dns(mode, servers) == [on |-> TRUE, mode |-> mode, servers |-> servers]
SystemDns == Dns("system", <<>>)
MCDns ==
  {SystemDns, Dns("china", <<DnsServer(1, <<GeoCn>>)>>), Dns("secure", <<DnsServer(1, <<>>)>>),
   Dns("custom", <<DnsServer(2, <<GeoCn, Site>>), DnsServer(0, <<>>), DnsServer(1, <<>>)>>),
   [Dns("custom", <<DnsServer(1, <<>>)>>) EXCEPT !.on = FALSE]}

Srv(protocol, network, security, has) ==
  [protocol |-> protocol, network |-> network, security |-> security,
   has |-> has \cup {"address"}]
Vless == Srv("vless", "tcp", "reality", {"credential", "key", "sni"})
Filled == {{"credential"}, {"credential", "path"}, {"credential", "method", "key"},
           {"credential", "method", "key", "sni", "service"}, {"credential", "key", "malformed"},
           {"credential", "method", "plugin"}, {}}
MCServers ==
  {Srv(p, n, s, h) : p \in {"vless", "vmess", "trojan"}, n \in Networks, s \in Securities,
                     h \in Filled}
    \cup {Srv(p, "tcp", s, h) : p \in {"shadowsocks", "socks", "hysteria2", "wireguard"},
                                s \in {"none", "other"}, h \in Filled}

Given == {{"credential", "sni"}, {"credential", "method", "path", "plugin"},
          {"credential", "key", "malformed"}, {"method", "key"}}
MCLink(p, n, s, h, on443) ==
  [protocol |-> p, network |-> n, security |-> s, has |-> h \cup {"address"}, port443 |-> on443]
MCLinks ==
  {MCLink(p, n, s, h, FALSE) : p \in {"vless", "vmess"}, n \in {"ws", "raw", Unsaid},
                               s \in {"tls", "reality", Unsaid}, h \in Given}
    \cup {MCLink("trojan", n, s, h, on443) : n \in {"ws", Unsaid}, s \in {"other", Unsaid},
                                             h \in Given, on443 \in BOOLEAN}
    \cup {MCLink(p, Unsaid, Unsaid, h, FALSE) : h \in Given,
             p \in {"shadowsocks", "socks", "hysteria2", "wireguard"}}
\* As imported or read back, and after an edit that fills in nothing, or everything.
MCFromLink(l) ==
  FromLink(l) \cap (ReadBack(Parsed(l)) \cup
                    {Saved(Parsed(l), {}), Saved(Parsed(l), {"key", "sni", "path", "service"})})

Choice(server, routing, dns, strict, hijack, link) ==
  [server |-> server, routing |-> routing, dns |-> dns, strict |-> strict, hijack |-> hijack,
   link |-> link]
Plain == Routing("custom", <<>>)
MCChoices ==
  {Choice(Vless, r, SystemDns, strict, ~strict, None) : r \in MCRoutings, strict \in BOOLEAN}
    \cup {Choice(Vless, BypassRu, d, strict, hijack, None) : d \in MCDns, strict \in BOOLEAN,
                                                            hijack \in BOOLEAN}
    \cup {Choice(s, Plain, SystemDns, FALSE, TRUE, None) : s \in MCServers}
    \cup UNION {{Choice(s, Plain, SystemDns, FALSE, TRUE, l) : s \in MCFromLink(l)} : l \in MCLinks}
=============================================================================
