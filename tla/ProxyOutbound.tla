---------------------------- MODULE ProxyOutbound ----------------------------
(* What the two engines make of a server: whether they take it, and the      *)
(* outbound that the generated configuration sends the proxied traffic to.   *)
(* A server is what the window holds of it, which an edit, an import or a    *)
(* subscription may have left incomplete.                                    *)
EXTENDS Naturals

CONSTANT NoOutbound

Protocols == {"vless", "vmess", "trojan", "shadowsocks", "socks", "hysteria2", "wireguard"}
\* "raw" is the other name of "tcp", and stands for no network given.
Networks == {"tcp", "raw", "ws", "grpc", "other"}
Securities == {"none", "tls", "reality", "other"}
\* "malformed": obfuscation without its password, reserved bytes that are not three.
\* "plugin": the import noted a feature that no engine has.
Fields == {"address", "credential", "method", "key", "sni", "path", "service",
           "malformed", "plugin"}

Server == [protocol : Protocols, network : Networks, security : Securities,
           has : SUBSET Fields]

Has(s, fields) == fields \subseteq s.has
Network(s) == IF s.network = "raw" THEN "tcp" ELSE s.network
Streamed(s) == s.protocol \in {"vless", "vmess", "trojan"}

-----------------------------------------------------------------------------
(* Xray *)

GrpcNamed(s) == s.has \cap {"service", "path"} # {}

XrayTakesStreamed(s) ==
  /\ s.network # "other"
  /\ CASE s.protocol = "vless" ->
            \/ s.security = "reality" /\ Network(s) = "tcp" /\ Has(s, {"key", "sni"})
            \/ s.security = "tls"
            \/ s.security = "none" /\ Network(s) = "tcp"
       [] s.protocol = "vmess" ->
            /\ s.security # "reality"
            /\ Has(s, {"credential"})
            /\ s.network = "ws" => Has(s, {"path"})
            /\ s.network = "grpc" => GrpcNamed(s)
       [] s.protocol = "trojan" ->
            /\ Has(s, {"credential"})
            /\ IF s.security = "reality" THEN Network(s) = "tcp" /\ Has(s, {"key"})
                                         ELSE s.network = "ws" => Has(s, {"path"})

\* The protocols that have a transport of their own, or none.
XrayTakesPlain(s) ==
  CASE s.protocol = "shadowsocks" -> Has(s, {"method", "credential"})
    [] s.protocol = "socks" -> Has(s, {"address"})
    [] s.protocol = "hysteria2" -> Has(s, {"credential"}) /\ s.security \in {"tls", "none"}
    [] s.protocol = "wireguard" -> Has(s, {"credential", "key"})

XraySupports(s) ==
  /\ Has(s, {"address"})
  /\ "plugin" \notin s.has
  /\ IF Streamed(s) THEN XrayTakesStreamed(s) ELSE XrayTakesPlain(s)

\* The transport and the security layer of the stream settings can be built.
StreamSettingsOK(s) ==
  /\ s.network # "other"
  /\ s.network = "grpc" => GrpcNamed(s)
  /\ s.security # "other"
  /\ s.security = "reality" => s.network # "ws" /\ Has(s, {"key", "sni"})

Outbound(network, security) == [network |-> network, security |-> security]

\* generateWireGuardOutbound: both keys again, and reserved bytes, if any, are three.
WireGuardOutbound(s) ==
  IF ~Has(s, {"credential", "key"}) \/ "malformed" \in s.has
  THEN NoOutbound ELSE Outbound("tcp", "none")

XrayOutbound(s) ==
  CASE Streamed(s) ->
         IF StreamSettingsOK(s) THEN Outbound(Network(s), s.security) ELSE NoOutbound
    [] s.protocol = "hysteria2" ->
         IF "malformed" \in s.has THEN NoOutbound ELSE Outbound("hysteria", "tls")
    [] s.protocol = "wireguard" -> WireGuardOutbound(s)
    [] OTHER -> Outbound("tcp", "none")

-----------------------------------------------------------------------------
(* sing-box, for the tunnel *)

SingBoxSupports(s) ==
  CASE s.protocol = "vless" ->
         s.security = "reality" /\ s.network = "tcp" /\ Has(s, {"credential", "key", "sni"})
    [] s.protocol = "trojan" -> s.security = "tls" /\ Has(s, {"credential"})
    [] s.protocol = "shadowsocks" -> "plugin" \notin s.has /\ Has(s, {"method", "credential"})
    [] s.protocol = "vmess" -> s.security # "reality" /\ Has(s, {"credential"})
    [] s.protocol = "hysteria2" -> "plugin" \notin s.has /\ Has(s, {"credential"})
    [] OTHER -> FALSE

\* Mutant of SingBoxOutbound: VMess always goes without TLS.
SingBoxOutboundWithoutTls(s) ==
  CASE s.protocol = "vless" -> Outbound("tcp", "reality")
    [] s.protocol = "trojan" -> Outbound("tcp", "tls")
    [] OTHER -> Outbound("tcp", "none")

\* Whatever the network of the server, none but hysteria2 gets a transport.
SingBoxOutbound(s) ==
  CASE s.protocol = "vless" -> Outbound("tcp", "reality")
    [] s.protocol = "vmess" -> Outbound("tcp", IF s.security = "tls" THEN "tls" ELSE "none")
    [] s.protocol = "trojan" -> Outbound("tcp", "tls")
    [] s.protocol = "hysteria2" ->
         IF "malformed" \in s.has THEN NoOutbound ELSE Outbound("hysteria", "tls")
    [] OTHER -> Outbound("tcp", "none")

=============================================================================
