------------------------------ MODULE ShareLink ------------------------------
(* How a share link becomes a server: ShareLinkParser, and the server dialog *)
(* that shows what was imported and saves what its fields can hold, and the  *)
(* file of the servers.                                                      *)
EXTENDS ProxyOutbound

\* What a link may leave to the defaults of its scheme.
Unsaid == "unsaid"

\* "has": the parameters that the link gives.  "plugin" is a feature no engine has, "malformed"
\* an obfuscation without its password or reserved bytes that are not three.
Link == [protocol : Protocols, network : Networks \cup {Unsaid},
         security : Securities \cup {Unsaid}, has : SUBSET Fields, port443 : BOOLEAN]

\* The schemes that the parser names are more than it parses.
Complete(l) ==
  /\ "address" \in l.has
  /\ CASE l.protocol = "socks" -> FALSE
       [] l.protocol = "shadowsocks" -> "method" \in l.has
       [] l.protocol = "wireguard" -> {"credential", "key"} \subseteq l.has
       [] OTHER -> "credential" \in l.has

\* The parameters that are looked at; the gRPC service is read from no link.
Read(l) ==
  CASE l.protocol = "vmess" -> {"address", "credential", "sni", "path"}
    [] l.protocol = "shadowsocks" -> {"address", "credential", "method", "plugin"}
    [] OTHER -> Fields \ {"service", "method", "plugin"}

\* "plugin": the parser notes why the server cannot be used.
Noted(l) ==
  IF l.protocol = "hysteria2" /\ l.has \cap {"plugin", "malformed"} # {} THEN {"plugin"} ELSE {}

\* The host, or the address, is taken for the name that a VMess link with TLS leaves out.
Inferred(l) == IF l.protocol = "vmess" /\ l.security = "tls" THEN {"sni"} ELSE {}

ParsedSecurity(l) ==
  CASE l.protocol = "shadowsocks" -> "none"
    [] l.protocol # "shadowsocks" /\ l.security # Unsaid -> l.security
    [] OTHER -> CASE l.protocol \in {"vless", "trojan"} /\ "key" \in l.has -> "reality"
                  [] l.protocol = "trojan" /\ "key" \notin l.has /\ l.port443 -> "tls"
                  [] l.protocol = "hysteria2" -> "tls"
                  [] OTHER -> "none"

ParsedNetwork(l) ==
  CASE l.network # Unsaid -> l.network
    [] l.network = Unsaid /\ l.protocol \in {"hysteria2", "wireguard"} -> "other"
    [] OTHER -> "tcp"

\* Mutant of Parsed: nothing is inferred from the key or the port.
ParsedAsSaid(l) ==
  [protocol |-> l.protocol, network |-> ParsedNetwork(l),
   security |-> IF l.security = Unsaid THEN "none" ELSE l.security,
   has |-> (l.has \cap Read(l)) \cup Noted(l) \cup Inferred(l)]

Parsed(l) ==
  [protocol |-> l.protocol, network |-> ParsedNetwork(l), security |-> ParsedSecurity(l),
   has |-> (l.has \cap Read(l)) \cup Noted(l) \cup Inferred(l)]

-----------------------------------------------------------------------------
(* The server dialog *)

\* Selectors fall back to their first item; there is no field for the obfuscation and none for
\* the import note, and the method takes the place of an empty VLESS encryption.
Saved(s, filled) ==
  [protocol |-> s.protocol,
   network |-> IF s.network \in {"ws", "grpc"} THEN s.network ELSE "tcp",
   security |-> IF s.security = "other" THEN "none" ELSE s.security,
   has |-> (s.has \ {"malformed", "plugin"}) \cup {"method"} \cup filled]

DialogTakes(s) ==
  /\ Has(s, {"address"})
  /\ CASE s.protocol = "vless" ->
            /\ Has(s, {"credential"})
            /\ s.security = "reality" => Has(s, {"key", "sni"}) /\ Network(s) = "tcp"
            /\ s.security = "tls" => Has(s, {"sni"})
       [] s.protocol \in {"vmess", "trojan", "hysteria2"} -> Has(s, {"credential"})
       [] s.protocol = "shadowsocks" -> Has(s, {"method", "credential"})
       [] s.protocol = "wireguard" -> Has(s, {"credential", "key"})
       [] s.protocol = "socks" -> TRUE

\* The dialog can be opened again on what it saved.
Edited(s) ==
  {t \in {Saved(s, filled) : filled \in SUBSET {"key", "sni", "path", "service"}} : DialogTakes(t)}

\* What a later start reads back from profiles.json: an empty network comes back as TCP.
ReadBack(s) ==
  IF s.network = "raw" THEN {s, [s EXCEPT !.network = "tcp"]} ELSE {s}

\* The server that a link gives, as imported or read back, and after an edit.
FromLink(l) ==
  IF Complete(l) THEN ReadBack(Parsed(l)) \cup Edited(Parsed(l)) ELSE {}

\* The security that a link asks for.  A key says REALITY.
Asked(l) ==
  CASE l.security \in {"tls", "reality"} -> l.security
    [] l.security = Unsaid /\ l.protocol \in {"vless", "trojan"} /\ "key" \in l.has -> "reality"
    [] OTHER -> "nothing"

=============================================================================
