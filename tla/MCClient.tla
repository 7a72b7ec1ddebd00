------------------------------ MODULE MCClient ------------------------------
(***************************************************************************)
(* A few requests and notifications; command lines made of enough words to *)
(* reach every command with options; two programs.                         *)
(***************************************************************************)
EXTENDS Client

MCWords ==
  {"show", "sh", "neighbors", "p", "ports", "eth0", "summary", "hidden",
   "configure", "unconfigure", "system", "hostname", "description",
   "interface", "pattern", "help", "complete", "pause", "update", "lldp",
   "tx-hold", "portidsubtype", "ifname", "med", "fast-start", "location",
   "coordinate", "latitude", "longitude", "altitude", "m", "datum", "WGS84",
   "address", "country", "street", "elin", "policy", "application", "voice",
   "voi", "unknown", "vlan", "dscp", "priority", "video", "high", "power",
   "pd", "ps", "pse", "source", "primary", "prim", "value", "dot3",
   "supported", "powerpairs", "signal", "type", "2", "requested", "allocated"}

\* Beginnings that are unambiguous here and ambiguous there; "voice" and "power"
\* are keywords and beginnings of others.
MCBegins ==
  [w \in MCWords \cup {NEWLINE} |->
     CASE w = "sh" -> {"show"}
       [] w = "p" -> {"pause", "ports", "protocol", "pattern", "promiscuous", "platform",
                      "portidsubtype", "policy", "priority", "primary", "pse", "power",
                      "pd", "paircontrol", "powerpairs"}
       [] w = "m" -> {"management", "macaddress", "med"}
       [] w = "voice" -> {"voice-signaling"}
       [] w = "voi" -> {"voice", "voice-signaling"}
       [] w = "power" -> {"powerpairs"}
       [] w = "ps" -> {"pse"}
       [] w = "prim" -> {"primary"}
       [] OTHER -> {}]

\* Settings of every kind, some of which the setters refuse.
MCPortSets ==
  {[NoPolicy EXCEPT !.type = 1],
   [NoLocation EXCEPT !.format = 2, !.elements = {0}],
   [NoLocation EXCEPT !.format = 2, !.elements = {19}],
   [NoPower EXCEPT !.devicetype = PSE, !.source = 2],
   [NoPower EXCEPT !.devicetype = PD, !.source = 5],
   [NoDot3 EXCEPT !.devicetype = PD, !.pairs = 1]}

\* A negative interval asks for a round at once.
MCNumbers == {-2, 5}
=============================================================================
