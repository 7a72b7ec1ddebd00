------------------------------ MODULE CdpCodec ------------------------------
(***************************************************************************)
(* CDP, versions 1 and 2, and FDP: what cdp_send writes for a system and   *)
(* what cdp_decode makes of a frame.  Version 0 stands for FDP, as in the  *)
(* code.  A frame has its header fields and a sequence of TLVs; the value  *)
(* of a string is its length and its content.                              *)
(***************************************************************************)
EXTENDS NeighborFrames

Empty == [len |-> 0, text |-> ""]

Text(s) == IF s = Null THEN Empty ELSE s

\* POKE_START_CDP_TLV and POKE_END_CDP_TLV: the size counts the header.
CdpTlv(type, len, value) == [type |-> type, size |-> (4 + len) % 2^16, value |-> value]

Ipv4(addresses) == SelectSeq(addresses, LAMBDA a : a.family = "ipv4")

\* The address: protocol of one byte, IP, and four bytes.
CdpAddress(a) == [ptype |-> 1, plen |-> 1, proto |-> 204, alen |-> 4, addr |-> a.addr]

CdpAddresses(l) ==
  LET all == Ipv4(l.addresses) IN
  IF all = <<>> THEN <<>>
  ELSE <<CdpTlv("addresses", 4 + 9 * Len(all), [i \in DOMAIN all |-> CdpAddress(all[i])])>>

\* Bits of an integer with CDP, a word with FDP.
FdpWord(caps) ==
  IF "router" \in caps THEN "Router"
  ELSE IF "bridge" \in caps THEN "Switch"
  ELSE IF "repeater" \in caps THEN "Bridge"
  ELSE "Host"

CdpCapabilities(l, version) ==
  IF version # 0
  THEN CdpTlv("capabilities", 4, 16 + (IF "router" \in l.caps THEN 1 ELSE 0)
                                    + (IF "bridge" \in l.caps THEN 8 ELSE 0))
  ELSE CdpTlv("capabilities", IF FdpWord(l.caps) = "Host" THEN 4 ELSE 6, FdpWord(l.caps))

CdpNativeVlan(l, version) ==
  IF version >= 2 /\ l.pvid # 0 THEN <<CdpTlv("nativevlan", 2, l.pvid)>> ELSE <<>>

\* Power that fits two bytes of milliwatts.
CdpPower(l, version) ==
  IF version >= 2 /\ l.power.med /\ l.power.source # "local" /\ l.power.val \in 1..655
  THEN <<CdpTlv("power", 2, l.power.val * 100)>> ELSE <<>>

CdpTlvs(l, version) ==
  <<CdpTlv("chassis", Text(l.name).len, Text(l.name))>> \o CdpAddresses(l)
    \o <<CdpTlv("port", Text(l.portdescr).len, Text(l.portdescr)), CdpCapabilities(l, version)>>
    \o CdpNativeVlan(l, version)
    \o <<CdpTlv("software", Text(l.descr).len, Text(l.descr)),
         CdpTlv("platform", l.platform.len, l.platform)>>
    \o CdpPower(l, version)

\* Ethernet, LLC and CDP header, and the TLVs.
CdpLength(tlvs) == 14 + 8 + 4 + FoldLeft(LAMBDA n, t : n + t.size, 0, tlvs)

\* The frame, or nothing if it does not fit.
CdpSend(l, version, mtu) ==
  LET tlvs == CdpTlvs(l, version) IN
  IF CdpLength(tlvs) > mtu THEN <<>>
  ELSE <<[dst |-> IF version = 0 THEN "fdp" ELSE "cdp", pid |-> "cdp",
          version |-> IF version = 0 THEN 1 ELSE version,
          ttl |-> l.ttl % 256, length |-> CdpLength(tlvs), tlvs |-> tlvs]>>

-----------------------------------------------------------------------------
\* cdp_decode.

\* The addresses: every one has to fit what is left of the TLV, and the IPv4 ones
\* are kept.
CdpReadAddress(st, a) ==
  LET left == st.left - 2 IN
  IF ~st.ok \/ st.left < 2 \/ left < a.plen + 2 \/ left - a.plen - 2 < a.alen
  THEN [st EXCEPT !.ok = FALSE]
  ELSE [st EXCEPT !.left = left - a.plen - 2 - a.alen,
                  !.mgmt = IF a.ptype = 1 /\ a.plen = 1 /\ a.proto = 204 /\ a.alen = 4
                           THEN Append(@, a.addr) ELSE @]

CdpReadAddresses(t) ==
  FoldLeft(CdpReadAddress, [ok |-> TRUE, left |-> t.size - 8, mgmt |-> <<>>], t.value)

\* The words of FDP, the bits of CDP.
FdpReadCaps(word) ==
  CASE word = "Router" -> {"router"}
    [] word = "Switch" -> {"bridge"}
    [] word = "Bridge" -> {"repeater"}
    [] OTHER -> {"station"}

CdpReadCaps(caps, old) ==
  LET new == old \cup (IF caps % 2 = 1 THEN {"router"} ELSE {})
                 \cup (IF (caps % 16) \div 2 # 0 THEN {"bridge"} ELSE {})
  IN IF new = {} THEN {"station"} ELSE new

\* The minimum a TLV must have.
CdpMinimum(type) ==
  CASE type \in {"addresses", "capabilities"} -> 4
    [] type = "nativevlan" -> 2
    [] type = "port" -> 1
    [] OTHER -> 0

\* One round of the loop.
CdpRound(fdp, st, t) ==
  LET tlvLen == t.size - 4 IN
  IF ~st.ok \/ tlvLen < 0 \/ st.length < t.size
       \/ tlvLen < (IF fdp /\ t.type = "capabilities" THEN 0 ELSE CdpMinimum(t.type))
  THEN [st EXCEPT !.ok = FALSE]
  ELSE LET rest == [st EXCEPT !.length = @ - t.size] IN
       CASE t.type = "chassis" -> [rest EXCEPT !.name = t.value]
         [] t.type = "addresses" ->
              [rest EXCEPT !.ok = CdpReadAddresses(t).ok, !.mgmt = @ \o CdpReadAddresses(t).mgmt]
         [] t.type = "port" -> [rest EXCEPT !.portdescr = t.value]
         [] t.type = "capabilities" ->
              [rest EXCEPT !.caps = IF fdp THEN FdpReadCaps(t.value) ELSE CdpReadCaps(t.value, @)]
         [] t.type = "software" -> [rest EXCEPT !.software = t.value]
         [] t.type = "platform" -> [rest EXCEPT !.platform = t.value]
         [] t.type = "nativevlan" ->
              [rest EXCEPT !.pvid = t.value, !.vlans = Append(@, [vid |-> t.value, name |-> "VLAN #"])]
         [] OTHER -> [rest EXCEPT !.unrecognized = @ + 1]

\* The software on the platform, as far as they are known.
CdpDescr(st) ==
  CASE st.software = Null -> st.platform
    [] st.software # Null /\ st.platform = Null -> st.software
    [] OTHER -> [len |-> st.platform.len + 12 + st.software.len,
                 text |-> <<st.platform.text, " running on ", st.software.text>>]

\* What a frame must have told.
CdpMandatory(st) ==
  /\ st.ok /\ st.name # Null /\ st.portdescr # Null /\ CdpDescr(st) # Null
  /\ st.ttl # 0 /\ st.caps # {}

\* The chassis and port of a frame; Null if it is malformed.
CdpDecode(f) ==
  LET start == [ok |-> f.pid = "cdp" /\ f.version \in {1, 2}, length |-> f.length - 26,
                name |-> Null, mgmt |-> <<>>, portdescr |-> Null, caps |-> {}, software |-> Null,
                platform |-> Null, pvid |-> 0, vlans |-> <<>>, unrecognized |-> 0, ttl |-> f.ttl]
      st == FoldLeft(LAMBDA s, t : CdpRound(f.dst # "cdp", s, t), start, f.tlvs)
  IN IF ~CdpMandatory(st) THEN Null
     ELSE [chassis |-> [id |-> st.name, name |-> st.name, descr |-> CdpDescr(st), ttl |-> st.ttl,
                        caps |-> st.caps, mgmt |-> st.mgmt],
           port |-> [id |-> st.portdescr, descr |-> st.portdescr, pvid |-> st.pvid, vlans |-> st.vlans]]

\* cdpv1_guess and cdpv2_guess.
CdpGuess(f, version) == f.dst = "cdp" /\ f.length >= 26 /\ f.version = version

=============================================================================
