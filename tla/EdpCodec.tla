------------------------------ MODULE EdpCodec ------------------------------
(***************************************************************************)
(* EDP: edp_send writes one frame with the name and the port and, if there *)
(* are VLANs, a second one with them; edp_decode has to put the two        *)
(* together again.  Both are protected by frame_checksum, for which a      *)
(* frame is a few bytes that stand for its content.                        *)
(***************************************************************************)
EXTENDS NeighborFrames

-----------------------------------------------------------------------------
\* frame_checksum, in network order.  Cisco's way with the last byte of an odd
\* number of them is CDP's.

Words(b) == [i \in 1..(Len(b) \div 2) |-> 256 * b[2 * i - 1] + b[2 * i]]

LastByte(b, cisco) ==
  LET v == Last(b) IN
  CASE Len(b) % 2 = 0 -> 0
    [] Len(b) % 2 = 1 /\ ~cisco -> 256 * v
    [] OTHER -> IF v >= 128 THEN 255 * 256 + v - 1 ELSE v

frame_checksum(b, cisco) ==
  LET sum == FoldLeft(+, 0, Words(b)) + LastByte(b, cisco)
      folded == (sum \div 2^16) + (sum % 2^16)
  IN 2^16 - 1 - ((folded + (folded \div 2^16)) % 2^16)

\* The checksum is at the third and fourth byte.
Sealed(b) ==
  LET c == frame_checksum(<<b[1], b[2], 0, 0>> \o SubSeq(b, 3, Len(b)), FALSE) IN
  <<b[1], b[2], c \div 256, c % 256>> \o SubSeq(b, 3, Len(b))

-----------------------------------------------------------------------------
\* edp_send.

EdpTlv(type, len, value) == [type |-> type, size |-> (4 + len) % 2^16, value |-> value]

\* Slot and number come from the name of the interface: the known kinds, and the
\* empty one, number eight, that matches every name, of which atoi then reads the
\* number only if the name begins with it.
Slot(ifname) ==
  CASE ifname.kind = "eth" -> [slot |-> 0, port |-> ifname.number]
    [] ifname.kind = "veth" -> [slot |-> 1, port |-> ifname.number]
    [] ifname.kind = "" -> [slot |-> 8, port |-> ifname.number]
    [] OTHER -> [slot |-> 8, port |-> 0]

EdpInfoTlvs(l) ==
  <<EdpTlv("display", l.name.len + 1, l.name), EdpTlv("info", 32, Slot(l.ifname)), EdpTlv("null", 0, 0)>>

\* lldpd announces no address with a VLAN; the devices that EDP is made for do.
EdpVlanTlvs(l) ==
  [i \in 1..Len(l.vlans) |-> EdpTlv("vlan", 12 + l.vlans[i].name.len + 1, l.vlans[i])]
    \o <<EdpTlv("null", 0, 0)>>

\* Ethernet, LLC and EDP header, and the TLVs.
EdpLength(tlvs) == 14 + 8 + 16 + FoldLeft(LAMBDA n, t : n + t.size, 0, tlvs)

EdpFrame(l, tlvs, seq, bytes) ==
  [dst |-> "edp", pid |-> "edp", version |-> 1, seq |-> seq % 2^16, id |-> l.mac,
   length |-> EdpLength(tlvs), bytes |-> Sealed(bytes), tlvs |-> tlvs]

\* What is sent: both frames, the first alone if there are no VLANs or they do not
\* fit, nothing if the first does not or the system is not identified by a MAC
\* address.
EdpSend(l, seq, bytes, mtu) ==
  IF l.mac = Null \/ EdpLength(EdpInfoTlvs(l)) > mtu THEN <<>>
  ELSE <<EdpFrame(l, EdpInfoTlvs(l), seq, bytes)>>
         \o IF l.vlans = <<>> \/ EdpLength(EdpVlanTlvs(l)) > mtu THEN <<>>
            ELSE <<EdpFrame(l, EdpVlanTlvs(l), seq + 1, bytes)>>

\* The numbers used, for a frame that is given up, too.
EdpSeqNext(l, seq, mtu) ==
  seq + IF l.mac = Null THEN 0 ELSE IF EdpLength(EdpInfoTlvs(l)) > mtu THEN 1 ELSE 2

-----------------------------------------------------------------------------
\* edp_decode.

EdpMinimum(type) == CASE type = "info" -> 32 [] type = "vlan" -> 12 [] OTHER -> 0

\* One round of the loop; a size that does not fit ends the frame.
EdpRound(st, t) ==
  LET tlvLen == t.size - 4 IN
  IF ~st.ok \/ st.gotend THEN st
  ELSE IF tlvLen < 0 \/ t.size > st.length THEN [st EXCEPT !.gotend = TRUE]
  ELSE IF tlvLen < EdpMinimum(t.type) \/ (t.type = "null" /\ tlvLen # 0) THEN [st EXCEPT !.ok = FALSE]
  ELSE LET rest == [st EXCEPT !.length = @ - t.size] IN
       CASE t.type = "info" -> [rest EXCEPT !.port = [slot |-> t.value.slot + 1, port |-> t.value.port + 1]]
         [] t.type = "display" -> [rest EXCEPT !.name = t.value]
         [] t.type = "null" -> [rest EXCEPT !.gotend = TRUE]
         [] t.type = "vlan" ->
              [rest EXCEPT !.vlans = Append(@, [vid |-> t.value.vid, name |-> t.value.name]),
                           !.mgmt = IF t.value.addr # 0 THEN Append(@, t.value.addr) ELSE @,
                           !.gotvlans = TRUE]
         [] OTHER -> [rest EXCEPT !.unrecognized = @ + 1]

\* (mutant) The checksum is not looked at.
EdpReadUnchecked(f) ==
  FoldLeft(EdpRound,
    [ok |-> f.pid = "edp" /\ f.version = 1,
     length |-> f.length - 38, port |-> Null, name |-> Null, vlans |-> <<>>, mgmt |-> <<>>,
     gotend |-> FALSE, gotvlans |-> FALSE, unrecognized |-> 0], f.tlvs)

EdpRead(f) ==
  FoldLeft(EdpRound,
    [ok |-> f.pid = "edp" /\ f.version = 1 /\ frame_checksum(f.bytes, FALSE) = 0,
     length |-> f.length - 38, port |-> Null, name |-> Null, vlans |-> <<>>, mgmt |-> <<>>,
     gotend |-> FALSE, gotvlans |-> FALSE, unrecognized |-> 0], f.tlvs)

\* A frame with everything is a neighbor.
EdpDecode(f) ==
  LET st == EdpRead(f) IN
  IF ~st.ok \/ st.port = Null \/ st.name = Null \/ ~st.gotend THEN Null
  ELSE [chassis |-> [id |-> f.id, name |-> st.name, descr |-> "EDP enabled device", ttl |-> OwnTtl,
                     caps |-> {}, mgmt |-> st.mgmt],
        port |-> [id |-> st.port, descr |-> st.port, pvid |-> 0, vlans |-> st.vlans]]

\* A frame with VLANs only belongs to ports that are known.
EdpOnlyVlans(f) == LET st == EdpRead(f) IN st.ok /\ EdpDecode(f) = Null /\ st.gotvlans /\ st.gotend

\* Addresses are moved one by one; one that comes again later in the frame is
\* left out.
NotLater(mgmt) ==
  LET keep == {i \in DOMAIN mgmt : \A j \in (i + 1)..Len(mgmt) : mgmt[j] # mgmt[i]} IN
  FlattenSeq([i \in DOMAIN mgmt |-> IF i \in keep THEN <<mgmt[i]>> ELSE <<>>])

=============================================================================
