----------------------------- MODULE LldpCodec -----------------------------
(***************************************************************************)
(* What one lldpd writes into an LLDP frame and what another reads from    *)
(* it: lldp_send and lldp_decode are two hand-written functions that have  *)
(* to agree on the layout of every TLV, on which ones are optional, and on *)
(* the encoding of the fields inside.                                      *)
(*                                                                         *)
(* A frame is a sequence of TLVs with the size in their header and the     *)
(* fields in wire form. Sizes are counted in bytes; a value of variable    *)
(* length has a length and a content. Numbers that are copied as they are  *)
(* are their own content. All optional parts of the protocol are built.    *)
(***************************************************************************)
EXTENDS Integers, SequencesExt

CONSTANTS
  Locals,      \* what the sending system may have to say
  FlagSets,    \* which optional TLVs are enabled in the database
  Mtus,        \* h_mtu
  Source       \* the sender's hardware address

\* What the nine bits of a TLV's size can hold.
SizeBits == 9

VARIABLES
  local, flags, mtu,   \* the sender
  frame,               \* the frame, and what of it is not yet decoded
  phase,               \* "send", "toobig", "decode", "accepted" or "malformed"
  got, enabled         \* chassis and port built by the receiver; p_med_cap_enabled

vars == <<local, flags, mtu, frame, phase, got, enabled>>

\* The order of lldp_send.
Kinds == <<"chassis", "port", "ttl", "name", "descr", "cap", "mgmt", "portdescr",
           "pvid", "ppvid", "vlan", "pi", "la", "mac", "mfs", "power",
           "medcap", "iv", "loc", "policy", "mdi">>
Optional == {"name", "descr", "cap", "mgmt", "portdescr", "pvid", "ppvid", "vlan", "pi"}
Med == {"medcap", "iv", "loc", "policy", "mdi"}
Nothing == [k \in ToSet(Kinds) |-> <<>>]

Init ==
  /\ local \in Locals /\ flags \in FlagSets /\ mtu \in Mtus
  /\ frame = <<>> /\ phase = "send"
  /\ got = Nothing /\ enabled = {}

-----------------------------------------------------------------------------
\* lldp_send.

InventoryMax == 32

\* Bytes of the fields of a TLV after its header. Organizational TLVs begin with
\* three bytes of organization and one of subtype.
Size(kind, v) ==
  CASE kind \in {"chassis", "port"} -> 1 + v.len
    [] kind = "ttl" -> 2
    [] kind \in {"name", "descr", "portdescr"} -> v.len
    [] kind = "cap" -> 4
    [] kind = "mgmt" -> 2 + v.len + 6
    [] kind \in {"pvid", "mfs"} -> 6
    [] kind = "ppvid" -> 7
    [] kind = "vlan" -> 7 + v.len
    [] kind = "pi" -> 5 + v.len
    [] kind \in {"la", "mac"} -> 9
    [] kind = "power" -> IF v.data.at = "off" THEN 7 ELSE 12
    [] kind = "medcap" -> 7
    [] kind = "iv" -> 4 + Min({v.len, InventoryMax})
    [] kind = "loc" -> 5 + v.len
    [] kind = "policy" -> 8
    [] kind = "mdi" -> 7

\* Management addresses: the interface is announced if it is known.
MgmtWire(d) ==
  [af |-> IF d.af = "ipv4" THEN 1 ELSE 2,
   subtype |-> IF d.iface = 0 THEN 1 ELSE 2, number |-> d.iface]

\* MAC/PHY: two flags in a byte.
MacWire(d) == d.support + 2 * d.enabled

\* 802.3 power: the device type and its flags share a byte; another one holds
\* the 802.3at type, source and priority, followed by the two values.
PowerWire(d) ==
  [bits |-> ((2 - d.devicetype) % 2) + 2 * (d.supported % 2) + 4 * (d.enabled % 2)
              + 8 * (d.paircontrol % 2),
   at |-> IF d.at = "off" THEN <<>>
          ELSE <<128 * (IF d.at = "type1" THEN 1 ELSE 0) + 64 * (IF d.devicetype = 1 THEN 0 ELSE 1)
                   + 16 * (d.source % 4) + (d.priority % 4), d.requested>>]

\* LLDP-MED power: two bits of device type, two of source, four of priority.
SourceCode ==
  [pse |-> [unknown |-> 0, primary |-> 1, backup |-> 2, reserved |-> 3],
   pd |-> [unknown |-> 0, pse |-> 1, local |-> 2, both |-> 3]]

MdiWire(d) ==
  64 * (IF d.devicetype = "pse" THEN 0 ELSE 1)
    + 16 * (IF d.source \in DOMAIN SourceCode[d.devicetype]
            THEN SourceCode[d.devicetype][d.source] ELSE 0)
    + (d.priority % 16)

\* LLDP-MED policies: six fields in 32 bits.
PolicyWire(d) ==
  d.type * 2^24 + d.unknown * 2^23 + d.tagged * 2^22 + (d.vid % 2^12) * 2^9
    + (d.priority % 2^3) * 2^6 + (d.dscp % 2^6)

Wire(kind, v) ==
  CASE kind = "mgmt" -> [v EXCEPT !.data = MgmtWire(v.data)]
    [] kind = "mac" -> [v EXCEPT !.data = MacWire(v.data)]
    [] kind = "power" -> [v EXCEPT !.data = PowerWire(v.data)]
    [] kind = "mdi" -> [v EXCEPT !.data = MdiWire(v.data)]
    [] kind = "policy" -> [v EXCEPT !.data = PolicyWire(v.data)]
    [] kind = "medcap" -> [v EXCEPT !.data = v.data.type]
    [] kind \in {"vlan", "pi"} -> [v EXCEPT !.len = @ % 256]
    [] OTHER -> v

\* Which TLVs are written: those the database can disable only if enabled,
\* LLDP-MED only with capabilities, inventory only if those include it.
Written(kind) ==
  /\ kind \in Optional => kind \in flags
  /\ kind \in Med => local["medcap"] # <<>>
  /\ kind = "iv" => local["medcap"][1].data.inventory

\* POKE_END_LLDP_TLV: nine bits hold the size.
Tlv(kind, v) ==
  [kind |-> kind, size |-> Size(kind, v) % 2^SizeBits, wire |-> Wire(kind, v)]

End == [kind |-> "end", size |-> 0, wire |-> [len |-> 0, data |-> 0]]

TlvsOf(kind) ==
  IF Written(kind) THEN [i \in 1 .. Len(local[kind]) |-> Tlv(kind, local[kind][i])] ELSE <<>>

\* All TLVs in order, and the one that ends the frame.
Packet == FlattenSeq([i \in 1 .. Len(Kinds) |-> TlvsOf(Kinds[i])]) \o <<End>>

\* Ethernet header, and two bytes of header for every TLV.
Length(p) == 14 + FoldLeft(LAMBDA n, t : n + 2 + t.size, 0, p)

Send ==
  /\ phase = "send"
  /\ IF Length(Packet) <= mtu THEN frame' = Packet /\ phase' = "decode"
     ELSE phase' = "toobig" /\ UNCHANGED frame
  /\ UNCHANGED <<local, flags, mtu, got, enabled>>

-----------------------------------------------------------------------------
\* lldp_decode.

\* (mutant) The header of organizational TLVs is counted twice.
MinimumTwice(t) == IF t.kind \in {"pvid", "mfs", "ppvid", "vlan"} THEN 10 ELSE 0

\* CHECK_TLV_SIZE; management addresses, VLAN names and protocol identities are
\* checked again with the length they hold.
Minimum(t) ==
  CASE t.kind \in {"chassis", "port", "ttl"} -> 2
    [] t.kind = "cap" -> 4
    [] t.kind = "mgmt" -> Max({1 + t.wire.len, 5})
    [] t.kind \in {"pvid", "mfs"} -> 6
    [] t.kind \in {"ppvid", "power", "medcap", "mdi"} -> 7
    [] t.kind = "vlan" -> 7 + t.wire.len
    [] t.kind = "pi" -> Max({5, 1 + t.wire.len})
    [] t.kind \in {"la", "mac"} -> 9
    [] t.kind = "policy" -> 8
    [] t.kind = "loc" -> 5
    [] t.kind = "iv" -> 4
    [] OTHER -> 0

\* How far the fields that are read reach; the next TLV must not have begun.
Consumed(t) ==
  CASE t.kind = "ttl" -> 2
    [] t.kind = "cap" -> 4
    [] t.kind = "mgmt" -> 7 + t.wire.len
    [] t.kind \in {"pvid", "mfs"} -> 6
    [] t.kind \in {"ppvid", "medcap", "mdi"} -> 7
    [] t.kind = "power" -> IF t.size >= 12 THEN 12 ELSE 7
    [] t.kind = "vlan" -> 7 + t.wire.len
    [] t.kind = "pi" -> 5 + t.wire.len
    [] t.kind \in {"la", "mac"} -> 9
    [] t.kind = "policy" -> 8
    [] OTHER -> t.size

MgmtRead(w) ==
  [af |-> IF w.af = 1 THEN "ipv4" ELSE "ipv6",
   iface |-> IF w.subtype = 2 THEN w.number ELSE 0]

PowerBase(w) ==
  [devicetype |-> IF w.bits % 2 = 1 THEN 1 ELSE 2, supported |-> (w.bits \div 2) % 2,
   enabled |-> (w.bits \div 4) % 2, paircontrol |-> (w.bits \div 8) % 2,
   at |-> "off", source |-> 0, priority |-> 0, requested |-> 0]

\* The 802.3at part is recognized by the size of the TLV.
PowerRead(size, w) ==
  LET base == PowerBase(w) IN
  IF size < 12 THEN base
  ELSE [base EXCEPT !.at = IF w.at[1] \div 128 = 1 THEN "type1" ELSE "type2",
                    !.source = (w.at[1] \div 16) % 4, !.priority = w.at[1] % 4,
                    !.requested = w.at[2]]

MdiRead(w) ==
  LET device == IF w \div 64 = 0 THEN "pse" ELSE "pd"
      code == SourceCode[device]
  IN [devicetype |-> device,
      source |-> CHOOSE x \in DOMAIN code : code[x] = (w \div 16) % 4,
      priority |-> IF w % 16 > 3 THEN 0 ELSE w % 16]

PolicyRead(w) ==
  [type |-> w \div 2^24, unknown |-> (w \div 2^23) % 2, tagged |-> (w \div 2^22) % 2,
   vid |-> (w \div 2^9) % 2^12, priority |-> (w \div 2^6) % 2^3, dscp |-> w % 2^6]

\* Lengths of values that have no length field follow from the size of the TLV.
ReadLen(t) ==
  CASE t.kind \in {"chassis", "port"} -> t.size - 1
    [] t.kind \in {"name", "descr", "portdescr"} -> t.size
    [] t.kind = "loc" -> t.size - 5
    [] t.kind = "iv" -> t.size - 4
    [] OTHER -> t.wire.len

\* With OVSDB the identifier of a system that is stored is not the one of the
\* TLV but as many bytes of the frame, from its source address on.
ReadData(t) ==
  CASE t.kind = "chassis" -> Source
    [] t.kind = "mgmt" -> MgmtRead(t.wire.data)
    [] t.kind = "mac" -> [support |-> t.wire.data % 2, enabled |-> (t.wire.data \div 2) % 2]
    [] t.kind = "power" -> PowerRead(t.size, t.wire.data)
    [] t.kind = "mdi" -> MdiRead(t.wire.data)
    [] t.kind = "policy" -> PolicyRead(t.wire.data)
    [] OTHER -> t.wire.data

\* Empty strings are skipped; policies of unknown type, too.
Skipped(t) ==
  \/ t.kind \in {"name", "descr", "portdescr"} /\ t.size < 1
  \/ t.kind = "iv" /\ t.size <= 4
  \/ t.kind = "policy" /\ PolicyRead(t.wire.data).type \notin 1 .. 8

Several == {"mgmt", "ppvid", "vlan", "pi", "iv", "loc", "policy"}

\* What a TLV adds to the chassis and port under construction.
Stored(t) ==
  LET v == [len |-> ReadLen(t), data |-> ReadData(t)] IN
  IF Skipped(t) THEN got[t.kind]
  ELSE IF t.kind \in Several THEN Append(got[t.kind], v)
  ELSE <<v>>

\* What the receiver takes the sender to be capable of.
Capable(t) ==
  IF t.kind \in Med /\ ~(t.kind = "policy" /\ Skipped(t)) THEN {t.kind} ELSE {}

\* One round of the loop.
DecodeTlv ==
  /\ phase = "decode" /\ frame # <<>> /\ Head(frame).kind # "end"
  /\ LET t == Head(frame) IN
     IF t.size < Minimum(t) \/ t.size < Consumed(t)
     THEN phase' = "malformed" /\ UNCHANGED <<frame, got, enabled>>
     ELSE /\ got' = [got EXCEPT ![t.kind] = Stored(t)]
          /\ enabled' = enabled \cup Capable(t)
          /\ frame' = Tail(frame)
          /\ UNCHANGED phase
  /\ UNCHANGED <<local, flags, mtu>>

\* After the loop: the mandatory TLVs.
DecodeEnd ==
  /\ phase = "decode" /\ (frame = <<>> \/ Head(frame).kind = "end")
  /\ phase' = IF frame # <<>> /\ \A k \in {"chassis", "port", "ttl"} : got[k] # <<>>
              THEN "accepted" ELSE "malformed"
  /\ UNCHANGED <<local, flags, mtu, frame, got, enabled>>

Next == Send \/ DecodeTlv \/ DecodeEnd

Spec == Init /\ [][Next]_vars

-----------------------------------------------------------------------------
\* What a sender has to say fits its fields.
ASSUME LocalsFit ==
  \A l \in Locals : \A k \in DOMAIN l : \A i \in DOMAIN l[k] :
    /\ Size(k, l[k][i]) < 2^SizeBits
    /\ k \in {"vlan", "pi"} => l[k][i].len < 256

\* The meaning of a value: what the other side should know. Inventory strings are
\* cut and empty ones do not count, and a power source that does not belong to the
\* device is unknown.
Meaning(kind, v) ==
  CASE kind = "iv" -> [v EXCEPT !.len = Min({@, InventoryMax})]
    [] kind = "medcap" -> [v EXCEPT !.data = v.data.type]
    [] kind = "mdi" -> [v EXCEPT !.data.source =
                          IF @ \in DOMAIN SourceCode[v.data.devicetype] THEN @ ELSE "unknown"]
    [] OTHER -> v

Announced(kind) ==
  CASE kind \in Optional -> kind \in flags
    [] kind = "iv" -> local["medcap"] # <<>> /\ local["medcap"][1].data.inventory
    [] kind \in Med -> local["medcap"] # <<>>
    [] OTHER -> TRUE

\* A frame that lldp_send writes is never refused by lldp_decode, whatever is
\* left out or empty, and what one lldpd announces is what the other one stores:
\* everything that is enabled and nothing that is not, each value with its
\* meaning, lists complete and in order; and the sender's LLDP-MED capabilities
\* are those of which it has sent something. One value is not what was announced
\* and is left out: of the identifier of the system only the length arrives, its
\* bytes are overwritten with those of the frame (lldp_decode), while
\* check_received_chassis of tests/check_lldp.c expects the ones that were sent.
RoundTrip ==
  /\ phase # "malformed"
  /\ phase = "accepted" =>
       /\ Len(got["chassis"]) = 1 /\ got["chassis"][1].len = local["chassis"][1].len
       /\ \A k \in ToSet(Kinds) \ {"chassis"} :
            LET said == SelectSeq(local[k], LAMBDA v : k # "iv" \/ v.len > 0) IN
            got[k] = IF ~Announced(k) THEN <<>>
                     ELSE [i \in 1 .. Len(said) |-> Meaning(k, said[i])]
       /\ enabled = {k \in Med : Announced(k) /\ local[k] # <<>>}

=============================================================================
