------------------------------ MODULE Dialects ------------------------------
(***************************************************************************)
(* A neighbor that speaks CDP, FDP, EDP or SONMP, the line, and lldpd_decode *)
(* at the other end: which protocol is it (lldpd_guess_type), what does    *)
(* the frame say, and which known port is it about.                        *)
(*                                                                         *)
(* The neighbor is an lldpd, or a device that announces addresses with its *)
(* VLANs.  The line may lose frames and, within EDP frames, damage a byte. *)
(***************************************************************************)
EXTENDS CdpCodec, EdpCodec, SonmpCodec

CONSTANTS
  Modes,         \* the protocols spoken: cdpv1, cdpv2, fdp, edp, sonmp
  Systems,       \* what the neighbor may have to say
  LineMtus,      \* h_mtu
  Bodies,        \* contents of EDP frames, as bytes
  DamagedBytes,  \* what a damaged byte becomes
  MaxSends       \* bound: announcements

VARIABLES
  mode, said, lineMtu,     \* the neighbor: protocol, what it says, and its frame size
  wire,                \* frames on the line
  seq,                 \* sequence number of EDP
  sends,               \* announcements made
  whole,               \* no frame of the last announcement was lost or damaged
  chassis,             \* g_chassis of the receiver: identifier -> what is known
  rports               \* h_rports: sequence of ports with their last frame

dialectVars == <<mode, said, lineMtu, wire, seq, sends, whole, chassis, rports>>

DialectsInit ==
  /\ mode \in Modes /\ said \in Systems /\ lineMtu \in LineMtus
  /\ wire = <<>> /\ seq = 0 /\ sends = 0 /\ whole = FALSE
  /\ chassis = <<>> /\ rports = <<>>

-----------------------------------------------------------------------------
\* The neighbor.

Version == [cdpv1 |-> 1, cdpv2 |-> 2, fdp |-> 0]

\* The function of the protocol.
FramesOf(bytes) ==
  CASE mode = "edp" -> EdpSend(said, seq, bytes, lineMtu)
    [] mode = "sonmp" -> SonmpSend(said, lineMtu)
    [] OTHER -> CdpSend(said, Version[mode], lineMtu)

\* How many there should be.
Complete(frames) == Len(frames) = IF mode = "sonmp" \/ (mode = "edp" /\ said.vlans # <<>>) THEN 2 ELSE 1

Announce ==
  /\ wire = <<>> /\ sends < MaxSends
  /\ \E bytes \in IF mode = "edp" THEN Bodies ELSE {<<>>} :
       /\ wire' = FramesOf(bytes)
       /\ whole' = Complete(FramesOf(bytes))
  /\ seq' = IF mode = "edp" THEN EdpSeqNext(said, seq, lineMtu) ELSE seq
  /\ sends' = sends + 1
  /\ UNCHANGED <<mode, said, lineMtu, chassis, rports>>

\* The neighbor changes, but stays connected with the same interface.
Reconfigured ==
  /\ wire = <<>> /\ sends \in 1..(MaxSends - 1)
  /\ \E s \in Systems : s.ifname = said.ifname /\ s.ifindex = said.ifindex /\ said' = s
  /\ whole' = FALSE
  /\ UNCHANGED <<mode, lineMtu, wire, seq, sends, chassis, rports>>

-----------------------------------------------------------------------------
\* The line.

Lose ==
  /\ wire # <<>>
  /\ wire' = Tail(wire) /\ whole' = FALSE
  /\ UNCHANGED <<mode, said, lineMtu, seq, sends, chassis, rports>>

Damage ==
  /\ mode = "edp" /\ wire # <<>>
  /\ \E i \in DOMAIN Head(wire).bytes, b \in DamagedBytes :
       /\ Head(wire).bytes[i] # b
       /\ wire' = [wire EXCEPT ![1].bytes[i] = b]
  /\ whole /\ whole' = FALSE
  /\ UNCHANGED <<mode, said, lineMtu, seq, sends, chassis, rports>>

-----------------------------------------------------------------------------
\* The receiver: lldpd_decode, all protocols enabled.

\* The first protocol whose address, or whose test, fits.
lldpd_guess_type(f) ==
  CASE f.dst = "cdp" /\ CdpGuess(f, 1) -> "cdpv1"
    [] f.dst = "cdp" /\ ~CdpGuess(f, 1) /\ CdpGuess(f, 2) -> "cdpv2"
    [] f.dst = "sonmp" -> "sonmp"
    [] f.dst = "edp" -> "edp"
    [] f.dst = "fdp" -> "fdp"
    [] OTHER -> "none"

Decoded(f, guess) ==
  CASE guess = "edp" -> EdpDecode(f)
    [] guess = "sonmp" -> SonmpDecode(f)
    [] guess = "none" -> Null
    [] OTHER -> CdpDecode(f)

\* (mutant) The VLANs are added to those that are there.
AttachedBehind(f) ==
  LET new == EdpRead(f)
      of == {i \in DOMAIN rports : rports[i].protocol = "edp" /\ rports[i].chassis = f.id}
      first == CHOOSE i \in of : \A j \in of : i <= j
  IN /\ rports' = [i \in DOMAIN rports |->
                     IF i # first THEN rports[i] ELSE [rports[i] EXCEPT !.port.vlans = @ \o new.vlans]]
     /\ chassis' = IF of = {} THEN chassis
                   ELSE [chassis EXCEPT ![f.id].mgmt = @ \o NotLater(new.mgmt)]

\* VLANs that arrive alone: those of the first port of that system are replaced,
\* those of its other ports lost, and the addresses added.
Attached(f) ==
  LET new == EdpRead(f)
      of == {i \in DOMAIN rports : rports[i].protocol = "edp" /\ rports[i].chassis = f.id}
      first == CHOOSE i \in of : \A j \in of : i <= j
  IN /\ rports' = [i \in DOMAIN rports |->
                     IF i \notin of THEN rports[i]
                     ELSE [rports[i] EXCEPT !.port.vlans = IF i = first THEN new.vlans ELSE <<>>]]
     /\ chassis' = IF of = {} THEN chassis
                   ELSE [chassis EXCEPT ![f.id].mgmt = @ \o NotLater(new.mgmt)]

\* A neighbor: a port that is known is removed and added again, a system that is
\* known gets the new content (lldpd_move_chassis).
Learned(f, guess, d) ==
  LET others == SelectSeq(rports, LAMBDA p : p.protocol # guess \/ p.port.id # d.port.id
                                                \/ p.chassis # d.chassis.id)
  IN /\ rports' = Append(others, [protocol |-> guess, chassis |-> d.chassis.id, port |-> d.port,
                                  lastframe |-> f])
     /\ chassis' = (d.chassis.id :> d.chassis) @@ chassis

Receive ==
  /\ wire # <<>>
  /\ wire' = Tail(wire)
  /\ LET f == Head(wire)
         guess == lldpd_guess_type(f)
         d == Decoded(f, guess)
     IN IF \E i \in DOMAIN rports : rports[i].lastframe = f THEN UNCHANGED <<chassis, rports>>
        ELSE IF d # Null THEN Learned(f, guess, d)
        ELSE IF guess = "edp" /\ EdpOnlyVlans(f) THEN Attached(f)
        ELSE UNCHANGED <<chassis, rports>>
  /\ UNCHANGED <<mode, said, lineMtu, seq, sends, whole>>

DialectsNext == Announce \/ Reconfigured \/ Lose \/ Damage \/ Receive

-----------------------------------------------------------------------------
(* Properties *)

\* What the receiver should know of a neighbor, by what the protocol can carry:
\* CDP the name, the IPv4 addresses, and with version 2 the native VLAN; EDP the
\* VLANs; SONMP an address and the low byte of the index.
Meant(system) ==
  CASE mode = "edp" ->
         [name |-> system.name, id |-> system.mac,
          vlans |-> [i \in DOMAIN system.vlans |-> [vid |-> system.vlans[i].vid, name |-> system.vlans[i].name]]]
    [] mode = "sonmp" ->
         [name |-> SonmpAddress(system), id |-> SonmpAddress(system), vlans |-> <<>>]
    [] OTHER ->
         [name |-> Text(system.name), id |-> Text(system.name),
          vlans |-> IF mode = "cdpv2" /\ system.pvid # 0
                    THEN <<[vid |-> system.pvid, name |-> "VLAN #"]>> ELSE <<>>]

MeantAddresses ==
  CASE mode = "sonmp" -> {SonmpAddress(said)}
    [] mode = "edp" -> {said.vlans[i].addr : i \in DOMAIN said.vlans} \ {0}
    [] OTHER -> {a.addr : a \in ToSet(Ipv4(said.addresses))}

MeantPort ==
  CASE mode = "edp" -> [slot |-> Slot(said.ifname).slot + 1, port |-> Slot(said.ifname).port + 1]
    [] mode = "sonmp" -> <<0, 0, said.ifindex % 256>>
    [] OTHER -> said.portdescr

MeantCaps ==
  CASE mode \in {"edp", "sonmp"} -> {}
    [] mode = "fdp" -> FdpReadCaps(FdpWord(said.caps))
    [] OTHER -> IF said.caps \cap {"router", "bridge"} = {} THEN {"station"}
                ELSE said.caps \cap {"router", "bridge"}

\* What CDP cannot say: no name of the port, or a time to live of a multiple of 256.
Unspeakable == mode \in DOMAIN Version /\ (Text(said.portdescr).len = 0 \/ said.ttl % 256 = 0)

\* Whatever was lost or damaged before, and whatever the neighbor said before:
\* once an announcement has arrived whole, some port of the table is what it says,
\* under the protocol it was sent with, with the VLANs and addresses that were
\* announced and no others (not always the newest one: a frame that is stored
\* already moves nothing); what came in several frames has been put together.
\* At no time does a port mix the VLANs of two announcements (edp_decode,
\* cdp_decode, sonmp_decode, lldpd_guess_type).
Understood ==
  /\ whole /\ wire = <<>> /\ ~Unspeakable =>
       \E i \in DOMAIN rports :
         LET p == rports[i] c == chassis[p.chassis] IN
         /\ p.protocol = mode
         /\ [name |-> c.name, id |-> c.id, vlans |-> p.port.vlans] = Meant(said)
         /\ p.port.id = MeantPort /\ c.caps = MeantCaps
         /\ ToSet(c.mgmt) = MeantAddresses
  /\ \A i \in DOMAIN rports :
       rports[i].port.vlans \in {<<>>} \cup {Meant(s).vlans : s \in Systems}

\* A frame of EDP in which one byte was changed on its way changes nothing of what
\* the receiver knows (frame_checksum in edp_decode).
DamagedRefused ==
  [][mode = "edp" /\ wire # <<>> /\ Head(wire).bytes \notin {Sealed(b) : b \in Bodies}
       => UNCHANGED <<chassis, rports>>]_dialectVars

=============================================================================
