----------------------------- MODULE SonmpCodec -----------------------------
(***************************************************************************)
(* SONMP: sonmp_send writes the same fixed frame twice, to two addresses,  *)
(* and sonmp_decode reads the first.                                       *)
(***************************************************************************)
EXTENDS NeighborFrames

SonmpSize == 22

\* Only the first address is looked at.
SonmpAddress(l) ==
  IF l.addresses # <<>> /\ Head(l.addresses).family = "ipv4" THEN Head(l.addresses).addr ELSE 0

SonmpSend(l, mtu) ==
  LET hello == [dst |-> "sonmp", pid |-> "hello", length |-> 33, addr |-> SonmpAddress(l),
                seg |-> <<0, 0, l.ifindex % 256>>, chassis |-> 1]
  IN IF hello.length > mtu THEN <<>>
     ELSE <<hello, [hello EXCEPT !.pid = "flatnet", !.dst = "sonmp2"]>>

\* The kinds of devices: numbers up to 153 but two.
SonmpType(type) == IF type \in (2..153) \ {19, 47} THEN type ELSE 0

\* How the segments name a port.
SonmpPort(seg) ==
  CASE seg[1] = 0 /\ seg[2] = 0 -> <<seg[3]>>
    [] seg[1] = 0 /\ seg[2] # 0 -> <<seg[2], seg[3]>>
    [] OTHER -> seg

SonmpDecode(f) ==
  IF f.length < SonmpSize \/ f.dst # "sonmp" \/ f.pid # "hello" THEN Null
  ELSE [chassis |-> [id |-> f.addr, name |-> f.addr, descr |-> SonmpType(f.chassis), ttl |-> OwnTtl,
                     caps |-> {}, mgmt |-> <<f.addr>>],
        port |-> [id |-> f.seg, descr |-> SonmpPort(f.seg), pvid |-> 0, vlans |-> <<>>]]

=============================================================================
