------------------------------ MODULE MCHost -------------------------------
(***************************************************************************)
(* A host with two links that can be bonded or bridged, a VLAN on the      *)
(* bond, and several addresses; two lldpd processes. The calls: one        *)
(* interface, a file the monitor opens for the daemon and one it does not. *)
(***************************************************************************)
EXTENDS Host

P(b, g) == [bangs |-> b, glob |-> g]
A(a, f, g) == [addr |-> a, family |-> f, global |-> g]

MCOrder == <<"eth0", "eth1", "bond0", "br0", "vlan5">>

MCKind == [eth0 |-> "phys", eth1 |-> "phys", bond0 |-> "bond", br0 |-> "bridge", vlan5 |-> "vlan"]

MCLink == [d \in Range(MCOrder) |-> IF d = "vlan5" THEN "bond0" ELSE NoDev]

\* No pattern; one link or address less; one that is not physical, by its name;
\* nothing but what is whitelisted, before it is blacklisted.
MCSettings ==
    {[ifaces |-> <<>>, mgmt |-> <<>>, routing |-> FALSE],
     [ifaces |-> <<P(0, "*"), P(1, "eth1")>>, mgmt |-> <<P(0, "*"), P(1, "10.0.0.1")>>,
      routing |-> TRUE],
     [ifaces |-> <<P(0, "*"), P(0, "bond0")>>, mgmt |-> <<P(1, "10.0.0.1")>>,
      routing |-> FALSE],
     [ifaces |-> <<P(2, "eth0"), P(1, "*"), P(0, "bond0")>>, mgmt |-> <<P(0, "192.0.2.1")>>,
      routing |-> TRUE]}

In(S, m) == [d \in Range(MCOrder) |-> IF d \in S THEN m ELSE NoDev]

MCMembers == {In({}, NoDev), In({"eth0"}, "br0"), In({"eth0", "eth1"}, "bond0")}

MCAddresses ==
    <<A("127.0.0.1", "v4", FALSE), A("10.0.0.1", "v4", TRUE), A("192.0.2.1", "v4", TRUE),
      A("2001:db8::1", "v6", TRUE)>>
=============================================================================
