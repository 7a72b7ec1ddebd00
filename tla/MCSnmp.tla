------------------------------- MODULE MCSnmp -------------------------------
\* The MIB for TLC.
EXTENDS Snmp

MCHw == <<2, 3, 1>>

\* A system that says little, and one that says everything.
Terse == [chassis |-> "c1", pid |-> 1, sys |-> {"med"}, fields |-> {}, poe |-> "pd",
          policies |-> <<>>, locations |-> <<>>, vlans |-> <<>>, ppvids |-> <<>>, pis |-> <<>>, mgmt |-> <<>>]

Full ==
  [Terse EXCEPT
     !.sys = {"med", "name", "sysdescr", "hw"}, !.fields = {"descr", "power", "class", "at"},
     !.poe = "pse", !.policies = <<1, 3>>, !.locations = <<2>>, !.vlans = <<<<2>>, <<1>>>>,
     !.ppvids = <<<<1>>>>, !.pis = <<<<7>>>>,
     !.mgmt = <<[family |-> 2, octets |-> <<1>>], [family |-> 1, octets |-> <<1, 2>>]>>]

MCLocal == [Full EXCEPT !.chassis = "local"]

\* A neighbour with two frames, another port of the same system, and a system
\* without a name.
MCFrames == {Full, Terse, [Full EXCEPT !.pid = 2, !.fields = {"emptydescr", "mfs"}], [Terse EXCEPT !.chassis = "c2"]}

MCNames == {[num |-> 1, dash |-> FALSE], [num |-> 2, dash |-> FALSE], [num |-> 2, dash |-> TRUE]}

MCReceivers ==
  <<[version |-> "v3", type |-> "inform"], [version |-> "v1", type |-> "trap"], [version |-> "v9", type |-> "trap"],
    [version |-> "v2c", type |-> "trap"]>>
=============================================================================
