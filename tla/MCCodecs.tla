---------------------------- MODULE MCCodecs -------------------------------
(***************************************************************************)
(* A system that announces everything, and its variations: each kind of    *)
(* value absent, at the ends of its range, and in lists of several.        *)
(***************************************************************************)
EXTENDS Codecs

V(len, data) == [len |-> len, data |-> data]

Policy == [type |-> 1, unknown |-> 0, tagged |-> 1, vid |-> 5, priority |-> 3, dscp |-> 9]
Power == [devicetype |-> 1, supported |-> 1, enabled |-> 0, paircontrol |-> 1, at |-> "off",
          source |-> 0, priority |-> 0, requested |-> 0]
Mdi == [devicetype |-> "pse", source |-> "primary", priority |-> 1]

Full ==
  [Nothing EXCEPT
     !["chassis"] = <<V(6, "cid")>>, !["port"] = <<V(4, "pid")>>, !["ttl"] = <<V(0, 120)>>,
     !["name"] = <<V(5, "name")>>, !["descr"] = <<V(9, "descr")>>, !["cap"] = <<V(0, 20)>>,
     !["mgmt"] = <<V(4, [af |-> "ipv4", iface |-> 3])>>,
     !["portdescr"] = <<V(4, "eth0")>>, !["pvid"] = <<V(0, 47)>>,
     !["ppvid"] = <<V(0, 7)>>, !["vlan"] = <<V(5, "vlan5")>>, !["pi"] = <<V(3, "stp")>>,
     !["la"] = <<V(0, 1)>>, !["mac"] = <<V(0, [support |-> 1, enabled |-> 0])>>, !["mfs"] = <<V(0, 1600)>>,
     !["power"] = <<V(0, Power)>>,
     !["medcap"] = <<V(0, [type |-> 4, inventory |-> TRUE])>>,
     !["iv"] = <<V(7, "hw"), V(3, "sn")>>, !["loc"] = <<V(16, 1)>>,
     !["policy"] = <<V(0, Policy)>>, !["mdi"] = <<V(0, Mdi)>>]

Strings == {<<>>, <<V(1, "a")>>, <<V(511, "long")>>}

Variations ==
  [k \in ToSet(Kinds) |->
    CASE k \in {"chassis", "port"} -> {<<V(1, "a")>>, <<V(510, "long")>>}
      [] k = "ttl" -> {<<V(0, 0)>>, <<V(0, 65535)>>}
      [] k \in {"name", "descr", "portdescr"} -> Strings
      [] k = "mgmt" -> {<<>>, <<V(4, [af |-> "ipv4", iface |-> 0]),
                               V(16, [af |-> "ipv6", iface |-> 3])>>}
      [] k \in {"pvid", "mfs"} -> {<<>>, <<V(0, 65535)>>}
      [] k = "ppvid" -> {<<>>, <<V(0, 1), V(0, 2)>>}
      [] k = "vlan" -> {<<>>, <<V(0, ""), V(255, "long"), V(1, "a")>>}
      [] k = "pi" -> {<<>>, <<V(1, "a"), V(255, "long")>>}
      [] k = "power" -> {<<>>} \cup
           {<<V(0, [Power EXCEPT !.devicetype = d, !.supported = s, !.enabled = e])>> :
              d \in 1 .. 2, s \in 0 .. 1, e \in 0 .. 1} \cup
           {<<V(0, [Power EXCEPT !.devicetype = 2, !.at = a, !.source = s, !.priority = p,
                                 !.requested = 255])>> :
              a \in {"type1", "type2"}, s \in 0 .. 3, p \in 0 .. 3}
      [] k = "mac" -> {<<V(0, [support |-> s, enabled |-> e])>> : s \in 0 .. 1, e \in 0 .. 1}
      [] k = "medcap" -> {<<>>, <<V(0, [type |-> 1, inventory |-> FALSE])>>}
      [] k = "iv" -> {<<>>, <<V(0, "hw"), V(1, "fw")>>, <<V(32, "hw"), V(33, "fw")>>}
      [] k = "loc" -> {<<>>, <<V(1, 1), V(5, 3)>>}
      [] k = "policy" -> {<<>>} \cup
           {<<V(0, [Policy EXCEPT !.vid = v, !.dscp = d, !.priority = p]),
              V(0, [Policy EXCEPT !.type = 8, !.unknown = u, !.tagged = t])>> :
              v \in {0, 4095}, d \in {0, 63}, p \in {0, 7}, u \in 0 .. 1, t \in 0 .. 1}
      [] k = "mdi" -> {<<>>} \cup
           {<<V(0, [Mdi EXCEPT !.devicetype = d, !.source = s, !.priority = p])>> :
              d \in {"pse", "pd"}, p \in 0 .. 3,
              s \in {"unknown", "primary", "backup", "reserved", "pse", "local", "both"}}
      [] OTHER -> {}]

AllLocals == {Full} \cup
  UNION {{[Full EXCEPT ![k] = v] : v \in Variations[k]} : k \in ToSet(Kinds)}

SomeFlags ==
  {{}, Optional} \cup {{k} : k \in Optional} \cup {Optional \ {k} : k \in Optional}

-----------------------------------------------------------------------------
\* Neighbors of the other protocols: with and without VLANs, names and addresses,
\* at the ends of what a field can hold.

T(len, text) == [len |-> len, text |-> text]

Vlan(vid, addr) == [vid |-> vid, name |-> T(4, "vlan"), addr |-> addr]

Plain ==
  [name |-> T(3, "sw1"), descr |-> T(5, "descr"), portdescr |-> T(4, "eth1"),
   platform |-> T(5, "Linux"), mac |-> "mac", ttl |-> 120, caps |-> {"bridge"}, pvid |-> 0,
   addresses |-> <<[family |-> "ipv4", addr |-> 1]>>, vlans |-> <<>>, ifindex |-> 300,
   ifname |-> [kind |-> "eth", number |-> 1],
   power |-> [med |-> FALSE, source |-> "pse", val |-> 0]]

SomeSystems ==
  {Plain,
   [Plain EXCEPT !.vlans = <<Vlan(5, 0)>>, !.caps = {}, !.pvid = 5,
                 !.addresses = <<[family |-> "ipv6", addr |-> 9], [family |-> "ipv4", addr |-> 1],
                                 [family |-> "ipv4", addr |-> 2]>>],
   [Plain EXCEPT !.vlans = <<Vlan(7, 3), Vlan(8, 3), Vlan(9, 4)>>, !.caps = {"router", "bridge"},
                 !.power = [med |-> TRUE, source |-> "pse", val |-> 655], !.addresses = <<>>],
   [Plain EXCEPT !.name = T(0, ""), !.ifname = [kind |-> "", number |-> 4], !.ttl = 255,
                 !.caps = {"repeater"}, !.pvid = 4095],
   [Plain EXCEPT !.portdescr = T(0, ""), !.ifindex = 255, !.ttl = 256],
   [Plain EXCEPT !.descr = Null, !.platform = T(200, "long"), !.ifname = [kind |-> "br", number |-> 2]],
   [Plain EXCEPT !.mac = Null, !.caps = {}]}

SomeBodies == {<<0, 0>>, <<0, 1, 255>>, <<255, 255, 128, 1>>}

=============================================================================
