----------------------------- MODULE OvsdbPorts -----------------------------
(***************************************************************************)
(* The VLANs the daemon announces. lldpd_apply_port_changes keeps one      *)
(* port_data for every row of the Port table and gives the VLANs of a row  *)
(* to the hardware of its interfaces; the update of the local ports wipes  *)
(* and restores them through the pointer each interface has to a port.     *)
(* The three structures refer to each other and are updated at different   *)
(* times: rows change, the hardware of an interface comes and goes, an     *)
(* interface moves from one port to another.                               *)
(*                                                                         *)
(* The interfaces have a row in the Interface table throughout; entries    *)
(* without a row are the subject of OvsdbIfaces.                           *)
(***************************************************************************)
EXTENDS Integers, Sequences, FiniteSets, SequencesExt

CONSTANTS
  PIfs,         \* interfaces
  Ports,        \* names of rows of the Port table
  Vids,         \* VLAN identifiers
  Absent, Freed, \* no such thing; a thing that is gone
  Configs,      \* what the rows may say: records of mode, tag and trunks
  MaxPortEvents \* bound on changes of rows and hardware

NoTag == 0

VARIABLES
  portRow,  \* the Port table: Absent, or configuration and members
  vlanRow,  \* identifiers with a row in the VLAN table, as the IDL has it
  changed,  \* rows inserted, modified or deleted since lldpd_reconfigure looked
  port,     \* all_ports: Absent, or the row, the mode and the interfaces noted
  portdata, \* the port each interface points to, Absent, or Freed
  lport,    \* p_pvid and p_vlans of the hardware, or Absent without hardware
  crashed,  \* was a pointer to missing hardware or to a freed port followed?
  pevents

portVars == <<portRow, vlanRow, changed, port, portdata, lport, crashed, pevents>>

NoVlans == [pvid |-> 0, vlans |-> <<>>]

PortsInit ==
  /\ portRow = [p \in Ports |-> Absent]
  /\ vlanRow = Vids
  /\ changed = {}
  /\ port = [p \in Ports |-> Absent]
  /\ portdata = [i \in PIfs |-> Absent]
  /\ lport = [i \in PIfs |-> NoVlans]
  /\ crashed = FALSE
  /\ pevents = 0

PortEvent == pevents < MaxPortEvents /\ pevents' = pevents + 1

-----------------------------------------------------------------------------
\* The database and the kernel.

SetRow(p, r) ==
  /\ PortEvent
  /\ portRow[p] # r
  /\ portRow' = [portRow EXCEPT ![p] = r]
  /\ changed' = changed \cup {p}
  /\ UNCHANGED <<vlanRow, port, portdata, lport, crashed>>

PortChange ==
  \E p \in Ports :
    \/ SetRow(p, Absent)
    \/ \E c \in Configs, m \in SUBSET PIfs :
         /\ \A q \in Ports \ {p} : portRow[q] # Absent => portRow[q].members \cap m = {}
         /\ SetRow(p, [config |-> c, members |-> m])

\* Nothing in the daemon waits for changes of the VLAN table.
VlanChange(v) ==
  /\ PortEvent
  /\ vlanRow' = IF v \in vlanRow THEN vlanRow \ {v} ELSE vlanRow \cup {v}
  /\ UNCHANGED <<portRow, changed, port, portdata, lport, crashed>>

-----------------------------------------------------------------------------
\* lldpd_reconfigure_port.

VlanMode(c) ==
  CASE c.mode \in {"access", "trunk", "native-tagged", "native-untagged"} -> c.mode
    [] c.mode = Absent -> IF c.tag # NoTag THEN "access" ELSE "trunk"
    [] OTHER -> "trunk"

Known(s) == SelectSeq(s, LAMBDA v : v \in vlanRow)

\* set_lldp_pvid
WithPvid(l, c) ==
  IF c.tag = NoTag THEN l ELSE [pvid |-> c.tag, vlans |-> l.vlans \o Known(<<c.tag>>)]

\* set_lldp_trunk_vlans
WithTrunks(l, c) == [l EXCEPT !.vlans = @ \o Known(c.trunks)]

AddVlans(l, c, mode) ==
  LET tagged == IF mode # "trunk" THEN WithPvid(l, c) ELSE l
  IN IF mode # "access" THEN WithTrunks(tagged, c) ELSE tagged

\* lldpd_vlan_cleanup
Wiped(l) == [l EXCEPT !.vlans = <<>>]

Mem == [port |-> port, portdata |-> portdata, lport |-> lport]

Has(m, i) == m.lport[i] # Absent

\* The interfaces noted before are wiped; the members that have hardware are
\* noted, point to the port and get its VLANs. Without members the mode stays.
ReconfigurePort(m, p) ==
  LET row == m.port[p].row
      clean == [i \in PIfs |-> IF i \in m.port[p].noted /\ Has(m, i) THEN Wiped(m.lport[i])
                               ELSE m.lport[i]]
      up == {i \in row.members : Has(m, i)}
      mode == IF row.members = {} THEN m.port[p].mode ELSE VlanMode(row.config)
  IN [port     |-> [m.port EXCEPT ![p].mode = mode, ![p].noted = up],
      portdata |-> [i \in PIfs |-> IF i \in up THEN p ELSE m.portdata[i]],
      lport    |-> [i \in PIfs |-> IF i \in up THEN AddVlans(clean[i], row.config, mode)
                                   ELSE clean[i]]]

-----------------------------------------------------------------------------
\* lldpd_apply_port_changes.

\* del_old_port: the interfaces noted lose their VLANs and their pointer;
\* another interface that still points to the port points to freed memory.
DelOldPort(m, p) ==
  LET noted == m.port[p].noted
  IN [port     |-> [m.port EXCEPT ![p] = Absent],
      portdata |-> [i \in PIfs |-> IF i \in noted THEN Absent
                                   ELSE IF m.portdata[i] = p THEN Freed ELSE m.portdata[i]],
      lport    |-> [i \in PIfs |-> IF i \in noted /\ Has(m, i) THEN NoVlans ELSE m.lport[i]]]

AddNewPort(m, p) ==
  [m EXCEPT !.port[p] = [row |-> portRow[p], mode |-> "access", noted |-> {}]]

ModifyPort(m, p) == ReconfigurePort([m EXCEPT !.port[p].row = portRow[p]], p)

\* del_old_port reads the name of the hardware of every interface noted.
DeletesMissing(p) ==
  port[p] # Absent /\ portRow[p] = Absent /\ \E i \in port[p].noted : lport[i] = Absent

\* The orders in which a hash or the kernel may list the members of a set.
Orders(S) == {o \in [1 .. Cardinality(S) -> S] : \A j, k \in DOMAIN o : j # k => o[j] # o[k]}

Becomes(m) == port' = m.port /\ portdata' = m.portdata /\ lport' = m.lport /\ UNCHANGED crashed

Crash == crashed' = TRUE /\ UNCHANGED <<port, portdata, lport>>

Gone(p) == port[p] # Absent /\ portRow[p] = Absent
New(p) == port[p] = Absent /\ portRow[p] # Absent
Mods(p) == p \in changed /\ portRow[p] # Absent

ApplyPortChanges ==
  /\ ~crashed /\ changed # {}
  /\ IF \E p \in Ports : DeletesMissing(p) THEN Crash
     ELSE \E o \in Orders(Ports) :
            LET m1 == FoldLeft(DelOldPort, Mem, SelectSeq(o, Gone))
                m2 == FoldLeft(AddNewPort, m1, SelectSeq(o, New))
            IN Becomes(FoldLeft(ModifyPort, m2, SelectSeq(o, Mods)))
  /\ changed' = {}
  /\ UNCHANGED <<portRow, vlanRow, pevents>>

-----------------------------------------------------------------------------
\* lldpd_update_localports.

\* The port that a new interface belongs to.
Owner(m, i) == {p \in Ports : m.port[p] # Absent /\ i \in m.port[p].row.members}

\* interfaces_helper_physical: known hardware is wiped, new hardware is added
\* and its port configured (add_lldpd_hardware_interface).
Seen(m, i) ==
  IF Has(m, i) THEN [m EXCEPT !.lport[i] = Wiped(@)]
  ELSE LET added == [m EXCEPT !.lport[i] = NoVlans]
       IN IF Owner(m, i) = {} THEN added
          ELSE LET p == CHOOSE q \in Owner(m, i) : TRUE
               IN ReconfigurePort([added EXCEPT !.portdata[i] = p], p)

\* (mutant) Only ports with a tag are restored.
VlansFromOvsdbTagged(m, i) ==
  LET p == m.portdata[i]
  IN IF p = Absent THEN m
     ELSE [m EXCEPT !.lport[i] = WithPvid(@, m.port[p].row.config)]

\* add_vlans_from_ovsdb, for an interface with hardware.
VlansFromOvsdb(m, i) ==
  LET p == m.portdata[i]
  IN IF p = Absent THEN m
     ELSE [m EXCEPT !.lport[i] = AddVlans(@, m.port[p].row.config, m.port[p].mode)]

\* The kernel has the interfaces present; hardware of others is dropped.
UpdateLocalports(present) ==
  /\ ~crashed
  /\ IF present = {i \in PIfs : lport[i] # Absent} THEN UNCHANGED pevents ELSE PortEvent
  /\ \E o \in Orders(present) :
       LET m1 == FoldLeft(Seen, Mem, o)
           m2 == FoldLeft(VlansFromOvsdb, m1, o)
       IN IF \E i \in present : m1.portdata[i] = Freed THEN Crash
          ELSE Becomes([m2 EXCEPT !.lport = [i \in PIfs |-> IF i \in present THEN m2.lport[i]
                                                            ELSE Absent]])
  /\ UNCHANGED <<portRow, vlanRow, changed>>

PortsNext ==
  \/ PortChange
  \/ \E v \in Vids : VlanChange(v)
  \/ ApplyPortChanges
  \/ \E present \in SUBSET PIfs : UpdateLocalports(present)

PortsSpec == PortsInit /\ [][PortsNext]_portVars

-----------------------------------------------------------------------------
Announced(row) ==
  LET mode == VlanMode(row.config)
      tag == IF mode # "trunk" /\ row.config.tag # NoTag THEN <<row.config.tag>> ELSE <<>>
  IN Known(tag \o (IF mode = "access" THEN <<>> ELSE row.config.trunks))

\* An update of the local ports that finds no new hardware, once the changes of
\* the Port table are applied, leaves every member of a port with exactly the
\* VLANs of its row, and with its tag as PVID if it has one, in whatever order
\* rows and interfaces came, went and moved between ports before
\* (lldpd_reconfigure_port, add_vlans_from_ovsdb). A member of a port without a
\* tag may keep the PVID of an earlier configuration, which lldpd_vlan_cleanup
\* does not reset; and nothing is said of a daemon that followed a pointer to
\* missing hardware or to a freed port (Crash), which can happen.
VlansOfMembers ==
  [][\A p \in Ports : \A i \in PIfs :
       /\ \E present \in SUBSET {j \in PIfs : lport[j] # Absent} : UpdateLocalports(present)
       /\ changed = {} /\ ~crashed' /\ portRow[p] # Absent /\ i \in portRow[p].members
       /\ lport'[i] # Absent
       => /\ lport'[i].vlans = Announced(portRow[p])
          /\ (VlanMode(portRow[p].config) # "trunk" /\ portRow[p].config.tag # NoTag
               => lport'[i].pvid = portRow[p].config.tag)]_portVars

=============================================================================
