-------------------------------- MODULE Vty --------------------------------
(***************************************************************************)
(* The LLDP commands of vtysh (src/cli/lldp_vty.c). Every session has a    *)
(* replica of the database of its own, which may be behind. A configuring  *)
(* command takes the map of the replica, changes one key of it and writes  *)
(* the whole column back in one transaction: what another writer changed   *)
(* in the column and the replica does not hold yet is undone. Once the     *)
(* transaction is through, the replica holds everything that was written   *)
(* before it. A command whose transaction cannot be created, finds no row  *)
(* or does not succeed changes nothing and is a stuttering step.           *)
(***************************************************************************)
EXTENDS SystemRow

CONSTANTS
  Sessions,    \* vtysh processes
  Timers,      \* arguments of "lldp timer"
  Holds,       \* arguments of "lldp holdtime"
  Reinits,     \* arguments of "lldp reinit"
  Addrs,       \* arguments of "lldp management-address"
  MaxEvents    \* bound on commands, faults and other events of a behaviour

\* The parser refuses numbers outside the range of a command, every TLV has a
\* key of its own, and no string stands for an absent key.
ASSUME VtyAssumption ==
  /\ Timers \subseteq TxMin .. TxMax /\ Holds \subseteq HoldMin .. HoldMax
  /\ Tlvs \cap {"enable", "hold", "reinit", "tx", "mgmt"} = {}
  /\ None \notin {"tx", "rx", "rxtx", "off"}
  /\ MaxEvents \in Nat

VARIABLES
  seen,     \* the replica of each session
  owed,     \* clears asked for and not carried out since (for the properties)
  events    \* events so far

vtyVars == <<seen, owed, events>>

VtyInit ==
  /\ seen = [s \in Sessions |-> db]
  /\ owed = {}
  /\ events = 0

Event == events < MaxEvents /\ events' = events + 1

\* cli_do_config_finish: the transaction is through.
Finish(s, new) ==
  /\ db' = new
  /\ seen' = [seen EXCEPT ![s] = new]

WriteOther(s, key, val) ==
  Event /\ Finish(s, [db EXCEPT !.other = [seen[s].other EXCEPT ![key] = val]]) /\ UNCHANGED owed

\* The key is stored only with a value that is not the default.
UnlessDefault(val, default) == IF val = default THEN None ELSE val

SetGlobalStatus(s, on) == WriteOther(s, "enable", IF on THEN "true" ELSE None)

SetGlobalHoldTime(s, n) == WriteOther(s, "hold", UnlessDefault(n, HoldDefault))

SetGlobalReinitTime(s, n) == WriteOther(s, "reinit", UnlessDefault(n, ReinitDefault))

SetGlobalTimer(s, n) == WriteOther(s, "tx", UnlessDefault(n, TxDefault))

SetTlv(s, k, on) == WriteOther(s, k, IF on THEN None ELSE "false")

SetMgmtAddress(s, a) == WriteOther(s, "mgmt", a)

\* "no lldp management-address", without an address or with the address set;
\* another address is refused.
NoMgmtAddress(s, a) ==
  /\ a = None \/ SmapGet(seen[s].other, "mgmt", a) = a
  /\ WriteOther(s, "mgmt", None)

\* "lldp clear counters" and "lldp clear neighbors".
Clear(s, what) ==
  /\ Event
  /\ Finish(s, [db EXCEPT !.status = [seen[s].status EXCEPT ![<<what, "requested">>] =
                                       Requested(seen[s].status, what) + 1]])
  /\ owed' = owed \cup {what}

ClearCounters(s) == Clear(s, "counters")

ClearNeighbors(s) == Clear(s, "table")

-----------------------------------------------------------------------------
\* The commands of an interface; w is "tx" or "rx".

Other(w) == IF w = "tx" THEN "rx" ELSE "tx"

IfState(d, w) == CASE d \in {None, "off"} -> w [] d = Other(w) -> "rxtx" [] OTHER -> d

\* (mutant) Switching off what is not on clears the value.
IfNoDirStateForget(d, w) ==
  CASE d \in {None, "rxtx"} -> Other(w) [] d = w -> "off" [] OTHER -> None

IfNoDirState(d, w) == CASE d \in {None, "rxtx"} -> Other(w) [] d = w -> "off" [] OTHER -> d

WriteDir(s, i, d) ==
  /\ ~seen[s].split[i]
  /\ Event
  /\ Finish(s, [db EXCEPT !.dir[i] = d])
  /\ UNCHANGED owed

IfLldpState(s, i, w) == WriteDir(s, i, IfState(seen[s].dir[i], w))

IfLldpNoDirState(s, i, w) == WriteDir(s, i, IfNoDirState(seen[s].dir[i], w))

\* vtysh_intf_context_lldp_clientcallback: the lines of the running
\* configuration of an interface.
RunningConfig(d) ==
  CASE d = "tx" -> <<[no |-> FALSE, w |-> "tx"], [no |-> TRUE, w |-> "rx"]>>
    [] d = "rx" -> <<[no |-> FALSE, w |-> "rx"], [no |-> TRUE, w |-> "tx"]>>
    [] d = "off" -> <<[no |-> TRUE, w |-> "tx"], [no |-> TRUE, w |-> "rx"]>>
    [] OTHER -> <<>>

-----------------------------------------------------------------------------
\* What the show commands print from the replica r.

ShowTlv(r) == {k \in Tlvs : SmapGetBool(r.other, k, TlvDefault)}

ShowConfig(r) ==
  [enabled |-> SmapGetBool(r.other, "enable", EnableDefault),
   tx      |-> SmapGet(r.other, "tx", TxDefault),
   hold    |-> SmapGet(r.other, "hold", HoldDefault),
   tlvs    |-> ShowTlv(r)]

\* The columns Transmission-enabled and Reception-enabled of an interface.
Directions(d) ==
  CASE d = "off" -> {} [] d = "tx" -> {"tx"} [] d = "rx" -> {"rx"} [] OTHER -> {"tx", "rx"}

ShowLocalDevice(r) ==
  [mgmt |-> (IF r.other["mgmt"] # None THEN {r.other["mgmt"]} ELSE {r.ip, r.ip6}) \ {None},
   caps |-> {c \in {"Bridge", "Router"} : IF c = "Bridge" THEN r.bridge ELSE r.vrf},
   ttl  |-> Ttl(SmapGet(r.other, "tx", TxDefault), SmapGet(r.other, "hold", HoldDefault))]

\* The range of an unsigned counter; 2^30 stands for 2^32, which TLC's integers
\* do not reach.
CounterRange == 1073741824

\* "Total neighbor entries" of one interface, an unsigned difference.
ShowNeighborInfo(r, i) == (r.stats[i].ins - r.stats[i].del) % CounterRange

-----------------------------------------------------------------------------
\* The replica of a session catches up with the database.
Refresh(s) == seen[s] # db /\ seen' = [seen EXCEPT ![s] = db] /\ UNCHANGED <<db, owed, events>>

VtyNext ==
  \E s \in Sessions :
    \/ \E on \in BOOLEAN : SetGlobalStatus(s, on)
    \/ \E n \in Holds : SetGlobalHoldTime(s, n)
    \/ \E n \in Reinits : SetGlobalReinitTime(s, n)
    \/ \E n \in Timers : SetGlobalTimer(s, n)
    \/ \E k \in Tlvs, on \in BOOLEAN : SetTlv(s, k, on)
    \/ \E a \in Addrs : SetMgmtAddress(s, a)
    \/ \E a \in Addrs \cup {None} : NoMgmtAddress(s, a)
    \/ ClearCounters(s)
    \/ ClearNeighbors(s)
    \/ \E i \in Ifs, w \in {"tx", "rx"} : IfLldpState(s, i, w) \/ IfLldpNoDirState(s, i, w)
    \/ Refresh(s)
=============================================================================
