---------------------------- MODULE SnmpTables ----------------------------
(***************************************************************************)
(* The plug-in of the SNMP daemon (src/snmp): ten tables and the scalars,  *)
(* filled from a replica of OVSDB. A table is a container of rows that a   *)
(* cache loads when it is asked for and too old; the daemon (snmpd), its   *)
(* cache and its containers are external. And the notifications the LLDP   *)
(* daemon sends to the receivers in OVSDB (src/daemon/LLDP_MIB_traps.c).   *)
(*                                                                         *)
(* A row of the Interface table is known by its name: the number it starts *)
(* with and whether it has a dash. A table is a function from indexes to   *)
(* rows; a row is a record of its columns.                                 *)
(***************************************************************************)
EXTENDS Integers, Sequences, FiniteSets

CONSTANTS
  Absent,      \* an absent key, row or answer
  Names,       \* names of interfaces: [num, dash]
  LldpDirs,    \* written to lldp_enable_dir: among off, tx, rx and rxtx
  ScalarKeys,  \* written to other_config: among lldp_tx_interval, lldp_hold and lldp_reinit
  MibTlvs,     \* TLVs with a bit in lldpPortConfigTLVsTxEnable
  CacheTimeout,
  MaxClock, MaxWrites,
  Receivers    \* the rows of SNMP_Trap, in the order of the replica

ASSUME SnmpAssumption == CacheTimeout \in Nat \ {0}

ASSUME ReceiversAssumption == Receivers \in Seq([version : STRING, type : STRING])

VARIABLES
  ovsdb,    \* the rows as the server has them
  replica,  \* and as the plug-in has them
  table,    \* the table that is asked for: no two of them share anything
  cache,    \* its rows, time of loading and whether the load succeeded
  clock, writes,
  past,     \* what the replica was, with the time
  answer,   \* the answer of the last step
  round,    \* notifications so far
  turn,     \* the receiver that is served, with the local variables
  told,     \* per receiver: the round of which it was sent the values
  fate      \* per receiver: where the round failed for it, and whether its PDU leaked

tableVars == <<ovsdb, replica, table, cache, clock, writes, past, answer>>
trapVars == <<round, turn, told, fate>>
snmpVars == <<tableVars, trapVars>>

----------------------------------------------------------------------------
(* Columns that need more than a look into the row.                        *)

Skipped(n) == n.dash \/ n.num = 0

\* lldpPortConfigAdminStatus_custom_function assigns nothing for a direction it
\* does not know: the variable keeps whatever it held.
AdminStatus(dir) ==
  CASE dir = Absent -> {3}
    [] dir = "off"  -> {4}
    [] dir = "tx"   -> {1}
    [] dir = "rx"   -> {2}
    [] OTHER        -> 0..4

TLVsTxEnable(r) == {t \in MibTlvs : r.other[t] # "false"}

OrZero(value) == IF value = Absent THEN 0 ELSE value

----------------------------------------------------------------------------
(* The rows. What the code has no source for is 0 or empty.                *)

RemRow(r, n) ==
  [ChassisIdSubtype |-> IF r.info[n] = Absent THEN 0 ELSE r.info[n].subtypes[1],
   ChassisId |-> IF r.info[n] = Absent THEN "" ELSE r.info[n].chassis_id,
   PortIdSubtype |-> IF r.info[n] = Absent THEN 0 ELSE r.info[n].subtypes[2],
   PortId |-> n, PortDesc |-> n, SysName |-> r.hostname, SysDesc |-> "",
   SysCapSupported |-> 0, SysCapEnabled |-> TLVsTxEnable(r)]

RemUnknownTLVRow(r, n) == [Info |-> ""]

RemManAddrRow(r, n) == [IfSubtype |-> 0, IfId |-> 0, OID |-> ""]

RemOrgDefInfoRow(r, n) == [Info |-> ""]

LocPortRow(r, n) == [IdSubtype |-> 0, Id |-> n, Desc |-> ""]

StatsTxRow(r, n) == [FramesTotal |-> OrZero(r.stats[n])]

\* The discarded frames are looked for under a key nobody writes.
StatsRxRow(r, n) ==
  [FramesTotal |-> OrZero(r.stats[n]), FramesDiscardedTotal |-> 0, FramesErrors |-> OrZero(r.stats[n]),
   TLVsDiscardedTotal |-> OrZero(r.stats[n]), TLVsUnrecognizedTotal |-> OrZero(r.stats[n]), AgeoutsTotal |-> 0]

LocManAddrRow(r) == [Len |-> 0, IfSubtype |-> 0, IfId |-> 0, OID |-> ""]

ConfigManAddrRow(r) == [PortsTxEnable |-> ""]

----------------------------------------------------------------------------
(* The columns: the getters copy the fields of the row, column by column.  *)
(* The columns of the index, in front of them, are not accessible.         *)

Numbered(first, values) == [c \in first..(first + Len(values) - 1) |-> values[c - first + 1]]

RemColumns(row) ==
  Numbered(4, <<row.ChassisIdSubtype, row.ChassisId, row.PortIdSubtype, row.PortId, row.PortDesc,
                row.SysName, row.SysDesc, row.SysCapSupported, row.SysCapEnabled>>)

RemUnknownTLVColumns(row) == Numbered(2, <<row.Info>>)

RemManAddrColumns(row) == Numbered(3, <<row.IfSubtype, row.IfId, row.OID>>)

RemOrgDefInfoColumns(row) == Numbered(4, <<row.Info>>)

LocPortColumns(row) == Numbered(2, <<row.IdSubtype, row.Id, row.Desc>>)

StatsTxPortColumns(row) == Numbered(2, <<row.FramesTotal>>)

StatsRxPortColumns(row) ==
  Numbered(2, <<row.FramesDiscardedTotal, row.FramesErrors, row.FramesTotal,
                row.TLVsDiscardedTotal, row.TLVsUnrecognizedTotal, row.AgeoutsTotal>>)

LocManAddrColumns(row) == Numbered(3, <<row.Len, row.IfSubtype, row.IfId, row.OID>>)

ConfigManAddrColumns(row) == Numbered(1, <<row.PortsTxEnable>>)

PortConfigColumns(row) == Numbered(2, <<row.AdminStatus, row.NotificationEnable, row.TLVsTxEnable>>)

Columnwise(t, row) ==
  CASE t = "Rem"           -> RemColumns(row)
    [] t = "RemUnknownTLV" -> RemUnknownTLVColumns(row)
    [] t = "RemManAddr"    -> RemManAddrColumns(row)
    [] t = "RemOrgDefInfo" -> RemOrgDefInfoColumns(row)
    [] t = "LocPort"       -> LocPortColumns(row)
    [] t = "StatsTxPort"   -> StatsTxPortColumns(row)
    [] t = "StatsRxPort"   -> StatsRxPortColumns(row)
    [] t = "LocManAddr"    -> LocManAddrColumns(row)
    [] t = "ConfigManAddr" -> ConfigManAddrColumns(row)
    [] t = "PortConfig"    -> PortConfigColumns(row)

----------------------------------------------------------------------------
(* The indexes.                                                            *)

PortIndex(r, n) == <<n.num>>

\* TimeMark and lldpRemIndex are always 0.
RemIndex(r, n) == <<0, n.num, 0>>

RemUnknownTLVIndex(r, n) == RemIndex(r, n) \o <<0>>

\* The address comes from the key lldp_mgmt_add, which nobody writes.
RemManAddrIndex(r, n) == RemIndex(r, n) \o <<0, 0>>

RemOrgDefInfoIndex(r, n) == RemIndex(r, n) \o <<0, 0, 0>>

\* Subtype 0 and the address with its length in front.
ManAddrIndex(r) == IF r.other["mgmt"] = Absent THEN <<0, 0>> ELSE <<0, Len(r.other["mgmt"])>> \o r.other["mgmt"]

----------------------------------------------------------------------------
(* container_load: the set of containers it may end with, or none if it    *)
(* fails. The loop over the Interface rows leaves out what is no port.     *)

Ports(r) == {n \in r.ifs : ~Skipped(n)}

IfLoad(r, Index(_, _), Row(_, _)) ==
  IF r.ifs = {} THEN {}
  ELSE {[x \in {Index(r, n) : n \in Ports(r)} |-> Row(r, CHOOSE n \in Ports(r) : Index(r, n) = x)]}

SystemLoad(r, Row(_)) == IF r.system THEN {[x \in {ManAddrIndex(r)} |-> Row(r)]} ELSE {}

RemTable(r) == IF r.system THEN IfLoad(r, RemIndex, RemRow) ELSE {}

RemUnknownTLVTable(r) == IfLoad(r, RemUnknownTLVIndex, RemUnknownTLVRow)

RemManAddrTable(r) == IF r.system THEN IfLoad(r, RemManAddrIndex, RemManAddrRow) ELSE {}

RemOrgDefInfoTable(r) == IfLoad(r, RemOrgDefInfoIndex, RemOrgDefInfoRow)

LocPortTable(r) == IfLoad(r, PortIndex, LocPortRow)

StatsTxPortTable(r) == IfLoad(r, PortIndex, StatsTxRow)

StatsRxPortTable(r) == IfLoad(r, PortIndex, StatsRxRow)

LocManAddrTable(r) == SystemLoad(r, LocManAddrRow)

ConfigManAddrTable(r) == SystemLoad(r, ConfigManAddrRow)

\* lldp_enable is the number atoi finds in it.
PortConfigTable(r) ==
  IF r.ifs = {} \/ ~r.system THEN {}
  ELSE LET nums == {n.num : n \in Ports(r)}
           port(x) == CHOOSE n \in Ports(r) : n.num = x
       IN  {[x \in {<<k>> : k \in nums} |->
               [AdminStatus |-> status[x[1]], NotificationEnable |-> OrZero(r.enable[port(x[1])]), TLVsTxEnable |-> TLVsTxEnable(r)]]
            : status \in {s \in [nums -> 0..4] : \A k \in nums : s[k] \in AdminStatus(r.dir[port(k)])}}

Tables == {"Rem", "RemUnknownTLV", "RemManAddr", "RemOrgDefInfo", "LocPort", "StatsTxPort", "StatsRxPort",
           "LocManAddr", "ConfigManAddr", "PortConfig"}

Loads(t, r) ==
  CASE t = "Rem"           -> RemTable(r)
    [] t = "RemUnknownTLV" -> RemUnknownTLVTable(r)
    [] t = "RemManAddr"    -> RemManAddrTable(r)
    [] t = "RemOrgDefInfo" -> RemOrgDefInfoTable(r)
    [] t = "LocPort"       -> LocPortTable(r)
    [] t = "StatsTxPort"   -> StatsTxPortTable(r)
    [] t = "StatsRxPort"   -> StatsRxPortTable(r)
    [] t = "LocManAddr"    -> LocManAddrTable(r)
    [] t = "ConfigManAddr" -> ConfigManAddrTable(r)
    [] t = "PortConfig"    -> PortConfigTable(r)

----------------------------------------------------------------------------
(* Requests.                                                               *)

NoRows == [x \in {} |-> Absent]

\* The cache handler, in front of every request: a cache that is valid and
\* young is used; any other is emptied (_cache_free) and loaded (_cache_load).
Fresh == cache.valid /\ clock - cache.at < CacheTimeout

\* (mutant) The rows stay when the cache is freed.
CacheFreeForget(rows) == rows

CacheFree(rows) == NoRows

\* CONTAINER_INSERT: a row that is there already stays.
Inserted(rows, new) ==
  [x \in DOMAIN rows \cup DOMAIN new |-> IF x \in DOMAIN rows THEN rows[x] ELSE new[x]]

Refreshed ==
  IF Fresh THEN {cache}
  ELSE LET left == CacheFree(cache.rows)
       IN  IF Loads(table, replica) = {} THEN {[rows |-> left, at |-> clock, valid |-> FALSE]}
           ELSE {[rows |-> Inserted(left, new), at |-> clock, valid |-> TRUE] : new \in Loads(table, replica)}

\* object_lookup: a row that is not in the container is no such instance.
Lookup(t, rows, x) == IF x \in DOMAIN rows THEN Columnwise(t, rows[x]) ELSE Absent

Get(x) ==
  /\ \E c \in Refreshed :
       /\ cache' = c
       /\ answer' = [table |-> table, index |-> x, row |-> Lookup(table, c.rows, x)]
  /\ UNCHANGED <<ovsdb, replica, table, clock, writes, past>>

\* Scalars are read from the replica, without a cache; an absent key is 0. There
\* has to be a System row.
GetScalar(key) ==
  /\ replica.system
  /\ answer' = [table |-> "scalars", index |-> key, row |-> OrZero(replica.other[key])]
  /\ UNCHANGED <<ovsdb, replica, table, cache, clock, writes, past>>

----------------------------------------------------------------------------
(* Notifications: send_lldpRemTablesChange serves the rows of SNMP_Trap one *)
(* after the other, each with local variables of its own. What it sends is  *)
(* known by the number of the round. How the library answers is external;   *)
(* the daemon does nothing else meanwhile.                                  *)

\* The declarations at the top of the body of the loop; 0 is no row.
Locals(k) == [row |-> k, at |-> "version", pdu |-> FALSE, status |-> 0, inform |-> FALSE, failed |-> "no"]

Waiting == [failed |-> "waiting", leaked |-> FALSE]

\* lldpd_decode and lldpd_remote_cleanup notify; without a receiver that is all.
NeighborChange ==
  /\ turn.row = 0 /\ Len(Receivers) > 0
  /\ round < MaxWrites
  /\ round' = round + 1
  /\ turn' = Locals(1)
  /\ fate' = [k \in DOMAIN Receivers |-> Waiting]
  /\ UNCHANGED told

\* A PDU is made before the credentials are looked up (v1) or after it (v2c and
\* v3); a version nobody knows makes none. Credentials may be refused.
Version ==
  LET row == Receivers[turn.row]
      known == row.version \in {"v1", "v2c", "v3"}
  IN  /\ turn.row > 0 /\ turn.at = "version"
      /\ \E ok \in BOOLEAN :
           turn' = IF known /\ ok
                   THEN [turn EXCEPT !.at = "variables", !.pdu = TRUE,
                                     !.inform = row.version # "v1" /\ row.type = "inform"]
                   ELSE [turn EXCEPT !.at = "cleanup", !.pdu = row.version = "v1", !.failed = "version"]
      /\ UNCHANGED <<round, told, fate>>

\* Six variables are added; the first that cannot be is the last.
AddVars ==
  /\ turn.row > 0 /\ turn.at = "variables"
  /\ turn' \in {[turn EXCEPT !.at = "send"], [turn EXCEPT !.at = "cleanup", !.status = 1, !.failed = "variables"]}
  /\ UNCHANGED <<round, told, fate>>

\* ops_snmp_send_trap: what was sent, and any inform, is the library's to free.
SendTrap ==
  /\ turn.row > 0 /\ turn.at = "send"
  /\ \/ /\ told' = [told EXCEPT ![turn.row] = round]
        /\ turn' = [turn EXCEPT !.at = "cleanup", !.pdu = FALSE]
     \/ /\ turn' = [turn EXCEPT !.at = "cleanup", !.status = -1, !.pdu = ~turn.inform, !.failed = "send"]
        /\ UNCHANGED told
  /\ UNCHANGED <<round, fate>>

\* (mutant) A failure ends the round.
NextRowUnlessFailed(t) == IF t.status # 0 \/ t.row = Len(Receivers) THEN Locals(0) ELSE Locals(t.row + 1)

\* loop_cleanup is the end of the body, not of the loop.
NextRow(t) == IF t.row = Len(Receivers) THEN Locals(0) ELSE Locals(t.row + 1)

\* A trap that failed is freed. A PDU that is still there is nobody's.
LoopCleanup ==
  /\ turn.row > 0 /\ turn.at = "cleanup"
  /\ fate' = [fate EXCEPT ![turn.row] =
                [failed |-> turn.failed, leaked |-> turn.pdu /\ ~(turn.status # 0 /\ ~turn.inform)]]
  /\ turn' = NextRow(turn)
  /\ UNCHANGED <<round, told>>

TrapNext == NeighborChange \/ Version \/ AddVars \/ SendTrap \/ LoopCleanup

TrapInit ==
  /\ round = 0 /\ turn = Locals(0)
  /\ told = [k \in DOMAIN Receivers |-> 0]
  /\ fate = [k \in DOMAIN Receivers |-> Waiting]

TrapSpec == TrapInit /\ [][TrapNext]_trapVars

----------------------------------------------------------------------------
(* The environment of the tables.                                          *)

Neighbor == [chassis_id |-> "c1", subtypes |-> <<4, 5>>]

Write(new) ==
  /\ writes < MaxWrites
  /\ ovsdb' = new /\ new # ovsdb
  /\ writes' = writes + 1
  /\ answer' = Absent
  /\ UNCHANGED <<replica, table, cache, clock, past>>

Writes ==
  \/ \E n \in Names : Write([ovsdb EXCEPT !.ifs = IF n \in @ THEN @ \ {n} ELSE @ \cup {n}])
  \/ \E n \in ovsdb.ifs, d \in LldpDirs \cup {Absent} : Write([ovsdb EXCEPT !.dir[n] = d])
  \/ \E n \in ovsdb.ifs : Write([ovsdb EXCEPT !.enable[n] = IF @ = Absent THEN 1 ELSE Absent])
  \/ \E n \in ovsdb.ifs : Write([ovsdb EXCEPT !.info[n] = IF @ = Absent THEN Neighbor ELSE Absent])
  \/ \E n \in ovsdb.ifs : Write([ovsdb EXCEPT !.stats[n] = IF @ = Absent THEN 1 ELSE @ + 1])
  \/ \E t \in MibTlvs, v \in {"false", Absent} : Write([ovsdb EXCEPT !.other[t] = v])
  \/ \E k \in ScalarKeys, v \in {5, Absent} : Write([ovsdb EXCEPT !.other[k] = v])
  \/ \E a \in {<<1>>, Absent} : Write([ovsdb EXCEPT !.other["mgmt"] = a])
  \/ Write([ovsdb EXCEPT !.system = ~@])

IdlRun ==
  /\ replica # ovsdb
  /\ replica' = ovsdb
  /\ past' = past \cup {<<clock, ovsdb>>}
  /\ answer' = Absent
  /\ UNCHANGED <<ovsdb, table, cache, clock, writes>>

Tick ==
  /\ clock < MaxClock
  /\ clock' = clock + 1
  /\ past' = past \cup {<<clock + 1, replica>>}
  /\ answer' = Absent
  /\ UNCHANGED <<ovsdb, replica, table, cache, writes>>

TablesInit ==
  /\ ovsdb = [system |-> TRUE, ifs |-> Names, hostname |-> "switch",
              dir |-> [n \in Names |-> Absent], enable |-> [n \in Names |-> Absent], info |-> [n \in Names |-> Absent],
              stats |-> [n \in Names |-> Absent],
              other |-> [k \in MibTlvs \cup ScalarKeys \cup {"mgmt"} |-> Absent]]
  /\ replica = ovsdb
  /\ table \in Tables
  /\ cache = [rows |-> NoRows, at |-> 0, valid |-> FALSE]
  /\ clock = 0 /\ writes = 0
  /\ past = {<<0, ovsdb>>}
  /\ answer = Absent

Indexes == UNION {DOMAIN rows : rows \in Loads(table, ovsdb) \cup {cache.rows}}

TablesNext ==
  \/ Writes \/ IdlRun \/ Tick
  \/ \E x \in Indexes : Get(x)
  \/ \E k \in ScalarKeys : GetScalar(k)

TablesSpec == TablesInit /\ [][TablesNext]_tableVars

----------------------------------------------------------------------------
(* Properties.                                                             *)

\* What a manager is told was so in the replica at most the time of the cache
\* ago: the row of the answer, or that there is none, is what loading the table
\* gives for a replica of that time, although tables are loaded at different
\* times, loads fail while rows are missing, and rows come and go.
MibRecent ==
  (answer # Absent /\ answer.table \in Tables) =>
    \E p \in past :
      /\ clock - CacheTimeout < p[1] /\ p[1] <= clock
      /\ \/ \E rows \in Loads(answer.table, p[2]) : answer.row = Lookup(table, rows, answer.index)
         \/ Loads(answer.table, p[2]) = {} /\ answer.row = Absent

\* When a round of send_lldpRemTablesChange is over, every receiver has had its
\* turn, and all but those whose own credentials, variables or sending failed
\* were sent the values of this change, whatever happened to the receivers
\* before. No PDU is left behind by what may fail, except that of a v1 receiver
\* without credentials and that of an inform whose variables cannot be added:
\* these two error paths leak it.
RoundServed ==
  (turn.row = 0 /\ round > 0) =>
    \A k \in DOMAIN Receivers :
      /\ fate[k].failed # "waiting"
      /\ fate[k].failed = "no" <=> told[k] = round
      /\ fate[k].leaked => \/ Receivers[k].version = "v1" /\ fate[k].failed = "version"
                           \/ Receivers[k].type = "inform" /\ fate[k].failed = "variables"
=============================================================================
