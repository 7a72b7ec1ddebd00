-------------------------------- MODULE Snmp --------------------------------
(***************************************************************************)
(* The two ways to the LLDP MIB: the AgentX subagent of the daemon (Agent) *)
(* and the plug-in that reads OVSDB (SnmpTables). They share no state, nor *)
(* do the tables of the plug-in and its notifications: a behaviour         *)
(* exercises one of the three.                                             *)
(***************************************************************************)
EXTENDS Agent, SnmpTables

VARIABLE focus

SnmpInit ==
  /\ AgentInit /\ TablesInit /\ TrapInit
  /\ focus \in {"neighbors", "tables", "traps"}
  /\ focus # "tables" => table = "Rem"

SnmpNext ==
  \/ focus = "neighbors" /\ NeighborsNext /\ UNCHANGED <<snmpVars, focus>>
  \/ focus = "tables" /\ TablesNext /\ UNCHANGED <<agentVars, trapVars, focus>>
  \/ focus = "traps" /\ TrapNext /\ UNCHANGED <<agentVars, tableVars, focus>>

SnmpSpec == SnmpInit /\ [][SnmpNext]_<<agentVars, snmpVars, focus>>
=============================================================================
