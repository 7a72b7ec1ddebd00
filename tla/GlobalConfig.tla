---------------------------- MODULE GlobalConfig ----------------------------
(***************************************************************************)
(* The daemon's side of the System row: lldpd_run reads what the IDL has   *)
(* received, lldpd_reconfigure applies the changes to the configuration    *)
(* and the local chassis, the neighbour counters are reported, and the     *)
(* requests to clear are served. The answer to a request rewrites the      *)
(* status column from what was read; its transaction arrives later, over   *)
(* whatever the commands of vtysh wrote in the meantime. The counters are  *)
(* written by a transaction of their own, and set back to zero by the one  *)
(* that removes an aged neighbour entry. Composed with Vty.                *)
(***************************************************************************)
EXTENDS Vty

CONSTANTS
  Forwarding,   \* does the kernel forward packets?
  MaxNbrs       \* c_max_neighbors

VARIABLES
  cfg,      \* g_config and the local chassis
  idl,      \* the rows as lldpd_reconfigure saw them last
  vrfSeqno, \* did the VRF table change since?
  landing,  \* the status column confirm_txn is about to write
  sent,     \* the counters lldp_stats_txn is about to write
  hw        \* neighbours and counters of the interfaces

daemonVars == <<cfg, idl, vrfSeqno, landing, sent, hw>>

vars == <<db, vtyVars, daemonVars>>

\* lldpd_reconfigure has not been called yet.
Unread == [read |-> FALSE]

Fresh == [enabled |-> TRUE, tx |-> TxDefault, hold |-> HoldDefault,
          ttl |-> TxDefault * HoldDefault, tlvs |-> Tlvs, mgmt |-> {}, caps |-> {}]

NoHw == [n |-> 0, ins |-> 0, del |-> 0, synced |-> FALSE]

DaemonInit ==
  /\ cfg = Fresh /\ idl = Unread /\ vrfSeqno = TRUE /\ landing = None /\ sent = None
  /\ hw = [i \in Ifs |-> NoHw]

Init == RowInit /\ VtyInit /\ DaemonInit

-----------------------------------------------------------------------------
\* lldpd_reconfigure.

Without(c, cap) == [c EXCEPT !.caps = @ \ {cap}]
With(c, cap) == [c EXCEPT !.caps = @ \cup {cap}]

ApplyBridge(c) == IF db.bridge THEN With(c, "Bridge") ELSE Without(c, "Bridge")

\* A VRF table that has a row and did not change is not looked at.
ApplyVrf(c) ==
  IF ~db.vrf THEN Without(c, "Router") ELSE IF vrfSeqno THEN With(c, "Router") ELSE c

\* (mutant) The lifetime follows the interval only.
ApplyHoldAlone(c, hold) == IF hold \in HoldMin .. HoldMax THEN [c EXCEPT !.hold = hold] ELSE c

ApplyTx(c, tx) ==
  IF tx # c.tx /\ tx \in TxMin .. TxMax THEN [c EXCEPT !.tx = tx, !.ttl = Ttl(tx, c.hold)] ELSE c

ApplyHold(c, hold) ==
  IF hold # c.hold /\ hold \in HoldMin .. HoldMax
  THEN [c EXCEPT !.hold = hold, !.ttl = Ttl(c.tx, hold)] ELSE c

\* The address configured, or else those of the management interface.
MgmtAddress(c) ==
  [c EXCEPT !.mgmt = (IF db.other["mgmt"] # None THEN {db.other["mgmt"]} ELSE {db.ip, db.ip6})
                       \ {None}]

ApplyTlvs(c) == [c EXCEPT !.tlvs = {k \in Tlvs : SmapGetBool(db.other, k, TlvDefault)}]

ApplyGlobal(c) ==
  LET timed == ApplyHold(ApplyTx(c, SmapGet(db.other, "tx", TxDefault)),
                         SmapGet(db.other, "hold", HoldDefault))
  IN [ApplyTlvs(MgmtAddress(timed)) EXCEPT
        !.enabled = SmapGetBool(db.other, "enable", EnableDefault)]

Reconfigured(c) == ApplyGlobal(ApplyVrf(ApplyBridge(c)))

\* lldpd_remote_cleanup of all neighbours, none of them expired.
Emptied(h) == [h EXCEPT !.n = 0, !.del = @ + h.n]

\* lldpd_reset and lldpd_update_localports: new hardware with new counters; the
\* entry of the interface remembers that the counters were taken over.
Replaced(h) == [NoHw EXCEPT !.synced = h.synced]

-----------------------------------------------------------------------------
\* Counters and requests.

SyncCounters(h, s) ==
  IF h.synced THEN h
  ELSE [h EXCEPT !.ins = @ + s.ins, !.del = @ + s.del, !.synced = TRUE]

Stats(h) == [ins |-> h.ins, del |-> h.del]

Answered(status, what) == [status EXCEPT ![<<what, "requested">>] = Requested(status, what),
                                         ![<<what, "performed">>] = Requested(status, what)]

\* lldpd_clear_nbr_table starts from an empty map.
TableCleared(status) ==
  IF Pending(status, "table")
  THEN [k \in StatusKeys |-> IF k[1] = "table" THEN Requested(status, "table") ELSE None]
  ELSE status

\* lldpd_clear_counters starts from the map of the row.
CountersCleared(status) ==
  IF Pending(status, "counters") THEN Answered(status, "counters") ELSE status

\* (mutant) The deletions of the clearing itself stay in the counter, the
\* insertions do not.
ClearedCountersAll(h) == [Emptied(h) EXCEPT !.ins = 0]

\* The insert counter is not among those set back.
ClearedCounters(h) == [Emptied(h) EXCEPT !.del = 0]

\* (mutant) A request is noticed only by its exact number.
ServedNext(status) ==
  {w \in {"table", "counters"} : Requested(status, w) = Performed(status, w) + 1
                                 /\ (w = "table" \/ ~Pending(status, "table"))}

\* The table comes first; what it writes to the row is what the counters see.
Served(status) ==
  {w \in {"table", "counters"} :
     Pending(IF w = "table" THEN status ELSE TableCleared(status), w)}

\* lldpd_run. due: has the statistics interval passed? One transaction with
\* counters is on its way at a time. busy: is confirm_txn taken by an update of
\* neighbours, which is the subject of NbrSync?
Run(due, busy) ==
  LET new     == IF idl = db /\ ~vrfSeqno THEN cfg ELSE Reconfigured(cfg)
      reset   == new.enabled # cfg.enabled
      hw1     == [i \in Ifs |-> IF reset THEN Replaced(hw[i]) ELSE hw[i]]
      report  == due /\ sent = None
      hw2     == [i \in Ifs |-> IF report THEN SyncCounters(hw1[i], db.stats[i]) ELSE hw1[i]]
      served  == IF landing = None /\ ~busy THEN Served(db.status) ELSE {}
      hw3     == [i \in Ifs |-> IF "table" \in served THEN Emptied(hw2[i]) ELSE hw2[i]]
  IN /\ cfg' = new /\ vrfSeqno' = FALSE
     /\ idl' = db
     /\ sent' = IF report THEN [i \in Ifs |-> Stats(hw2[i])] ELSE sent
     /\ hw' = [i \in Ifs |-> IF "counters" \in served THEN ClearedCounters(hw3[i]) ELSE hw3[i]]
     /\ landing' = IF served # {} THEN CountersCleared(TableCleared(db.status)) ELSE landing
     /\ owed' = owed \ served
     /\ UNCHANGED <<db, seen, events>>

\* The transaction with the new status arrives.
Lands ==
  /\ landing # None
  /\ db' = [db EXCEPT !.status = landing] /\ landing' = None
  /\ UNCHANGED <<vtyVars, cfg, idl, vrfSeqno, sent, hw>>

Fails ==
  /\ landing # None /\ Event
  /\ landing' = None
  /\ UNCHANGED <<db, seen, owed, cfg, idl, vrfSeqno, sent, hw>>

\* The transaction with the counters arrives, or fails.
StatsLand ==
  /\ sent # None
  /\ db' = [db EXCEPT !.stats = sent] /\ sent' = None
  /\ UNCHANGED <<vtyVars, cfg, idl, vrfSeqno, landing, hw>>

StatsFail ==
  /\ sent # None /\ Event
  /\ sent' = None
  /\ UNCHANGED <<db, seen, owed, cfg, idl, vrfSeqno, landing, hw>>

\* The update of neighbours that finds the entry of an interface aged removes it
\* and writes zeros for its counters; the daemon's own counters stay.
AgesOut(i) ==
  /\ landing = None /\ db.stats[i] # NoStats /\ Event
  /\ db' = [db EXCEPT !.stats[i] = NoStats]
  /\ UNCHANGED <<seen, owed, daemonVars>>

\* lldpd_loop, every 30 seconds and whenever the chassis changed: the router
\* capability is that of the kernel.
Loop ==
  /\ cfg' = IF Forwarding THEN With(cfg, "Router") ELSE Without(cfg, "Router")
  /\ UNCHANGED <<db, vtyVars, idl, vrfSeqno, landing, sent, hw>>

\* A new neighbour is heard; one leaves or its lifetime ends.
Learn(i) ==
  /\ cfg.enabled /\ hw[i].n < MaxNbrs /\ Event
  /\ hw' = [hw EXCEPT ![i].n = @ + 1, ![i].ins = @ + 1]
  /\ UNCHANGED <<db, seen, owed, cfg, idl, vrfSeqno, landing, sent>>

Leave(i) ==
  /\ hw[i].n > 0 /\ Event
  /\ hw' = [hw EXCEPT ![i].n = @ - 1, ![i].del = @ + 1]
  /\ UNCHANGED <<db, seen, owed, cfg, idl, vrfSeqno, landing, sent>>

\* The daemon ends and starts again; what was on its way may have arrived.
Restart ==
  /\ Event
  /\ cfg' = Fresh /\ idl' = Unread /\ vrfSeqno' = TRUE /\ landing' = None /\ sent' = None
  /\ hw' = [i \in Ifs |-> NoHw]
  /\ \E status \in {db.status, landing} \ {None}, stats \in {db.stats, sent} \ {None} :
       db' = [db EXCEPT !.status = status, !.stats = stats]
  /\ UNCHANGED <<seen, owed>>

-----------------------------------------------------------------------------
\* The rest of the switch: bridge, VRF, management interface, split interfaces.

Environment ==
  /\ \/ db' = [db EXCEPT !.bridge = ~@] /\ UNCHANGED vrfSeqno
     \/ db' = [db EXCEPT !.vrf = ~@] /\ vrfSeqno' = TRUE
     \/ \E a \in Addrs \cup {None} :
          (db' = [db EXCEPT !.ip = a] \/ db' = [db EXCEPT !.ip6 = a]) /\ UNCHANGED vrfSeqno
     \/ \E i \in Ifs : db' = [db EXCEPT !.split[i] = ~@] /\ UNCHANGED vrfSeqno
  /\ Event
  /\ UNCHANGED <<seen, owed, cfg, idl, landing, sent, hw>>

Next ==
  \/ VtyNext /\ UNCHANGED daemonVars
  \/ Environment
  \/ \E due, busy \in BOOLEAN : Run(due, busy)
  \/ Lands \/ Fails \/ StatsLand \/ StatsFail \/ Loop \/ Restart
  \/ \E i \in Ifs : Learn(i) \/ Leave(i) \/ AgesOut(i)

Spec == Init /\ [][Next]_vars

-----------------------------------------------------------------------------
\* Whether LLDP is enabled, the transmit interval, the hold time, the optional
\* TLVs, the management addresses, the lifetime and the bridge capability that
\* "show lldp configuration" and "show lldp local-device" print are those the
\* daemon uses, for every session that sees what the daemon last applied, however
\* values changed and changed back between two looks of the daemon, which keeps
\* what it has where it sees no change (lldpd_apply_global_changes,
\* cli_lldp_show_local_device). The router capability is not among them: the CLI
\* prints whether there is a VRF row and Loop replaces it by what the kernel does.
\* Nor is the reinit delay, of which the daemon keeps no copy.
ShownIsApplied ==
  \A s \in Sessions : seen[s] = idl =>
    /\ ShowConfig(idl) = [enabled |-> cfg.enabled, tx |-> cfg.tx, hold |-> cfg.hold,
                          tlvs |-> cfg.tlvs]
    /\ ShowLocalDevice(idl).mgmt = cfg.mgmt
    /\ ShowLocalDevice(idl).ttl = cfg.ttl
    /\ "Bridge" \in ShowLocalDevice(idl).caps <=> "Bridge" \in cfg.caps

\* The lines of the running configuration, entered on an interface without
\* configuration, give the directions it had
\* (vtysh_intf_context_lldp_clientcallback, lldp_ovsdb_if_lldp_state).
RunningConfigRestores ==
  \A i \in Ifs :
    LET lines == RunningConfig(db.dir[i])
        Enter(d, l) == IF l.no THEN IfNoDirState(d, l.w) ELSE IfState(d, l.w)
        after == IF lines = <<>> THEN None ELSE Enter(Enter(None, lines[1]), lines[2])
    IN Directions(after) = Directions(db.dir[i])

\* The number of neighbour entries "show lldp neighbor-info" derives from two
\* counters never wraps, and is never below the number of neighbours reported,
\* through restarts, clears and counters restored from the database
\* (lldpd_clear_counters, sync_lldp_counters_from_db).
TotalNoWrap ==
  /\ \A s \in Sessions, i \in Ifs : ShowNeighborInfo(seen[s], i) <= MaxEvents
  /\ \A i \in Ifs : hw[i].ins - hw[i].del >= hw[i].n

\* A request to clear the neighbour table is carried out, if no session and no
\* transaction of the daemon still holds an older copy of the column
\* (cli_lldp_clear_neighbors, lldpd_clear_nbr_table).
TableServed ==
  (Pending(db.status, "table") /\ landing = None /\ \A s \in Sessions : seen[s].status = db.status)
    ~> "table" \notin owed

=============================================================================
