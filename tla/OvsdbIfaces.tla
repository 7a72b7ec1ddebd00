---------------------------- MODULE OvsdbIfaces ----------------------------
(***************************************************************************)
(* Two worlds know interfaces: the database (rows of the Interface table)  *)
(* and the kernel, from which lldpd makes lldpd_hardware structures. They  *)
(* meet in the hash all_interfaces, whose entries (interface_data) point   *)
(* to the row and to the hardware and live as long as either exists. Rows  *)
(* and hardware come and go in any order. The configuration of an          *)
(* interface reaches its hardware through the entry, and the counters of   *)
(* the hardware reach the row through it; after a restart the counters     *)
(* continue from what the row says. The pass that removes aged neighbour   *)
(* entries from the rows writes all-zero counters with them.               *)
(*                                                                         *)
(* An interface has one counter here. What a neighbour entry says and when *)
(* it is too old is NbrSync's subject. lldpd_run copies the database to the *)
(* IDL and applies it at once, so between two calls the IDL is what was    *)
(* applied. Rows hold a direction and a link state.                        *)
(***************************************************************************)
EXTENDS Integers, FiniteSets

CONSTANTS
  Ifs,          \* names of interfaces
  Dirs,         \* values of lldp_enable_dir
  Default,      \* the direction of an interface that has no row
  Indices,      \* kernel indices; more than one: interfaces may be recreated
  MaxCount,     \* bound on the counters
  MaxEvents     \* bound on changes from outside, failures and restarts

ASSUME IfacesAssumption ==
  /\ Default \in Dirs /\ \E d \in Dirs : d # Default
  /\ Indices \subseteq Nat \ {0} /\ Indices # {}
  /\ MaxCount \in Nat /\ MaxEvents \in Nat

VARIABLES
  db,     \* the Interface table of the server
  idl,    \* the copy of it the daemon has applied
  kern,   \* index of each interface in the kernel, 0 for none
  itf,    \* all_interfaces
  hw,     \* g_hardware; index 0 for none
  txn,    \* lldp_stats_txn
  aging,  \* rows whose neighbour entry the confirm_txn on its way removes for its age
  lost,   \* interfaces whose counters this process has set back
  events  \* changes from outside so far

daemon == <<idl, itf, hw, txn, aging, lost>>
ifaceVars == <<db, kern, events, daemon>>

NoRow == [here |-> FALSE, dir |-> Default, link |-> FALSE, nbr |-> FALSE, stats |-> 0]
NoHw == [index |-> 0, dir |-> Default, link |-> FALSE, cnt |-> 0]
NoItf == [here |-> FALSE, row |-> FALSE, hw |-> 0, synced |-> FALSE]
FirstRow == [NoRow EXCEPT !.here = TRUE, !.dir = CHOOSE d \in Dirs : d # Default]
NoTxn == [status |-> "none", values |-> [i \in {} |-> 0]]

IfacesInit ==
  /\ db \in [Ifs -> {NoRow, FirstRow}]
  /\ idl = [i \in Ifs |-> NoRow]
  /\ kern \in [Ifs -> {0, CHOOSE k \in Indices : TRUE}]
  /\ itf = [i \in Ifs |-> NoItf]
  /\ hw = [i \in Ifs |-> NoHw]
  /\ txn = NoTxn /\ aging = {} /\ lost = {} /\ events = 0

Event == events < MaxEvents /\ events' = events + 1

-----------------------------------------------------------------------------
\* Entries of the hash; t is an entry, k an index.

\* add_lldpd_hardware_interface: the entry is found or made.
WithHw(t, k) == [t EXCEPT !.here = TRUE, !.hw = k]

\* (mutant) The entry stays when its last user goes.
WithoutHwKept(t) == [t EXCEPT !.hw = 0]

\* del_lldpd_hardware_interface: freed with its second user.
WithoutHw(t) == IF t.row THEN [t EXCEPT !.hw = 0] ELSE NoItf

\* add_new_db_interface and del_old_db_interface.
WithRow(t) == [t EXCEPT !.here = TRUE, !.row = TRUE]

WithoutRow(t) == IF t.hw = 0 THEN NoItf ELSE [t EXCEPT !.row = FALSE]

\* (mutant) A new lldpd_hardware does not ask the row for its configuration.
NewHwUnconfigured(t, r, k) == [index |-> k, dir |-> Default, link |-> FALSE, cnt |-> 0]

\* A new lldpd_hardware pulls the configuration from the row, if there is one.
NewHw(t, r, k) ==
  [index |-> k, dir |-> IF t.row THEN r.dir ELSE Default,
   link |-> t.row /\ r.link, cnt |-> 0]

\* What lldpd_update_localports leaves of an entry and its hardware: what is
\* new in the kernel is added, and taken out again at once if it cannot be
\* initialized (ok), then what is not there any more is removed.
Pair(t, h) == [itf |-> t, hw |-> h]

Localports(p, r, index, ok) ==
  LET k == IF ok \/ p.hw.index = index THEN index ELSE 0
      fresh == k # 0 /\ p.hw.index # k
      gone == p.hw.index # 0 /\ p.hw.index # k
      added == IF fresh THEN WithHw(p.itf, k) ELSE p.itf
  IN Pair(IF gone THEN WithoutHw(added) ELSE added,
          IF fresh THEN NewHw(p.itf, r, k) ELSE IF gone THEN NoHw ELSE p.hw)

\* lldpd_reset of one hardware.
Reset(p) == Pair(WithoutHw(p.itf), NoHw)

\* Link state, and the direction of a hardware that needed no reset.
Configured(p, r) ==
  IF p.itf.hw = 0 THEN p ELSE [p EXCEPT !.hw.dir = r.dir, !.hw.link = r.link]

-----------------------------------------------------------------------------
\* The database and the kernel.

DbInsert(i) ==
  /\ Event /\ ~db[i].here
  /\ \E d \in Dirs, l \in BOOLEAN :
       db' = [db EXCEPT ![i] = [NoRow EXCEPT !.here = TRUE, !.dir = d, !.link = l]]
  /\ UNCHANGED <<kern, daemon>>

DbModify(i) ==
  /\ Event /\ db[i].here
  /\ \E d \in Dirs, l \in BOOLEAN :
       /\ <<d, l>> # <<db[i].dir, db[i].link>>
       /\ db' = [db EXCEPT ![i].dir = d, ![i].link = l]
  /\ UNCHANGED <<kern, daemon>>

\* A transaction on its way names the row by its UUID, and does nothing to
\* another one of the same interface.
DbDelete(i) ==
  /\ Event /\ db[i].here
  /\ db' = [db EXCEPT ![i] = NoRow]
  /\ txn' = [txn EXCEPT !.values = [j \in DOMAIN @ \ {i} |-> @[j]]]
  /\ aging' = aging \ {i}
  /\ UNCHANGED <<kern, idl, itf, hw, lost>>

Kernel(i) ==
  /\ Event
  /\ \E k \in Indices \cup {0} : k # kern[i] /\ kern' = [kern EXCEPT ![i] = k]
  /\ UNCHANGED <<db, daemon>>

\* A neighbour entry is written to a row or removed from it for another reason
\* than its age (the requests and clear requests of NbrSync), by the same
\* confirm_txn, so not while it removes others.
NbrWritten(i) ==
  /\ Event /\ db[i].here /\ aging = {}
  /\ db' = [db EXCEPT ![i].nbr = ~@]
  /\ UNCHANGED <<kern, daemon>>

\* The server's answer to the statistics transaction.
Written(t) ==
  [i \in Ifs |-> IF t.status = "sent" /\ i \in DOMAIN t.values
                 THEN [db[i] EXCEPT !.stats = t.values[i]] ELSE db[i]]

TxnSucceeds ==
  /\ txn.status = "sent"
  /\ db' = Written(txn)
  /\ txn' = [txn EXCEPT !.status = "done"]
  /\ UNCHANGED <<kern, idl, itf, hw, aging, lost, events>>

TxnFails ==
  /\ txn.status = "sent"
  /\ Event
  /\ txn' = [txn EXCEPT !.status = "done"]
  /\ UNCHANGED <<db, kern, idl, itf, hw, aging, lost>>

\* The server's answer to the transaction of the ageing pass: the entry goes
\* and with it the counters.
Aged(s) ==
  [i \in Ifs |-> IF i \in s THEN [db[i] EXCEPT !.nbr = FALSE, !.stats = 0] ELSE db[i]]

AgingSucceeds ==
  /\ aging # {}
  /\ db' = Aged(aging)
  /\ aging' = {}
  /\ UNCHANGED <<kern, idl, itf, hw, txn, lost, events>>

AgingFails ==
  /\ aging # {}
  /\ Event
  /\ aging' = {}
  /\ UNCHANGED <<db, kern, idl, itf, hw, txn, lost>>

-----------------------------------------------------------------------------
\* The daemon.

\* Counters of synchronized entries whose hardware is another one now.
SetBack(itf2, hw2) ==
  {i \in Ifs : itf[i].synced /\ itf2[i].synced /\ (hw[i].index # hw2[i].index \/ hw2[i].cnt < hw[i].cnt)}

\* Interfaces of the kernel the next update has to initialize; some may fail.
Uninitialized == {i \in Ifs : kern[i] \notin {0, hw[i].index}}

\* lldpd_update_localports, from netlink or the main loop.
UpdateLocalports ==
  \E bad \in SUBSET Uninitialized :
  LET after == [i \in Ifs |-> Localports(Pair(itf[i], hw[i]), idl[i], kern[i], i \notin bad)]
  IN /\ itf' = [i \in Ifs |-> after[i].itf]
     /\ hw' = [i \in Ifs |-> after[i].hw]
     /\ lost' = lost \cup SetBack(itf', hw')
     /\ UNCHANGED <<db, kern, idl, txn, aging, events>>

\* A frame is sent or received.
Count(i) ==
  /\ hw[i].index # 0 /\ hw[i].cnt < MaxCount
  /\ hw' = [hw EXCEPT ![i].cnt = @ + 1]
  /\ UNCHANGED <<db, kern, idl, itf, txn, aging, lost, events>>

\* The first half of lldpd_apply_interface_changes: rows are linked to entries.
Linked(i) == Pair(IF db[i].here THEN WithRow(itf[i]) ELSE WithoutRow(itf[i]), hw[i])

\* No alert is asked for the columns lldp_statistics and lldp_neighbor_info.
Modified(i) ==
  db[i].here /\ <<db[i].here, db[i].dir, db[i].link>> # <<idl[i].here, idl[i].dir, idl[i].link>>

NeedsReset(i) == Modified(i) /\ itf[i].hw # 0 /\ hw[i].dir # db[i].dir

\* handle_interfaces_config_mods. The first changed direction (the order is
\* that of the hash) resets its hardware and updates all local ports; an
\* interface visited later is reset only if that left it with another direction.
\* Resets of an entry (itf.hw) remove the hardware that the name finds.
Applied(i, first, ok) ==
  LET p == Linked(i)
      updated == Localports(p, db[i], kern[i], ok)
  IN IF first = {} THEN (IF Modified(i) THEN Configured(p, db[i]) ELSE p)
     ELSE IF i \in first THEN Localports(Reset(p), db[i], kern[i], ok)
     ELSE IF NeedsReset(i) /\ updated.itf.hw # 0 /\ updated.hw.dir # db[i].dir
          THEN Localports(Reset(updated), db[i], kern[i], ok)
     ELSE IF Modified(i) THEN Configured(updated, db[i]) ELSE updated

Resets == {i \in Ifs : NeedsReset(i)}

Firsts == IF Resets = {} THEN {{}} ELSE {{i} : i \in Resets}

\* The sets of interfaces that may fail to initialize when first is reset.
Failures(first) == IF first = {} THEN {{}} ELSE SUBSET (Uninitialized \cup Resets)

\* (mutant) The counters in the row are forgotten.
SyncedNot(h, r) == h

\* sync_lldp_counters_from_db.
Synced(h, r) == [h EXCEPT !.cnt = @ + r.stats]

\* (mutant) A transaction is never put away.
PutAwayNever(t) == t

\* An answered transaction is destroyed at the next interval.
PutAway(t) == IF t.status = "done" THEN NoTxn ELSE t

\* lldp_process_all_interfaces_counters: entries with row and hardware are
\* synchronized once, then their counters go into the transaction.
Reported(p) == p.itf.row /\ p.itf.hw # 0

\* The rows lldpd_ovsdb_nbrs_run may find too old.
WithNbr == IF aging = {} THEN {i \in Ifs : db[i].here /\ db[i].nbr} ELSE {}

\* lldpd_run: the IDL is refreshed, lldpd_reconfigure applies it, and when the
\* interval has passed lldpd_stats_analyze starts a transaction if none is left
\* or puts an answered one away. Unless its transaction is on its way,
\* lldpd_ovsdb_nbrs_run then removes neighbour entries that are too old.
RunWith(stats, first, bad, old) ==
  LET after == [i \in Ifs |-> Applied(i, first, i \notin bad)]
      start == stats /\ txn = NoTxn
      sync(i) == start /\ Reported(after[i]) /\ ~after[i].itf.synced
  IN /\ idl' = db
     /\ itf' = [i \in Ifs |-> IF sync(i) THEN [after[i].itf EXCEPT !.synced = TRUE]
                              ELSE after[i].itf]
     /\ hw' = [i \in Ifs |-> IF sync(i) THEN Synced(after[i].hw, db[i]) ELSE after[i].hw]
     /\ lost' = lost \cup SetBack(itf', hw')
     /\ txn' = IF start
               THEN [status |-> "sent",
                     values |-> [i \in {j \in Ifs : Reported(after[j])} |-> hw'[i].cnt]]
               ELSE IF stats THEN PutAway(txn) ELSE txn
     /\ aging' = IF aging = {} THEN old ELSE aging
     /\ UNCHANGED <<db, kern, events>>

Run(stats) ==
  \E first \in Firsts : \E bad \in Failures(first), old \in SUBSET WithNbr :
    RunWith(stats, first, bad, old)

\* lldpd_clear_counters.
ClearCounters ==
  /\ Event
  /\ hw' = [i \in Ifs |-> [hw[i] EXCEPT !.cnt = 0]]
  /\ hw' # hw
  /\ lost' = lost \cup SetBack(itf, hw')
  /\ UNCHANGED <<db, kern, idl, itf, txn, aging>>

\* The process ends; a transaction on its way may or may not have arrived.
Restart ==
  /\ Event
  /\ db' \in {db, Written(txn), Aged(aging)}
  /\ idl' = [i \in Ifs |-> NoRow]
  /\ itf' = [i \in Ifs |-> NoItf]
  /\ hw' = [i \in Ifs |-> NoHw]
  /\ txn' = NoTxn /\ aging' = {} /\ lost' = {}
  /\ UNCHANGED kern

IfacesNext ==
  \/ \E i \in Ifs : \/ DbInsert(i) \/ DbModify(i) \/ DbDelete(i) \/ Kernel(i)
                    \/ NbrWritten(i) \/ Count(i)
  \/ TxnSucceeds \/ TxnFails \/ AgingSucceeds \/ AgingFails
  \/ UpdateLocalports \/ ClearCounters \/ Restart
  \/ \E stats \in BOOLEAN : Run(stats)

IfacesSpec == IfacesInit /\ [][IfacesNext]_ifaceVars

\* The statistics interval keeps calling lldpd_run, and the server answers.
IfacesFairSpec ==
  /\ IfacesSpec
  /\ WF_ifaceVars(Run(TRUE)) /\ WF_ifaceVars(TxnSucceeds)

-----------------------------------------------------------------------------
Rows == [here : BOOLEAN, dir : Dirs, link : BOOLEAN, nbr : BOOLEAN, stats : Nat]
Hws == [index : Indices \cup {0}, dir : Dirs, link : BOOLEAN, cnt : Nat]
Itfs == [here : BOOLEAN, row : BOOLEAN, hw : Indices \cup {0}, synced : BOOLEAN]

\* An entry of all_interfaces exists exactly as long as the row or the hardware
\* does, points to exactly those, and every hardware has an entry that leads to
\* it, in whatever order rows and interfaces come and go (del_old_db_interface,
\* del_lldpd_hardware_interface).
HashExact ==
  \A i \in Ifs :
    /\ itf[i].here <=> itf[i].row \/ itf[i].hw # 0
    /\ itf[i].row <=> idl[i].here
    /\ itf[i].hw = hw[i].index

\* A hardware with a row has the configuration of the row, no matter which of
\* them was there first and how the hardware was reset in between
\* (handle_interfaces_config_mods, add_lldpd_hardware_interface).
ConfigApplied ==
  \A i \in Ifs : idl[i].here /\ hw[i].index # 0 =>
    hw[i].dir = idl[i].dir /\ hw[i].link = idl[i].link

\* The counter of a row was written to zero when its neighbour entry aged out.
AgedAway(i) == db[i].nbr /\ ~db'[i].nbr /\ db'[i].stats = 0

\* The counters in the database go back in one way only, also across restarts,
\* failed transactions and transactions that arrive while the process ends: to
\* zero together with a neighbour entry that aged out, unless this process set
\* them back itself. A transaction with counters never brings a lower value
\* (sync_lldp_counters_from_db, lldpd_stats_analyze, lldpd_ovsdb_nbrs_run).
CountersKept ==
  [][\A i \in Ifs \ lost : db[i].here /\ db'[i].here =>
       db[i].stats <= db'[i].stats \/ AgedAway(i)]_ifaceVars

\* What was counted reaches the database, also after the ageing pass has written
\* zeros over it, unless interface or row go before.
CountersReach ==
  \A i \in Ifs :
    (hw[i].index # 0 /\ hw[i].cnt > db[i].stats)
      ~> (hw[i].index = 0 \/ ~db[i].here \/ hw[i].cnt <= db[i].stats)

=============================================================================
