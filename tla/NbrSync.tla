------------------------------ MODULE NbrSync ------------------------------
(***************************************************************************)
(* How the neighbours of the daemon reach the lldp_neighbor_info column of *)
(* the Interface table in OVSDB. lldpd_decode and lldpd_remote_cleanup     *)
(* leave one change request per interface (h_rport_change_opcode);         *)
(* lldpd_run turns the requests into one transaction (confirm_txn), waits  *)
(* for its outcome and, after TXN_TRY_AGAIN, writes everything again. A    *)
(* database entry that was not stamped for longer than its lifetime and    *)
(* two seconds is removed.                                                 *)
(*                                                                         *)
(* Only one protocol is spoken here and the lifetime is the same for all   *)
(* neighbours; sharing of systems between interfaces is RemoteTable's      *)
(* subject. Times are ages in seconds, saturating at AgeCap. The IDL's     *)
(* copy of the column is not a variable: only this daemon writes it, and   *)
(* it is read only while no transaction of the daemon is outstanding. The  *)
(* zero counters that go into a row with the removal of an aged entry are  *)
(* in OvsdbIfaces, with the counters.                                      *)
(***************************************************************************)
EXTENDS Integers, Sequences, FiniteSets

CONSTANTS
  Ifs,          \* interfaces; each has a row in the Interface table
  Ids,          \* MSAPs
  Infos,        \* what else a neighbour's frame says
  Ttl,          \* c_ttl of every neighbour
  MaxNbrs,      \* c_max_neighbors
  MaxEvents,    \* bound on new information, removals, restarts, requests
  MaxFailures,  \* bound on transactions that do not succeed
  AllowGarbage, \* may frames arrive that change no neighbour?
  AllowError,   \* may a transaction end with another status than TRY_AGAIN?
  MaxLate       \* how long the cleanup timer may be late; Slack + 1 is for ever

ASSUME SyncAssumption == Ttl \in Nat /\ MaxNbrs \in Nat \ {0} /\ MaxLate \in Nat

Slack == 2

AgeCap == Ttl + Slack + 1

None == [id |-> "none"]

VARIABLES
  up,       \* interfaces that have an lldpd_hardware
  enabled,  \* is LLDP enabled?
  rports,   \* h_rports of each interface, oldest insertion first
  op,       \* h_rport_change_opcode
  db,       \* lldp_neighbor_info of each row, in the database
  txn,      \* confirm_txn: what it writes and how it stands
  tryAgain, \* confirm_txn_try_again
  clear,    \* is lldp_num_clear_table_requested ahead of ..._performed?
  events,   \* events so far
  failures  \* failed transactions so far

vars == <<up, enabled, rports, op, db, txn, tryAgain, clear, events, failures>>

NoTxn == [status |-> "none"]

Older(n) == IF n = None THEN None ELSE [n EXCEPT !.age = IF @ < AgeCap THEN @ + 1 ELSE @]

Init ==
  /\ up \in SUBSET Ifs
  /\ enabled = TRUE
  /\ rports = [i \in Ifs |-> <<>>]
  /\ op = [i \in Ifs |-> "NOOP"]
  /\ db = [i \in Ifs |-> None]
  /\ txn = NoTxn
  /\ tryAgain = FALSE
  /\ clear = FALSE
  /\ events = 0
  /\ failures = 0

Event == events < MaxEvents /\ events' = events + 1

-----------------------------------------------------------------------------
\* What reception, ageing and configuration do to the table and the requests.

Hearing(i) == enabled /\ i \in up

\* (mutant) A keepalive replaces whatever was requested.
DuplicateOpAlways(o) == "UPD"

\* lldpd_decode starts by setting the request aside; only the duplicate path
\* looks at it again.
DuplicateOp(o) == IF o \in {"ADD", "MOD"} THEN o ELSE "UPD"

HearDuplicate(i) ==
  /\ Hearing(i)
  /\ \E k \in DOMAIN rports[i] : rports' = [rports EXCEPT ![i][k].age = 0]
  /\ op' = [op EXCEPT ![i] = DuplicateOp(@)]
  /\ UNCHANGED <<up, enabled, db, txn, tryAgain, clear, events, failures>>

Without(s, k) == SubSeq(s, 1, k - 1) \o SubSeq(s, k + 1, Len(s))

\* Something new from a known MSAP: the neighbour moves to the end of the list.
HearChanged(i) ==
  /\ Hearing(i) /\ Event
  /\ \E k \in DOMAIN rports[i], info \in Infos :
       /\ rports[i][k].info # info
       /\ rports' = [rports EXCEPT ![i] =
            Append(Without(@, k), [id |-> rports[i][k].id, info |-> info, age |-> 0])]
  /\ op' = [op EXCEPT ![i] = "MOD"]
  /\ UNCHANGED <<up, enabled, db, txn, tryAgain, clear, failures>>

HearNew(i) ==
  /\ Hearing(i) /\ Event
  /\ Len(rports[i]) < MaxNbrs
  /\ \E id \in Ids, info \in Infos :
       /\ \A k \in DOMAIN rports[i] : rports[i][k].id # id
       /\ rports' = [rports EXCEPT ![i] = Append(@, [id |-> id, info |-> info, age |-> 0])]
  /\ op' = [op EXCEPT ![i] = "ADD"]
  /\ UNCHANGED <<up, enabled, db, txn, tryAgain, clear, failures>>

\* A frame long enough to be looked at that is not decoded, or a new neighbour
\* there is no room for.
HearGarbage(i) ==
  /\ AllowGarbage
  /\ Hearing(i) /\ Event
  /\ op' = [op EXCEPT ![i] = "NOOP"]
  /\ UNCHANGED <<up, enabled, rports, db, txn, tryAgain, clear, failures>>

Alive(n) == n.age < Ttl

\* The neighbours of a list that are alive, in their order.
Remaining(s) ==
  LET left == {k \in DOMAIN s : Alive(s[k])}
      nth(n) == CHOOSE k \in left : Cardinality({j \in left : j <= k}) = n
  IN [n \in 1 .. Cardinality(left) |-> s[nth(n)]]

\* lldpd_cleanup, timer or not: expired neighbours go, on every interface.
Expire ==
  /\ rports' = [i \in Ifs |-> Remaining(rports[i])]
  /\ op' = [i \in Ifs |-> IF rports'[i] # rports[i] THEN "DEL" ELSE op[i]]
  /\ UNCHANGED <<up, enabled, db, txn, tryAgain, clear, events, failures>>

\* An interface disappears with its neighbours and its request.
HwGone(i) ==
  /\ i \in up /\ Event
  /\ up' = up \ {i}
  /\ rports' = [rports EXCEPT ![i] = <<>>]
  /\ op' = [op EXCEPT ![i] = "NOOP"]
  /\ UNCHANGED <<enabled, db, txn, tryAgain, clear, failures>>

HwBack(i) ==
  /\ i \notin up
  /\ up' = up \cup {i}
  /\ UNCHANGED <<enabled, rports, op, db, txn, tryAgain, clear, events, failures>>

\* The database after the transaction.
Applied == [i \in Ifs |-> IF i \in DOMAIN txn.writes THEN txn.writes[i] ELSE db[i]]

ClearAfter == clear /\ ~txn.clears

InFlight == txn # NoTxn /\ txn.status = "sent"

\* The daemon is killed and comes back with an empty table. A transaction that
\* was under way may have reached the database or not.
Restart ==
  /\ Event
  /\ rports' = [i \in Ifs |-> <<>>]
  /\ op' = [i \in Ifs |-> "NOOP"]
  /\ txn' = NoTxn
  /\ tryAgain' = FALSE
  /\ \/ UNCHANGED <<db, clear>>
     \/ InFlight /\ db' = Applied /\ clear' = ClearAfter
  /\ UNCHANGED <<up, enabled, failures>>

Tick ==
  /\ \A i \in Ifs : \A k \in DOMAIN rports[i] : Older(rports[i][k]).age <= Ttl + MaxLate
  /\ rports' = [i \in Ifs |-> [k \in DOMAIN rports[i] |-> Older(rports[i][k])]]
  /\ db' = [i \in Ifs |-> Older(db[i])]
  /\ txn' = IF txn = NoTxn THEN txn
            ELSE [txn EXCEPT !.writes = [i \in DOMAIN @ |-> Older(@[i])]]
  /\ UNCHANGED <<up, enabled, op, tryAgain, clear, events, failures>>

\* An operator asks for the neighbour table to be cleared.
RequestClear ==
  /\ Event
  /\ clear' = TRUE
  /\ UNCHANGED <<up, enabled, rports, op, db, txn, tryAgain, failures>>

-----------------------------------------------------------------------------
\* lldpd_run.

\* What the row of an interface holds after a write of its first neighbour.
NbrUpdate(i) == Head(rports[i])

\* lldp_neighbor_info as lldpd_ovsdb_nbrs_run leaves it for request o.
Requested(i, o) ==
  CASE o \in {"ADD", "MOD"} /\ rports[i] # <<>> -> NbrUpdate(i)
    [] o = "UPD" /\ rports[i] # <<>> -> [db[i] EXCEPT !.age = Head(rports[i]).age]
    [] o = "DEL" -> None
    [] OTHER -> db[i]

\* (mutant) A keepalive for a row without neighbour information is dropped.
EffectiveOpDropped(i) == IF op[i] = "UPD" /\ db[i] = None THEN "NOOP" ELSE op[i]

\* A keepalive for a row without neighbour information writes everything.
EffectiveOp(i) == IF op[i] = "UPD" /\ db[i] = None THEN "ADD" ELSE op[i]

Written(i, o) == o = "DEL" \/ (o # "NOOP" /\ rports[i] # <<>>)

AgedOut(n) == n # None /\ n.age > Ttl + Slack

\* The transaction is sent; it stays confirm_txn until its outcome is known.
Commit(writes, clears) == txn' = [status |-> "sent", writes |-> writes, clears |-> clears]

\* (mutant) Only the rows of present interfaces are aged.
RunNbrsUpOnly ==
  LET after(i) == Requested(i, EffectiveOp(i))
      touched == {i \in up : Written(i, EffectiveOp(i)) \/ AgedOut(after(i))}
  IN /\ txn = NoTxn /\ ~tryAgain /\ ~clear
     /\ op' = [i \in Ifs |-> "NOOP"]
     /\ IF touched = {} THEN UNCHANGED txn
        ELSE Commit([i \in touched |-> IF AgedOut(after(i)) THEN None ELSE after(i)], FALSE)
     /\ UNCHANGED <<up, enabled, rports, db, tryAgain, clear, events, failures>>

\* lldpd_ovsdb_nbrs_run without a clear request: the requests of the interfaces,
\* then the entries that were not stamped for too long.
RunNbrs ==
  LET eff(i) == IF i \in up THEN EffectiveOp(i) ELSE "NOOP"
      after(i) == Requested(i, eff(i))
      touched == {i \in Ifs : Written(i, eff(i)) \/ AgedOut(after(i))}
  IN /\ txn = NoTxn /\ ~tryAgain /\ ~clear
     /\ op' = [i \in Ifs |-> "NOOP"]
     /\ IF touched = {} THEN UNCHANGED txn
        ELSE Commit([i \in touched |-> IF AgedOut(after(i)) THEN None ELSE after(i)], FALSE)
     /\ UNCHANGED <<up, enabled, rports, db, tryAgain, clear, events, failures>>

\* The same with a clear request: table and column are emptied first, which
\* leaves nothing to write for the requests and nothing to age out.
RunClear ==
  /\ txn = NoTxn /\ ~tryAgain /\ clear
  /\ rports' = [i \in Ifs |-> <<>>]
  /\ op' = [i \in Ifs |-> "NOOP"]
  /\ Commit([i \in Ifs |-> None], TRUE)
  /\ UNCHANGED <<up, enabled, db, tryAgain, clear, events, failures>>

\* lldpd_ovsdb_nbrs_change_all after TXN_TRY_AGAIN.
RunChangeAll ==
  /\ txn = NoTxn /\ tryAgain
  /\ op' = [i \in Ifs |-> "NOOP"]
  /\ Commit([i \in up |-> IF rports[i] = <<>> THEN None ELSE NbrUpdate(i)], FALSE)
  /\ UNCHANGED <<up, enabled, rports, db, tryAgain, clear, events, failures>>

RetryAfter(status) == status = "TRY_AGAIN"

\* The outcome of the transaction is there.
RunFinish ==
  /\ txn # NoTxn /\ txn.status # "sent"
  /\ tryAgain' = RetryAfter(txn.status)
  /\ txn' = NoTxn
  /\ UNCHANGED <<up, enabled, rports, op, db, clear, events, failures>>

Run == RunNbrs \/ RunClear \/ RunChangeAll \/ RunFinish

\* With LLDP disabled the column is emptied in a transaction of its own, after
\* the one in flight; its outcome is waited for and not looked at.
ClearAllNbrs ==
  \/ /\ db' = [i \in Ifs |-> None]
     /\ txn' = IF InFlight THEN [txn EXCEPT !.status = "SUCCESS"] ELSE txn
     /\ clear' = IF InFlight THEN ClearAfter ELSE clear
     /\ UNCHANGED failures
  \/ /\ failures < MaxFailures
     /\ failures' = failures + 1
     /\ txn' = IF InFlight THEN [txn EXCEPT !.status = "TRY_AGAIN"] ELSE txn
     /\ UNCHANGED <<db, clear>>

\* LLDP is switched off: every lldpd_hardware is replaced by a fresh one.
Disable ==
  /\ enabled /\ Event
  /\ enabled' = FALSE
  /\ rports' = [i \in Ifs |-> <<>>]
  /\ op' = [i \in Ifs |-> "NOOP"]
  /\ ClearAllNbrs
  /\ UNCHANGED <<up, tryAgain>>

\* Another change of the System table while LLDP is off.
ReconfigureDisabled ==
  /\ ~enabled /\ Event
  /\ ClearAllNbrs
  /\ UNCHANGED <<up, enabled, rports, op, tryAgain>>

Enable ==
  /\ ~enabled
  /\ enabled' = TRUE
  /\ UNCHANGED <<up, rports, op, db, txn, tryAgain, clear, events, failures>>

-----------------------------------------------------------------------------
\* The database server, and the IDL that reports what became of a transaction.

Succeeds ==
  /\ InFlight
  /\ db' = Applied
  /\ clear' = ClearAfter
  /\ txn' = [txn EXCEPT !.status = "SUCCESS"]
  /\ UNCHANGED <<up, enabled, rports, op, tryAgain, events, failures>>

Fails ==
  /\ InFlight /\ DOMAIN txn.writes # {}
  /\ failures < MaxFailures
  /\ failures' = failures + 1
  /\ UNCHANGED <<up, enabled, rports, op, tryAgain, events>>

\* TXN_TRY_AGAIN: nothing was written, or the connection was lost and nobody
\* knows.
TryAgain ==
  /\ Fails
  /\ txn' = [txn EXCEPT !.status = "TRY_AGAIN"]
  /\ \/ UNCHANGED <<db, clear>>
     \/ db' = Applied /\ clear' = ClearAfter

\* TXN_ERROR, TXN_NOT_LOCKED, TXN_ABORTED.
Error ==
  /\ AllowError
  /\ Fails
  /\ txn' = [txn EXCEPT !.status = "ERROR"]
  /\ UNCHANGED <<db, clear>>

-----------------------------------------------------------------------------
Next ==
  \/ \E i \in Ifs : \/ HearDuplicate(i) \/ HearChanged(i) \/ HearNew(i) \/ HearGarbage(i)
                     \/ HwGone(i) \/ HwBack(i)
  \/ Expire \/ Tick \/ Restart \/ RequestClear
  \/ Run \/ Disable \/ ReconfigureDisabled \/ Enable
  \/ Succeeds \/ TryAgain \/ Error

Spec == Init /\ [][Next]_vars

\* lldpd_run is called at least as often as the statistics interval asks for
\* it, the server answers, time passes and the cleanup timer fires, in time.
FairSpec ==
  Spec /\ WF_vars(Run) /\ WF_vars(Succeeds) /\ WF_vars(Tick) /\ WF_vars(Expire)

-----------------------------------------------------------------------------
Nbr == [id : Ids, info : Infos, age : 0 .. AgeCap]

\* The variables have their types; a list holds an MSAP once and respects
\* the limit of lldpd_decode.
TypeOK ==
  /\ up \subseteq Ifs
  /\ {enabled, tryAgain, clear} \subseteq BOOLEAN
  /\ rports \in [Ifs -> Seq(Nbr)]
  /\ \A i \in Ifs : Len(rports[i]) <= MaxNbrs
  /\ \A i \in Ifs : \A j, k \in DOMAIN rports[i] : rports[i][j].id = rports[i][k].id => j = k
  /\ op \in [Ifs -> {"NOOP", "ADD", "MOD", "UPD", "DEL"}]
  /\ \A i \in Ifs : db[i] = None \/ db[i] \in Nbr
  /\ \/ txn = NoTxn
     \/ /\ txn.status \in {"sent", "SUCCESS", "TRY_AGAIN", "ERROR"}
        /\ \A i \in DOMAIN txn.writes : txn.writes[i] = None \/ txn.writes[i] \in Nbr

Settled(i) == i \in up /\ op[i] = "NOOP" /\ txn = NoTxn /\ ~tryAgain

\* With one neighbour at a time on a link: once lldpd_run has nothing left to
\* do for an interface with a neighbour, the column says what the table says,
\* up to the time the neighbour was last heard of, unless that time is so long
\* ago that the entry was aged out. This is what the requests, the check for
\* an earlier ADD/MOD in the duplicate path, and the full synchronization
\* after a failed transaction are for.
InSync ==
  \A i \in Ifs : Settled(i) /\ rports[i] # <<>> =>
     db[i] = Head(rports[i]) \/ Head(rports[i]).age > Ttl + Slack

\* Nothing stays in the column of an interface without any neighbour.
Emptied == \A i \in Ifs : rports[i] = <<>> ~> db[i] = None \/ rports[i] # <<>>

\* An interface that has neighbours gets one of them into the column, even
\* when a delete request of one of them removed the entry or a request was
\* lost: the keepalive of the others writes everything if nothing is there.
ShownEventually == \A i \in Ifs : rports[i] # <<>> ~> db[i] # None \/ rports[i] = <<>>

=============================================================================
