------------------------- MODULE GlobalConfigProofs -------------------------
(***************************************************************************)
(* Proofs about the configuration of LLDP in OVSDB, for any interfaces,    *)
(* sessions of vtysh, arguments of its commands and number of events: what *)
(* the show commands print is what the daemon applies, the number of       *)
(* neighbours derived from two counters never wraps, and the running       *)
(* configuration of an interface restores it.                              *)
(***************************************************************************)
EXTENDS GlobalConfig, TLAPS

Values == Timers \cup Holds \cup Reinits \cup Addrs \cup {"true", "false", None}

\* other_config: numbers and addresses have keys of their own.
Maps == {o \in [ConfigKeys -> Values] : /\ o["tx"] \in Timers \cup {None}
                                        /\ o["hold"] \in Holds \cup {None}
                                        /\ o["mgmt"] \in Addrs \cup {None}}

Statuses == [StatusKeys -> Nat \cup {None}]

Counts == [ins : Nat, del : Nat]

\* The rows, with what the commands and the daemon store in them.
Rows ==
  [other  : Maps, status : Statuses,
   ip     : Addrs \cup {None}, ip6 : Addrs \cup {None},
   bridge : BOOLEAN, vrf : BOOLEAN,
   dir    : [Ifs -> {"tx", "rx", "rxtx", "off", None}],
   split  : [Ifs -> BOOLEAN],
   stats  : [Ifs -> Counts]]

Settings ==
  [enabled : BOOLEAN, tx : TxMin .. TxMax, hold : HoldMin .. HoldMax, ttl : Nat,
   tlvs : SUBSET Tlvs, mgmt : SUBSET Addrs, caps : SUBSET {"Bridge", "Router"}]

RowTypes ==
  /\ db \in Rows /\ seen \in [Sessions -> Rows]
  /\ landing = None \/ landing \in Statuses
  /\ sent = None \/ sent \in [Ifs -> Counts]
  /\ events \in 0 .. MaxEvents

-----------------------------------------------------------------------------
\* Rows.

\* A column of a row is replaced.
LEMMA OtherColumn ==
  ASSUME NEW r \in Rows, NEW o \in Maps
  PROVE  [r EXCEPT !.other = o] \in Rows /\ [r EXCEPT !.other = o].stats = r.stats
BY Zenon DEF Rows

LEMMA StatusColumn ==
  ASSUME NEW r \in Rows, NEW t \in Statuses
  PROVE  [r EXCEPT !.status = t] \in Rows /\ [r EXCEPT !.status = t].stats = r.stats
BY Zenon DEF Rows

LEMMA DirColumn ==
  ASSUME NEW r \in Rows, NEW i \in Ifs, NEW d \in {"tx", "rx", "rxtx", "off", None}
  PROVE  [r EXCEPT !.dir[i] = d] \in Rows /\ [r EXCEPT !.dir[i] = d].stats = r.stats
BY Zenon DEF Rows

\* One key of other_config is replaced.
LEMMA KeyWritten ==
  ASSUME NEW o \in Maps, NEW k \in ConfigKeys, NEW v \in Values,
         k = "tx" => v \in Timers \cup {None}, k = "hold" => v \in Holds \cup {None},
         k = "mgmt" => v \in Addrs \cup {None}
  PROVE  [o EXCEPT ![k] = v] \in Maps
<1>1. [o EXCEPT ![k] = v] \in [ConfigKeys -> Values]  BY Zenon DEF Maps
<1>2. \A q \in ConfigKeys : [o EXCEPT ![k] = v][q] = IF q = k THEN v ELSE o[q]  BY Zenon DEF Maps
<1>3. {"tx", "hold", "mgmt"} \subseteq ConfigKeys  BY Zenon DEF ConfigKeys
<1> QED  BY <1>1, <1>2, <1>3, Zenon DEF Maps

\* The answers to requests, and the requests.
LEMMA StatusWritten ==
  ASSUME NEW t \in Statuses, NEW what \in {"counters", "table"}
  PROVE  /\ Requested(t, what) \in Nat
         /\ [t EXCEPT ![<<what, "requested">>] = Requested(t, what) + 1] \in Statuses
         /\ Answered(t, what) \in Statuses
         /\ TableCleared(t) \in Statuses /\ CountersCleared(t) \in Statuses
<1>1. \A w \in {"counters", "table"} : <<w, "requested">> \in StatusKeys  BY Zenon DEF StatusKeys
<1>2. \A w \in {"counters", "table"} : t[<<w, "requested">>] \in Nat \cup {None}
  BY <1>1, Zenon DEF Statuses
<1>3. \A w \in {"counters", "table"} : Requested(t, w) \in Nat  BY <1>2, Zenon DEF Requested, SmapGet
<1>4. \A w \in {"counters", "table"} : Answered(t, w) \in Statuses
  BY <1>3, Zenon DEF Answered, Statuses
<1>5. TableCleared(t) \in Statuses  BY <1>3, Zenon DEF TableCleared, Statuses
<1>6. CountersCleared(t) \in Statuses  BY <1>4, Zenon DEF CountersCleared
<1>7. [t EXCEPT ![<<what, "requested">>] = Requested(t, what) + 1] \in Statuses
  <2>1. PICK n \in Nat : n = Requested(t, what) + 1  BY <1>3
  <2>2. [t EXCEPT ![<<what, "requested">>] = n] \in Statuses  BY Zenon DEF Statuses
  <2> QED  BY <2>1, <2>2, Zenon
<1> QED  BY <1>3, <1>4, <1>5, <1>6, <1>7, Zenon

\* A step that writes no counters leaves the rows well formed.
StatsKept ==
  /\ RowTypes' /\ db'.stats = db.stats /\ sent' \in {sent, None} /\ events <= events'
  /\ \A s \in Sessions : seen'[s].stats \in {seen[s].stats, db.stats}

\* A transaction of a session of vtysh.
LEMMA FinishKeeps ==
  ASSUME RowTypes, NEW s \in Sessions, NEW new \in Rows, new.stats = db.stats,
         Event, Finish(s, new), UNCHANGED daemonVars
  PROVE  StatsKept
<1>1. events' \in 0 .. MaxEvents /\ events <= events'  BY VtyAssumption DEF Event, RowTypes
<1>2. db' = new /\ seen' = [seen EXCEPT ![s] = new]  BY Zenon DEF Finish
<1>3. \A q \in Sessions : seen'[q] = IF q = s THEN new ELSE seen[q]  BY <1>2, Zenon DEF RowTypes
<1>4. RowTypes'  BY <1>1, <1>2, Zenon DEF RowTypes, daemonVars
<1> QED  BY <1>1, <1>2, <1>3, <1>4, Zenon DEF StatsKept, daemonVars

\* A command that writes a key of other_config.
LEMMA WriteOtherKeeps ==
  ASSUME RowTypes, NEW s \in Sessions, NEW k \in ConfigKeys, NEW v \in Values,
         k = "tx" => v \in Timers \cup {None}, k = "hold" => v \in Holds \cup {None},
         k = "mgmt" => v \in Addrs \cup {None}, WriteOther(s, k, v), UNCHANGED daemonVars
  PROVE  StatsKept
<1>1. db \in Rows /\ seen[s].other \in Maps  BY Zenon DEF RowTypes, Rows
<1>2. PICK o \in Maps : o = [seen[s].other EXCEPT ![k] = v]  BY <1>1, KeyWritten, Zenon
<1>3. PICK new \in Rows : new = [db EXCEPT !.other = o] /\ new.stats = db.stats
  BY <1>1, OtherColumn, Zenon
<1>4. Event /\ Finish(s, new)  BY <1>2, <1>3, Zenon DEF WriteOther
<1> QED  BY <1>3, <1>4, FinishKeeps, Zenon

\* The commands of vtysh.
LEMMA VtySteps ==
  ASSUME RowTypes, VtyNext, UNCHANGED daemonVars
  PROVE  StatsKept
<1>1. UNCHANGED daemonVars  OBVIOUS
<1>2. PICK s \in Sessions :
        \/ \E on \in BOOLEAN : SetGlobalStatus(s, on)
        \/ \E n \in Holds : SetGlobalHoldTime(s, n)
        \/ \E n \in Reinits : SetGlobalReinitTime(s, n)
        \/ \E n \in Timers : SetGlobalTimer(s, n)
        \/ \E k \in Tlvs, on \in BOOLEAN : SetTlv(s, k, on)
        \/ \E a \in Addrs : SetMgmtAddress(s, a)
        \/ \E a \in Addrs \cup {None} : NoMgmtAddress(s, a)
        \/ ClearCounters(s)
        \/ ClearNeighbors(s)
        \/ \E i \in Ifs, w \in {"tx", "rx"} : IfLldpState(s, i, w) \/ IfLldpNoDirState(s, i, w)
        \/ Refresh(s)
  BY Zenon DEF VtyNext
<1>3. /\ {"enable", "hold", "reinit", "tx", "mgmt"} \cup Tlvs = ConfigKeys
      /\ \A k \in Tlvs : k \notin {"enable", "hold", "reinit", "tx", "mgmt"}
  BY VtyAssumption, Zenon DEF ConfigKeys
<1>4. None \in Values /\ "true" \in Values /\ "false" \in Values /\ Holds \subseteq Values
      /\ Timers \subseteq Values /\ Reinits \subseteq Values /\ Addrs \subseteq Values
  BY Zenon DEF Values
<1>5. CASE \E on \in BOOLEAN : SetGlobalStatus(s, on)
  <2>1. PICK v \in {"true", None} : WriteOther(s, "enable", v)  BY <1>5, Zenon DEF SetGlobalStatus
  <2> QED  BY <1>1, <1>3, <1>4, <2>1, WriteOtherKeeps, Zenon
<1>6. CASE \E n \in Holds : SetGlobalHoldTime(s, n)
  <2>1. PICK v \in Holds \cup {None} : WriteOther(s, "hold", v)
    BY <1>6, Zenon DEF SetGlobalHoldTime, UnlessDefault
  <2> QED  BY <1>1, <1>3, <1>4, <2>1, WriteOtherKeeps, Zenon
<1>7. CASE \E n \in Reinits : SetGlobalReinitTime(s, n)
  <2>1. PICK v \in Reinits \cup {None} : WriteOther(s, "reinit", v)
    BY <1>7, Zenon DEF SetGlobalReinitTime, UnlessDefault
  <2> QED  BY <1>1, <1>3, <1>4, <2>1, WriteOtherKeeps, Zenon
<1>8. CASE \E n \in Timers : SetGlobalTimer(s, n)
  <2>1. PICK v \in Timers \cup {None} : WriteOther(s, "tx", v)
    BY <1>8, Zenon DEF SetGlobalTimer, UnlessDefault
  <2> QED  BY <1>1, <1>3, <1>4, <2>1, WriteOtherKeeps, Zenon
<1>9. CASE \E k \in Tlvs, on \in BOOLEAN : SetTlv(s, k, on)
  <2>1. PICK k \in Tlvs, v \in {"false", None} : WriteOther(s, k, v)  BY <1>9, Zenon DEF SetTlv
  <2> QED  BY <1>1, <1>3, <1>4, <2>1, WriteOtherKeeps, Zenon
<1>10. CASE (\E a \in Addrs : SetMgmtAddress(s, a))
            \/ (\E a \in Addrs \cup {None} : NoMgmtAddress(s, a))
  <2>1. PICK v \in Addrs \cup {None} : WriteOther(s, "mgmt", v)
    BY <1>10, Zenon DEF SetMgmtAddress, NoMgmtAddress
  <2> QED  BY <1>1, <1>3, <1>4, <2>1, WriteOtherKeeps, Zenon
<1>11. CASE ClearCounters(s) \/ ClearNeighbors(s)
  <2>1. PICK what \in {"counters", "table"} : Clear(s, what)
    BY <1>11, Zenon DEF ClearCounters, ClearNeighbors
  <2>2. db \in Rows /\ seen[s].status \in Statuses  BY Zenon DEF RowTypes, Rows
  <2>3. PICK t \in Statuses :
          t = [seen[s].status EXCEPT ![<<what, "requested">>] = Requested(seen[s].status, what) + 1]
    BY <2>2, StatusWritten, Zenon
  <2>4. PICK new \in Rows : new = [db EXCEPT !.status = t] /\ new.stats = db.stats
    BY <2>2, StatusColumn, Zenon
  <2>5. Event /\ Finish(s, new)  BY <2>1, <2>3, <2>4, Zenon DEF Clear
  <2> QED  BY <1>1, <2>4, <2>5, FinishKeeps, Zenon
<1>12. CASE \E i \in Ifs, w \in {"tx", "rx"} : IfLldpState(s, i, w) \/ IfLldpNoDirState(s, i, w)
  <2>1. PICK i \in Ifs, w \in {"tx", "rx"} : IfLldpState(s, i, w) \/ IfLldpNoDirState(s, i, w)
    BY <1>12, Zenon
  <2>2. db \in Rows /\ seen[s].dir[i] \in {"tx", "rx", "rxtx", "off", None}
    BY Zenon DEF RowTypes, Rows
  <2>3. PICK d \in {"tx", "rx", "rxtx", "off", None} : WriteDir(s, i, d)
    BY <2>1, <2>2, Zenon DEF IfLldpState, IfLldpNoDirState, IfState, IfNoDirState, Other
  <2>4. PICK new \in Rows : new = [db EXCEPT !.dir[i] = d] /\ new.stats = db.stats
    BY <2>2, DirColumn, ZenonT(30)
  <2>5. Event /\ Finish(s, new)  BY <2>3, <2>4, Zenon DEF WriteDir
  <2> QED  BY <1>1, <2>4, <2>5, FinishKeeps, Zenon
<1>13. CASE Refresh(s)
  <2>1. /\ seen' = [seen EXCEPT ![s] = db] /\ UNCHANGED <<db, events>>  BY <1>13, Zenon DEF Refresh
  <2>2. \A q \in Sessions : seen'[q] = IF q = s THEN db ELSE seen[q]  BY <2>1, Zenon DEF RowTypes
  <2>3. RowTypes' /\ sent' = sent  BY <1>1, <2>1, Zenon DEF RowTypes, daemonVars
  <2>4. events <= events'  BY <2>1 DEF RowTypes
  <2> QED  BY <2>1, <2>2, <2>3, <2>4, Zenon DEF StatsKept
<1> QED  BY <1>2, <1>5, <1>6, <1>7, <1>8, <1>9, <1>10, <1>11, <1>12, <1>13, Zenon

\* The steps of the switch and of the daemon that touch no counter.
LEMMA OtherSteps ==
  ASSUME RowTypes, Environment \/ Lands \/ Fails \/ StatsFail \/ Loop \/ UNCHANGED vars
  PROVE  StatsKept
<1>1. /\ seen' = seen /\ events' \in 0 .. MaxEvents /\ events <= events'
  BY VtyAssumption DEF RowTypes, Environment, Lands, Fails, StatsFail, Loop, vars, vtyVars, Event
<1>2. db' \in Rows /\ db'.stats = db.stats
  <2>1. CASE Environment
    <3>1. CASE db' = [db EXCEPT !.bridge = ~@]  BY <3>1, Zenon DEF RowTypes, Rows
    <3>2. CASE db' = [db EXCEPT !.vrf = ~@]  BY <3>2, Zenon DEF RowTypes, Rows
    <3>3. CASE \E a \in Addrs \cup {None} : db' = [db EXCEPT !.ip = a]
      <4>1. PICK a \in Addrs \cup {None} : db' = [db EXCEPT !.ip = a]  BY <3>3, Zenon
      <4> QED  BY <4>1, Zenon DEF RowTypes, Rows
    <3>4. CASE \E a \in Addrs \cup {None} : db' = [db EXCEPT !.ip6 = a]
      <4>1. PICK a \in Addrs \cup {None} : db' = [db EXCEPT !.ip6 = a]  BY <3>4, Zenon
      <4> QED  BY <4>1, Zenon DEF RowTypes, Rows
    <3>5. CASE \E i \in Ifs : db' = [db EXCEPT !.split[i] = ~@]
      <4>1. PICK i \in Ifs : db' = [db EXCEPT !.split[i] = ~db.split[i]]  BY <3>5, Zenon
      <4>2. db \in Rows /\ (~db.split[i]) \in BOOLEAN  BY Zenon DEF RowTypes
      <4> QED  BY <4>1, <4>2, Zenon DEF Rows
    <3> QED  BY <2>1, <3>1, <3>2, <3>3, <3>4, <3>5, Zenon DEF Environment
  <2>2. CASE Lands
    <3>1. landing \in Statuses /\ db' = [db EXCEPT !.status = landing]
      BY <2>2, Zenon DEF RowTypes, Lands
    <3> QED  BY <3>1, StatusColumn, Zenon DEF RowTypes
  <2>3. CASE db' = db  BY <2>3, Zenon DEF RowTypes
  <2> QED  BY <2>1, <2>2, <2>3, Zenon DEF Fails, StatsFail, Loop, vars
<1>3. (landing' = None \/ landing' \in Statuses) /\ sent' \in {sent, None}
  BY Zenon DEF RowTypes, Environment, Lands, Fails, StatsFail, Loop, vars, daemonVars
<1>4. RowTypes'  BY <1>1, <1>2, <1>3, Zenon DEF RowTypes
<1> QED  BY <1>1, <1>2, <1>3, <1>4, Zenon DEF StatsKept

-----------------------------------------------------------------------------
\* Counters.

\* An interface has no more neighbours than were inserted and not deleted.
Balanced(h) ==
  /\ h \in [n : Nat, ins : Nat, del : Nat, synced : BOOLEAN]
  /\ h.n + h.del <= h.ins

\* No more neighbours were deleted than inserted, nor more inserted than there
\* were events.
Sound(s) == s.del <= s.ins /\ s.ins <= events

\* What the daemon has counted for an interface, with what it has still to take
\* over from the database, comes from events of its own; counters are sent only
\* once they are taken over.
Counted(i) ==
  /\ Sound(db.stats[i])
  /\ \A s \in Sessions : Sound(seen[s].stats[i])
  /\ sent # None => Sound(sent[i]) /\ hw[i].synced
  /\ Balanced(hw[i])
  /\ hw[i].ins + (IF hw[i].synced THEN 0 ELSE db.stats[i].ins) <= events

CountInv == RowTypes /\ DOMAIN hw = Ifs /\ \A i \in Ifs : Counted(i)

\* Counters that were sound stay so when more events have happened.
LEMMA SoundLater ==
  ASSUME CountInv, events' \in Nat, events <= events', NEW i \in Ifs
  PROVE  /\ events \in Nat
         /\ db.stats[i] \in Counts /\ \A s \in Sessions : seen[s].stats[i] \in Counts
         /\ sent # None => sent[i] \in Counts
         /\ \A c \in Counts : c.ins \in Nat /\ c.del \in Nat
                            /\ (Sound(c) => c.del <= c.ins /\ c.ins <= events')
<1>1. events \in Nat  BY VtyAssumption DEF CountInv, RowTypes
<1>2. db.stats[i] \in Counts /\ \A s \in Sessions : seen[s].stats[i] \in Counts
  BY Zenon DEF CountInv, RowTypes, Rows
<1>3. sent # None => sent[i] \in Counts  BY Zenon DEF CountInv, RowTypes
<1>4. \A c \in Counts : c.ins \in Nat /\ c.del \in Nat  BY Zenon DEF Counts
<1>5. \A c \in Counts : Sound(c) => c.del <= c.ins /\ c.ins <= events'
  BY <1>1, <1>4 DEF Sound
<1> QED  BY <1>1, <1>2, <1>3, <1>4, <1>5, Zenon

\* lldpd_remote_cleanup counts what it deletes, lldpd_clear_counters sets only
\* that counter back, and neither touches the insertions.
LEMMA ClearingBalanced ==
  ASSUME NEW h, Balanced(h)
  PROVE  /\ Balanced(Emptied(h)) /\ Emptied(h).ins = h.ins /\ Emptied(h).synced = h.synced
         /\ Balanced(ClearedCounters(h)) /\ ClearedCounters(h).ins = h.ins
         /\ ClearedCounters(h).synced = h.synced
<1>1. PICK d \in Nat : d = h.del + h.n /\ d <= h.ins  BY DEF Balanced
<1>2. Emptied(h) = [h EXCEPT !.n = 0, !.del = d]  BY <1>1, Zenon DEF Emptied, Balanced
<1>3. PICK e : e = [h EXCEPT !.n = 0, !.del = d]  BY Zenon
<1>4. e \in [n : Nat, ins : Nat, del : Nat, synced : BOOLEAN] /\ e.n = 0 /\ e.del = d
      /\ e.ins = h.ins /\ e.synced = h.synced
  BY <1>3, Zenon DEF Balanced
<1>5. Balanced(e)  BY <1>1, <1>4 DEF Balanced
<1>6. PICK c : c = [e EXCEPT !.del = 0]  BY Zenon
<1>7. c \in [n : Nat, ins : Nat, del : Nat, synced : BOOLEAN] /\ c.n = 0 /\ c.del = 0
      /\ c.ins = h.ins /\ c.synced = h.synced
  BY <1>4, <1>6, Zenon
<1>8. h.ins \in Nat  BY Zenon DEF Balanced
<1>9. Balanced(c)  BY <1>7, <1>8 DEF Balanced
<1>10. ClearedCounters(h) = c  BY <1>2, <1>3, <1>6, Zenon DEF ClearedCounters
<1> QED  BY <1>2, <1>3, <1>4, <1>5, <1>7, <1>9, <1>10, Zenon

\* sync_lldp_counters_from_db adds what the row says, once.
LEMMA SyncBalanced ==
  ASSUME NEW h, Balanced(h), NEW s \in Counts, s.del <= s.ins
  PROVE  /\ Balanced(SyncCounters(h, s)) /\ SyncCounters(h, s).synced
         /\ SyncCounters(h, s).ins = h.ins + (IF h.synced THEN 0 ELSE s.ins)
<1>1. h.n \in Nat /\ h.ins \in Nat /\ h.del \in Nat /\ h.synced \in BOOLEAN
      /\ s.ins \in Nat /\ s.del \in Nat /\ h.n + h.del <= h.ins
  BY Zenon DEF Balanced, Counts
<1>2. CASE h.synced
  BY <1>1, <1>2 DEF SyncCounters
<1>3. CASE ~h.synced
  <2>1. PICK a \in Nat, d \in Nat : a = h.ins + s.ins /\ d = h.del + s.del /\ h.n + d <= a
    BY <1>1
  <2>2. SyncCounters(h, s) = [h EXCEPT !.ins = a, !.del = d, !.synced = TRUE]
    BY <1>3, <2>1, Zenon DEF SyncCounters, Balanced
  <2>3. PICK e : e = [h EXCEPT !.ins = a, !.del = d, !.synced = TRUE]  BY Zenon
  <2>4. e \in [n : Nat, ins : Nat, del : Nat, synced : BOOLEAN] /\ e.n = h.n /\ e.ins = a
        /\ e.del = d /\ e.synced
    BY <2>3, Zenon DEF Balanced
  <2>5. Balanced(e)  BY <2>1, <2>4, Zenon DEF Balanced
  <2> QED  BY <1>3, <2>1, <2>2, <2>3, <2>4, <2>5, Zenon
<1> QED  BY <1>1, <1>2, <1>3, Zenon

\* New hardware has counted nothing.
LEMMA ReplacedBalanced ==
  ASSUME NEW h, Balanced(h)
  PROVE  Balanced(Replaced(h)) /\ Replaced(h).ins = 0 /\ Replaced(h).synced = h.synced
<1>1. PICK e : e = Replaced(h)  BY Zenon
<1>2. h.synced \in BOOLEAN  BY Zenon DEF Balanced
<1>3. e \in [n : Nat, ins : Nat, del : Nat, synced : BOOLEAN] /\ e.n = 0 /\ e.ins = 0 /\ e.del = 0
      /\ e.synced = h.synced
  BY <1>1, <1>2, Zenon DEF Replaced, NoHw
<1>4. Balanced(e)  BY <1>3 DEF Balanced
<1> QED  BY <1>1, <1>3, <1>4, Zenon

\* A step that touches neither the counters of the daemon nor those of the row.
LEMMA UncountedSteps ==
  ASSUME CountInv, StatsKept, hw' = hw
  PROVE  CountInv'
<1>1. /\ RowTypes' /\ db'.stats = db.stats /\ sent' \in {sent, None} /\ events <= events'
      /\ \A s \in Sessions : seen'[s].stats \in {seen[s].stats, db.stats}
  BY Zenon DEF StatsKept
<1>2. events' \in Nat  BY <1>1, VtyAssumption DEF RowTypes
<1>3. ASSUME NEW i \in Ifs PROVE Counted(i)'
  <2>1. Counted(i)  BY Zenon DEF CountInv
  <2>2. Sound(db.stats[i])'  BY <1>1, <1>2, <2>1, SoundLater, Zenon DEF Counted, Sound
  <2>3. ASSUME NEW s \in Sessions PROVE Sound(seen[s].stats[i])'
    BY <1>1, <1>2, <2>1, SoundLater, Zenon DEF Counted, Sound
  <2>4. (sent # None => Sound(sent[i]) /\ hw[i].synced)'
    BY <1>1, <1>2, <2>1, SoundLater, Zenon DEF Counted, Sound
  <2>5. hw[i].ins \in Nat /\ db.stats[i].ins \in Nat /\ events \in Nat
    BY <1>1, <1>2, <2>1, SoundLater, Zenon DEF Counted, Balanced
  <2>6. hw[i].ins + (IF hw[i].synced THEN 0 ELSE db.stats[i].ins) <= events  BY <2>1, Zenon DEF Counted
  <2>7. hw[i].ins + (IF hw[i].synced THEN 0 ELSE db.stats[i].ins) <= events'
    BY <1>1, <1>2, <2>5, <2>6
  <2>8. Balanced(hw[i])'  BY <2>1, Zenon DEF Counted, Balanced
  <2> QED  BY <1>1, <2>2, <2>3, <2>4, <2>7, <2>8, Zenon DEF Counted
<1> QED  BY <1>1, <1>3, Zenon DEF CountInv

\* The counters on their way arrive, or those of an interface are set to zero.
LEMMA StatsSteps ==
  ASSUME CountInv, StatsLand \/ \E i \in Ifs : AgesOut(i)
  PROVE  CountInv'
<1>1. /\ UNCHANGED <<seen, landing, hw>> /\ sent' \in {sent, None}
      /\ events' = events \/ (events < MaxEvents /\ events' = events + 1)
  BY Zenon DEF StatsLand, AgesOut, Event, vtyVars, daemonVars
<1>2. events' \in 0 .. MaxEvents /\ events <= events' /\ events' \in Nat
  BY <1>1, VtyAssumption DEF CountInv, RowTypes
<1>3. NoStats \in Counts /\ NoStats.ins = 0 /\ NoStats.del = 0  BY Zenon DEF NoStats, Counts
<1>4. db \in Rows /\ db.stats \in [Ifs -> Counts]  BY Zenon DEF CountInv, RowTypes, Rows
<1>5. PICK st \in [Ifs -> Counts] :
        /\ db' = [db EXCEPT !.stats = st]
        /\ \/ sent # None /\ st = sent
           \/ \A j \in Ifs : st[j] \in {db.stats[j], NoStats}
  <2>1. CASE StatsLand  BY <2>1, Zenon DEF StatsLand, CountInv, RowTypes
  <2>2. CASE \E i \in Ifs : AgesOut(i)
    <3>1. PICK i \in Ifs : AgesOut(i)  BY <2>2, Zenon
    <3>2. db' = [db EXCEPT !.stats = [db.stats EXCEPT ![i] = NoStats]]  BY <3>1, Zenon DEF AgesOut
    <3>3. PICK st \in [Ifs -> Counts] : st = [db.stats EXCEPT ![i] = NoStats]  BY <1>3, <1>4, Zenon
    <3>4. \A j \in Ifs : st[j] \in {db.stats[j], NoStats}  BY <1>4, <3>3, Zenon
    <3> QED  BY <3>2, <3>3, <3>4, Zenon
  <2> QED  BY <2>1, <2>2, Zenon
<1>6. db' \in Rows /\ db'.stats = st  BY <1>4, <1>5, Zenon DEF Rows
<1>7. RowTypes'  BY <1>1, <1>2, <1>6, Zenon DEF CountInv, RowTypes
<1>8. ASSUME NEW i \in Ifs PROVE Counted(i)'
  <2>1. Counted(i)  BY Zenon DEF CountInv
  <2>2. /\ hw[i].ins \in Nat /\ events \in Nat /\ st[i].ins \in Nat /\ db.stats[i].ins \in Nat
    BY <1>2, <1>5, <2>1, SoundLater, Zenon DEF Counted, Balanced, Counts
  <2>3. hw[i].ins + (IF hw[i].synced THEN 0 ELSE db.stats[i].ins) <= events  BY <2>1, Zenon DEF Counted
  <2>4. /\ st[i].del <= st[i].ins /\ st[i].ins <= events'
        /\ hw[i].ins + (IF hw[i].synced THEN 0 ELSE st[i].ins) <= events'
    <3>1. CASE sent # None /\ st = sent
      <4>1. st[i].del <= st[i].ins /\ st[i].ins <= events' /\ hw[i].synced
        BY <1>2, <2>1, <3>1, SoundLater, Zenon DEF Counted
      <4>2. hw[i].ins + 0 <= events'  BY <1>2, <2>2, <2>3, <4>1
      <4> QED  BY <4>1, <4>2, Zenon
    <3>2. CASE st[i] = db.stats[i]
      <4>1. st[i].del <= st[i].ins /\ st[i].ins <= events'
        BY <1>2, <2>1, <3>2, SoundLater, Zenon DEF Counted
      <4>2. hw[i].ins + (IF hw[i].synced THEN 0 ELSE db.stats[i].ins) <= events'
        BY <1>2, <2>2, <2>3
      <4> QED  BY <3>2, <4>1, <4>2, Zenon
    <3>3. CASE st[i] = NoStats
      <4>1. st[i].ins = 0 /\ st[i].del = 0  BY <1>3, <3>3, Zenon
      <4> QED  BY <1>2, <2>2, <2>3, <4>1
    <3> QED  BY <1>5, <3>1, <3>2, <3>3, Zenon
  <2>5. Sound(db.stats[i])'  BY <1>6, <2>4, Zenon DEF Sound
  <2>6. \A s \in Sessions : Sound(seen[s].stats[i])'
    BY <1>1, <1>2, <2>1, SoundLater, Zenon DEF Counted, Sound
  <2>7. (sent # None => Sound(sent[i]) /\ hw[i].synced)'
    BY <1>1, <1>2, <2>1, SoundLater, Zenon DEF Counted, Sound
  <2>8. Balanced(hw[i])'  BY <1>1, <2>1, Zenon DEF Counted, Balanced
  <2> QED  BY <1>1, <1>6, <2>4, <2>5, <2>6, <2>7, <2>8, Zenon DEF Counted
<1> QED  BY <1>1, <1>7, <1>8, Zenon DEF CountInv

\* A neighbour enters or leaves, and is counted.
LEMMA NeighborSteps ==
  ASSUME CountInv, NEW i \in Ifs, Learn(i) \/ Leave(i)
  PROVE  CountInv'
<1>1. /\ UNCHANGED <<db, seen, landing, sent>> /\ events < MaxEvents /\ events' = events + 1
  BY Zenon DEF Learn, Leave, Event
<1>2. events \in Nat /\ events' \in Nat /\ events' \in 0 .. MaxEvents /\ events <= events'
  BY <1>1, VtyAssumption DEF CountInv, RowTypes
<1>3. RowTypes'  BY <1>1, <1>2, Zenon DEF CountInv, RowTypes
<1>4. Balanced(hw[i]) /\ hw[i].n \in Nat /\ hw[i].ins \in Nat /\ hw[i].del \in Nat
      /\ hw[i].n + hw[i].del <= hw[i].ins
  BY Zenon DEF CountInv, Counted, Balanced
<1>5. PICK h : /\ hw' = [hw EXCEPT ![i] = h] /\ Balanced(h) /\ h.synced = hw[i].synced
               /\ h.ins <= hw[i].ins + 1 /\ h.ins \in Nat
  <2>1. CASE Learn(i)
    <3>1. PICK a \in Nat, b \in Nat : a = hw[i].n + 1 /\ b = hw[i].ins + 1 /\ a + hw[i].del <= b
      <4>1. /\ hw[i].n + 1 \in Nat /\ hw[i].ins + 1 \in Nat
            /\ hw[i].n + 1 + hw[i].del <= hw[i].ins + 1
        BY <1>4
      <4> QED  BY <4>1, Zenon
    <3>2. PICK h : h = [hw[i] EXCEPT !.n = a, !.ins = b]  BY Zenon
    <3>3. hw' = [hw EXCEPT ![i] = h]  BY <2>1, <3>1, <3>2, Zenon DEF Learn, CountInv
    <3>4. h \in [n : Nat, ins : Nat, del : Nat, synced : BOOLEAN] /\ h.n = a /\ h.ins = b
          /\ h.del = hw[i].del /\ h.synced = hw[i].synced
      BY <1>4, <3>2, Zenon DEF Balanced
    <3>5. Balanced(h)  BY <3>1, <3>4, Zenon DEF Balanced
    <3>6. h.ins <= hw[i].ins + 1 /\ h.ins \in Nat  BY <1>4, <3>1, <3>4
    <3> QED  BY <3>3, <3>4, <3>5, <3>6, Zenon
  <2>2. CASE Leave(i)
    <3>1. hw[i].n > 0  BY <2>2, Zenon DEF Leave
    <3>2. PICK a \in Nat, b \in Nat : a = hw[i].n - 1 /\ b = hw[i].del + 1 /\ a + b <= hw[i].ins
      <4>1. /\ hw[i].n - 1 \in Nat /\ hw[i].del + 1 \in Nat
            /\ (hw[i].n - 1) + (hw[i].del + 1) <= hw[i].ins
        BY <1>4, <3>1
      <4> QED  BY <4>1, Zenon
    <3>3. PICK h : h = [hw[i] EXCEPT !.n = a, !.del = b]  BY Zenon
    <3>4. hw' = [hw EXCEPT ![i] = h]  BY <2>2, <3>2, <3>3, Zenon DEF Leave, CountInv
    <3>5. h \in [n : Nat, ins : Nat, del : Nat, synced : BOOLEAN] /\ h.n = a /\ h.ins = hw[i].ins
          /\ h.del = b /\ h.synced = hw[i].synced
      BY <1>4, <3>3, Zenon DEF Balanced
    <3>6. Balanced(h)  BY <3>2, <3>5, Zenon DEF Balanced
    <3>7. h.ins <= hw[i].ins + 1 /\ h.ins \in Nat  BY <1>4, <3>5
    <3> QED  BY <3>4, <3>5, <3>6, <3>7, Zenon
  <2> QED  BY <2>1, <2>2, Zenon
<1>6. DOMAIN hw' = Ifs /\ \A j \in Ifs : hw'[j] = IF j = i THEN h ELSE hw[j]
  BY <1>5, Zenon DEF CountInv
<1>7. ASSUME NEW j \in Ifs PROVE Counted(j)'
  <2>1. Counted(j)  BY Zenon DEF CountInv
  <2>2. Sound(db.stats[j])' /\ \A s \in Sessions : Sound(seen[s].stats[j])'
    BY <1>1, <1>2, <2>1, SoundLater, Zenon DEF Counted, Sound
  <2>3. hw[j].ins \in Nat /\ db.stats[j].ins \in Nat
    BY <1>2, <2>1, SoundLater, Zenon DEF Counted, Balanced
  <2>4. hw[j].ins + (IF hw[j].synced THEN 0 ELSE db.stats[j].ins) <= events  BY <2>1, Zenon DEF Counted
  <2>5. hw'[j].ins <= hw[j].ins + 1 /\ hw'[j].ins \in Nat /\ hw'[j].synced = hw[j].synced
    BY <1>5, <1>6, <2>3
  <2>6. hw'[j].ins + (IF hw[j].synced THEN 0 ELSE db.stats[j].ins) <= events'
    BY <1>1, <1>2, <2>3, <2>4, <2>5
  <2>7. Balanced(hw[j])'
    <3>1. Balanced(hw'[j])  BY <1>5, <1>6, <2>1, Zenon DEF Counted
    <3> QED  BY <3>1, Zenon DEF Balanced
  <2>8. (sent # None => Sound(sent[j]) /\ hw[j].synced)'
    BY <1>1, <1>2, <2>1, <2>5, SoundLater, Zenon DEF Counted, Sound
  <2> QED  BY <1>1, <2>2, <2>5, <2>6, <2>7, <2>8, Zenon DEF Counted
<1> QED  BY <1>3, <1>6, <1>7, Zenon DEF CountInv

\* A daemon that starts again has counted nothing and will take over what the
\* row says.
LEMMA RestartCounts ==
  ASSUME CountInv, Restart
  PROVE  CountInv'
<1>1. /\ seen' = seen /\ landing' = None /\ sent' = None /\ hw' = [i \in Ifs |-> NoHw]
      /\ events < MaxEvents /\ events' = events + 1
  BY Zenon DEF Restart, Event
<1>2. events \in Nat /\ events' \in Nat /\ events' \in 0 .. MaxEvents /\ events <= events'
  BY <1>1, VtyAssumption DEF CountInv, RowTypes
<1>3. PICK status \in {db.status, landing} \ {None}, st \in {db.stats, sent} \ {None} :
        db' = [db EXCEPT !.status = status, !.stats = st]
  BY Zenon DEF Restart
<1>4. db \in Rows /\ status \in Statuses /\ st \in [Ifs -> Counts]
  BY <1>3, Zenon DEF CountInv, RowTypes, Rows
<1>5. db' \in Rows /\ db'.stats = st  BY <1>3, <1>4, Zenon DEF Rows
<1>6. RowTypes'  BY <1>1, <1>2, <1>5, Zenon DEF CountInv, RowTypes
<1>7. ASSUME NEW j \in Ifs PROVE Counted(j)'
  <2>1. Counted(j)  BY Zenon DEF CountInv
  <2>2. st[j].ins \in Nat /\ st[j].del <= st[j].ins /\ st[j].ins <= events'
    BY <1>2, <1>3, <1>4, <2>1, SoundLater, Zenon DEF Counted
  <2>3. Sound(db.stats[j])'  BY <1>5, <2>2, Zenon DEF Sound
  <2>4. \A s \in Sessions : Sound(seen[s].stats[j])'
    BY <1>1, <1>2, <2>1, SoundLater, Zenon DEF Counted, Sound
  <2>5. hw'[j] = NoHw  BY <1>1, Zenon
  <2>6. Balanced(NoHw) /\ NoHw.ins = 0 /\ ~NoHw.synced  BY DEF NoHw, Balanced
  <2>7. Balanced(hw[j])'  BY <2>5, <2>6, Zenon DEF Balanced
  <2>8. 0 + db'.stats[j].ins <= events'  BY <1>5, <2>2
  <2> QED  BY <1>1, <2>3, <2>4, <2>5, <2>6, <2>7, <2>8, Zenon DEF Counted
<1> QED  BY <1>1, <1>6, <1>7, Zenon DEF CountInv

\* lldpd_run: the hardware may be replaced, the counters of the row taken over
\* and sent, and the neighbours cleaned up.
LEMMA RunCounts ==
  ASSUME CountInv, NEW due \in BOOLEAN, NEW busy \in BOOLEAN, Run(due, busy)
  PROVE  CountInv'
<1> DEFINE new    == IF idl = db /\ ~vrfSeqno THEN cfg ELSE Reconfigured(cfg)
           reset  == new.enabled # cfg.enabled
           hw1    == [i \in Ifs |-> IF reset THEN Replaced(hw[i]) ELSE hw[i]]
           report == due /\ sent = None
           hw2    == [i \in Ifs |-> IF report THEN SyncCounters(hw1[i], db.stats[i]) ELSE hw1[i]]
           served == IF landing = None /\ ~busy THEN Served(db.status) ELSE {}
           hw3    == [i \in Ifs |-> IF "table" \in served THEN Emptied(hw2[i]) ELSE hw2[i]]
<1>1. /\ sent' = IF report THEN [i \in Ifs |-> Stats(hw2[i])] ELSE sent
      /\ hw' = [i \in Ifs |-> IF "counters" \in served THEN ClearedCounters(hw3[i]) ELSE hw3[i]]
      /\ landing' = IF served # {} THEN CountersCleared(TableCleared(db.status)) ELSE landing
      /\ UNCHANGED <<db, seen, events>>
  BY Zenon DEF Run
<1>2. db \in Rows /\ db.status \in Statuses /\ db.stats \in [Ifs -> Counts]
  BY Zenon DEF CountInv, RowTypes, Rows
<1>3. landing' = None \/ landing' \in Statuses
  <2>1. TableCleared(db.status) \in Statuses  BY <1>2, StatusWritten, Zenon
  <2>2. CountersCleared(TableCleared(db.status)) \in Statuses  BY <2>1, StatusWritten, Zenon
  <2> QED  BY <1>1, <2>2, Zenon DEF CountInv, RowTypes
<1>4. events \in Nat  BY VtyAssumption DEF CountInv, RowTypes
<1>5. ASSUME NEW i \in Ifs
      PROVE  /\ Balanced(hw2[i]) /\ Balanced(hw'[i])
             /\ hw'[i].ins = hw2[i].ins /\ hw'[i].synced = hw2[i].synced
             /\ (hw[i].synced \/ report => hw2[i].synced)
             /\ hw2[i].ins + (IF hw2[i].synced THEN 0 ELSE db.stats[i].ins) <= events
  <2>1. hw1[i] = IF reset THEN Replaced(hw[i]) ELSE hw[i]  BY Zenon
  <2>2. hw2[i] = IF report THEN SyncCounters(hw1[i], db.stats[i]) ELSE hw1[i]  BY Zenon
  <2>3. hw3[i] = IF "table" \in served THEN Emptied(hw2[i]) ELSE hw2[i]  BY Zenon
  <2>4. hw'[i] = IF "counters" \in served THEN ClearedCounters(hw3[i]) ELSE hw3[i]  BY <1>1, Zenon
  <2> HIDE DEF reset, report, hw1, hw2, hw3, served
  <2>5. Balanced(hw[i]) /\ db.stats[i] \in Counts /\ db.stats[i].del <= db.stats[i].ins
        /\ db.stats[i].ins <= events
        /\ hw[i].ins + (IF hw[i].synced THEN 0 ELSE db.stats[i].ins) <= events
    BY <1>2, Zenon DEF CountInv, Counted, Sound
  <2>6. db.stats[i].ins \in Nat /\ hw[i].ins \in Nat  BY <2>5, Zenon DEF Counts, Balanced
  <2>7. /\ Balanced(hw1[i]) /\ hw1[i].synced = hw[i].synced
        /\ hw1[i].ins \in {0, hw[i].ins}
    BY <2>1, <2>5, ReplacedBalanced, Zenon
  <2>8. hw1[i].ins + (IF hw1[i].synced THEN 0 ELSE db.stats[i].ins) <= events
    BY <1>4, <2>5, <2>6, <2>7
  <2>9. /\ Balanced(hw2[i]) /\ (hw[i].synced \/ report => hw2[i].synced)
        /\ hw2[i].ins + (IF hw2[i].synced THEN 0 ELSE db.stats[i].ins) <= events
    <3>1. CASE report
      <4>1. /\ Balanced(hw2[i]) /\ hw2[i].synced
            /\ hw2[i].ins = hw1[i].ins + (IF hw1[i].synced THEN 0 ELSE db.stats[i].ins)
        BY <2>2, <2>5, <2>7, <3>1, SyncBalanced
      <4>2. hw2[i].ins <= events /\ hw2[i].ins \in Nat  BY <2>8, <4>1, Zenon DEF Balanced
      <4>3. hw2[i].ins + 0 <= events  BY <1>4, <4>2
      <4> QED  BY <4>1, <4>3, Zenon
    <3>2. CASE ~report  BY <2>2, <2>7, <2>8, <3>2, Zenon
    <3> QED  BY <3>1, <3>2, Zenon
  <2>10. Balanced(hw3[i]) /\ hw3[i].ins = hw2[i].ins /\ hw3[i].synced = hw2[i].synced
    BY <2>3, <2>9, ClearingBalanced
  <2>11. Balanced(hw'[i]) /\ hw'[i].ins = hw3[i].ins /\ hw'[i].synced = hw3[i].synced
    BY <2>4, <2>10, ClearingBalanced, Zenon
  <2> QED  BY <2>9, <2>10, <2>11, Zenon
<1>6. DOMAIN hw' = Ifs  BY <1>1, Zenon
<1>7. PICK g : g = hw2  BY Zenon
<1>8. \A i \in Ifs : /\ Balanced(g[i]) /\ Balanced(hw'[i])
                     /\ hw'[i].ins = g[i].ins /\ hw'[i].synced = g[i].synced
                     /\ (hw[i].synced \/ report => g[i].synced)
                     /\ g[i].ins + (IF g[i].synced THEN 0 ELSE db.stats[i].ins) <= events
  BY <1>5, <1>7, Zenon
<1>9. sent' = IF report THEN [i \in Ifs |-> Stats(g[i])] ELSE sent  BY <1>1, <1>7, Zenon
<1> HIDE DEF report, hw2, hw3, served
<1>10. ASSUME NEW i \in Ifs
       PROVE  /\ report => sent'[i] \in Counts
              /\ sent' # None => sent'[i].del <= sent'[i].ins /\ sent'[i].ins <= events
                                 /\ hw'[i].synced
  <2>1. Counted(i)  BY Zenon DEF CountInv
  <2>2. CASE report
    <3>1. /\ g[i].ins \in Nat /\ g[i].del \in Nat /\ g[i].n \in Nat
          /\ g[i].n + g[i].del <= g[i].ins /\ g[i].synced
          /\ g[i].ins + (IF g[i].synced THEN 0 ELSE db.stats[i].ins) <= events
      BY <1>8, <2>2, Zenon DEF Balanced
    <3>2. sent'[i] = [ins |-> g[i].ins, del |-> g[i].del]  BY <1>9, <2>2, Zenon DEF Stats
    <3>3. sent'[i] \in Counts /\ sent'[i].ins = g[i].ins /\ sent'[i].del = g[i].del
      BY <3>1, <3>2 DEF Counts
    <3>4. g[i].del <= g[i].ins /\ g[i].ins <= events  BY <1>4, <3>1
    <3> QED  BY <1>8, <3>1, <3>3, <3>4, Zenon
  <2>3. CASE ~report  BY <1>8, <1>9, <2>1, <2>3, Zenon DEF Counted, Sound
  <2> QED  BY <2>2, <2>3, Zenon
<1>11. sent' = None \/ sent' \in [Ifs -> Counts]
  <2>1. CASE report
    <3>1. sent' = [i \in Ifs |-> Stats(g[i])]  BY <1>9, <2>1, Zenon
    <3>2. \A i \in Ifs : Stats(g[i]) \in Counts  BY <1>10, <2>1, <3>1, Zenon
    <3> QED  BY <3>1, <3>2, Zenon
  <2>2. CASE ~report  BY <1>9, <2>2, Zenon DEF CountInv, RowTypes
  <2> QED  BY <2>1, <2>2, Zenon
<1>12. RowTypes'  BY <1>1, <1>3, <1>11, Zenon DEF CountInv, RowTypes
<1>13. ASSUME NEW j \in Ifs PROVE Counted(j)'
  <2>1. Counted(j)  BY Zenon DEF CountInv
  <2>2. Balanced(hw[j])'  BY <1>8, Zenon DEF Balanced
  <2>3. Sound(db.stats[j])' /\ \A s \in Sessions : Sound(seen[s].stats[j])'
    BY <1>1, <2>1, Zenon DEF Counted, Sound
  <2>4. (sent # None => Sound(sent[j]) /\ hw[j].synced)'  BY <1>1, <1>10, Zenon DEF Sound
  <2>5. hw'[j].ins + (IF hw'[j].synced THEN 0 ELSE db.stats[j].ins) <= events  BY <1>8, Zenon
  <2> QED  BY <1>1, <2>2, <2>3, <2>4, <2>5, Zenon DEF Counted
<1> QED  BY <1>6, <1>12, <1>13, Zenon DEF CountInv

\* The counters of the daemon, of the row and of every replica agree with the
\* events for ever.
LEMMA CountersHold == Spec => []CountInv
<1>1. Init => CountInv
  <2> SUFFICES ASSUME Init PROVE CountInv  BY Zenon
  <2>1. [k \in ConfigKeys |-> None] \in Maps
    <3>1. {"tx", "hold", "mgmt"} \subseteq ConfigKeys  BY Zenon DEF ConfigKeys
    <3> QED  BY <3>1, Zenon DEF Maps, Values
  <2>2. [k \in StatusKeys |-> None] \in Statuses  BY Zenon DEF Statuses
  <2>3. NoStats \in Counts /\ NoStats.ins = 0 /\ NoStats.del = 0  BY Zenon DEF NoStats, Counts
  <2>4. db \in Rows /\ db.stats = [i \in Ifs |-> NoStats]
    BY <2>1, <2>2, <2>3, Zenon DEF Init, RowInit, Rows
  <2>5. seen = [s \in Sessions |-> db] /\ events = 0  BY Zenon DEF Init, VtyInit
  <2>6. RowTypes /\ sent = None  BY <2>4, <2>5, VtyAssumption DEF Init, DaemonInit, RowTypes
  <2>7. hw = [i \in Ifs |-> NoHw]  BY Zenon DEF Init, DaemonInit
  <2>8. Balanced(NoHw) /\ NoHw.ins = 0 /\ ~NoHw.synced  BY DEF NoHw, Balanced
  <2>9. Sound(NoStats)  BY <2>3, <2>5 DEF Sound
  <2>10. \A i \in Ifs : hw[i].ins + (IF hw[i].synced THEN 0 ELSE db.stats[i].ins) <= events
    BY <2>3, <2>4, <2>5, <2>7, <2>8
  <2> QED  BY <2>4, <2>5, <2>6, <2>7, <2>8, <2>9, <2>10, Zenon DEF CountInv, Counted
<1>2. CountInv /\ [Next]_vars => CountInv'
  <2> SUFFICES ASSUME CountInv, [Next]_vars PROVE CountInv'  BY Zenon
  <2>1. RowTypes  BY Zenon DEF CountInv
  <2>2. CASE VtyNext /\ UNCHANGED daemonVars
    BY <2>1, <2>2, VtySteps, UncountedSteps, Zenon DEF daemonVars
  <2>3. CASE Environment \/ Lands \/ Fails \/ StatsFail \/ Loop \/ UNCHANGED vars
    <3>1. hw' = hw  BY <2>3, Zenon DEF Environment, Lands, Fails, StatsFail, Loop, vars, daemonVars
    <3> QED  BY <2>1, <2>3, <3>1, OtherSteps, UncountedSteps, Zenon
  <2>4. CASE \E due, busy \in BOOLEAN : Run(due, busy)  BY <2>4, RunCounts, Zenon
  <2>5. CASE Restart  BY <2>5, RestartCounts, Zenon
  <2>6. CASE \E i \in Ifs : Learn(i) \/ Leave(i)  BY <2>6, NeighborSteps, Zenon
  <2>7. CASE StatsLand \/ \E i \in Ifs : AgesOut(i)  BY <2>7, StatsSteps, Zenon
  <2> QED  BY <2>2, <2>3, <2>4, <2>5, <2>6, <2>7, Zenon DEF Next
<1> QED  BY <1>1, <1>2, PTL DEF Spec

\* TotalNoWrap (cli_lldp_show_neighbor, lldpd_clear_counters,
\* sync_lldp_counters_from_db): through any number of restarts, resets, clears,
\* aged entries and counters restored from the database, with the counters
\* written late or not at all, the number of neighbours derived from two
\* counters never wraps, nor falls below the number the daemon has.
THEOREM TotalNeverWraps == Spec => []TotalNoWrap
<1>1. CountInv => TotalNoWrap
  <2> SUFFICES ASSUME CountInv PROVE TotalNoWrap  BY Zenon
  <2>1. ASSUME NEW s \in Sessions, NEW i \in Ifs PROVE ShowNeighborInfo(seen[s], i) <= MaxEvents
    <3>1. PICK c \in Counts : c = seen[s].stats[i] /\ Sound(c)
      BY DEF CountInv, Counted, RowTypes, Rows
    <3>2. c.ins \in Nat /\ c.del \in Nat /\ c.del <= c.ins /\ c.ins <= events
          /\ events \in Nat /\ events <= MaxEvents /\ MaxEvents \in Nat
      BY <3>1, VtyAssumption DEF CountInv, RowTypes, Sound, Counts
    <3>3. PICK d \in Nat : d = c.ins - c.del /\ d <= MaxEvents  BY <3>2
    <3>4. d % CounterRange <= d /\ d % CounterRange \in Nat  BY SMT DEF CounterRange
    <3>5. ShowNeighborInfo(seen[s], i) = d % CounterRange  BY <3>1, <3>3, Zenon DEF ShowNeighborInfo
    <3> QED  BY <3>2, <3>3, <3>4, <3>5
  <2>2. ASSUME NEW i \in Ifs PROVE hw[i].ins - hw[i].del >= hw[i].n
    <3>1. hw[i].n \in Nat /\ hw[i].ins \in Nat /\ hw[i].del \in Nat
          /\ hw[i].n + hw[i].del <= hw[i].ins
      BY Zenon DEF CountInv, Counted, Balanced
    <3> QED  BY <3>1
  <2> QED  BY <2>1, <2>2, Zenon DEF TotalNoWrap
<1> QED  BY <1>1, CountersHold, PTL

\* RunningConfigRestores (vtysh_intf_context_lldp_clientcallback,
\* lldp_ovsdb_if_lldp_state): whatever commands were given in whatever order, the
\* lines of the running configuration of an interface, entered on an interface
\* without configuration, give the directions it had.
THEOREM ConfigRestored == Spec => []RunningConfigRestores
<1>1. RowTypes => RunningConfigRestores
  <2> SUFFICES ASSUME RowTypes, NEW i \in Ifs
               PROVE  LET lines == RunningConfig(db.dir[i])
                          Enter(d, l) == IF l.no THEN IfNoDirState(d, l.w) ELSE IfState(d, l.w)
                          after == IF lines = <<>> THEN None ELSE Enter(Enter(None, lines[1]), lines[2])
                      IN Directions(after) = Directions(db.dir[i])
    BY Zenon DEF RunningConfigRestores
  <2> DEFINE Enter(d, l) == IF l.no THEN IfNoDirState(d, l.w) ELSE IfState(d, l.w)
  <2>1. PICK d \in {"tx", "rx", "rxtx", "off", None} : d = db.dir[i]  BY Zenon DEF RowTypes, Rows
  <2>2. PICK lines : lines = RunningConfig(d)  BY Zenon
  <2>3. PICK after : after = IF lines = <<>> THEN None ELSE Enter(Enter(None, lines[1]), lines[2])
    BY Zenon
  <2>4. Directions(after) = Directions(d)
    <3>1. CASE d \in {"rxtx", None}
      <4>1. lines = <<>>  BY <2>2, <3>1, VtyAssumption, Zenon DEF RunningConfig
      <4> QED  BY <2>3, <3>1, <4>1, VtyAssumption, Zenon DEF Directions
    <3>2. CASE d = "tx"
      <4>1. lines = <<[no |-> FALSE, w |-> "tx"], [no |-> TRUE, w |-> "rx"]>>
        BY <2>2, <3>2, Zenon DEF RunningConfig
      <4>2. after = Enter(Enter(None, [no |-> FALSE, w |-> "tx"]), [no |-> TRUE, w |-> "rx"])
        BY <2>3, <4>1, Zenon
      <4>3. after = IfNoDirState(IfState(None, "tx"), "rx")  BY <4>2, Zenon
      <4>4. IfState(None, "tx") = "tx"  BY VtyAssumption, Zenon DEF IfState, Other
      <4>5. IfNoDirState("tx", "rx") = "tx"  BY VtyAssumption, Zenon DEF IfNoDirState, Other
      <4> QED  BY <3>2, <4>3, <4>4, <4>5, Zenon
    <3>3. CASE d = "rx"
      <4>1. lines = <<[no |-> FALSE, w |-> "rx"], [no |-> TRUE, w |-> "tx"]>>
        BY <2>2, <3>3, Zenon DEF RunningConfig
      <4>2. after = Enter(Enter(None, [no |-> FALSE, w |-> "rx"]), [no |-> TRUE, w |-> "tx"])
        BY <2>3, <4>1, Zenon
      <4>3. after = IfNoDirState(IfState(None, "rx"), "tx")  BY <4>2, Zenon
      <4>4. IfState(None, "rx") = "rx"  BY VtyAssumption, Zenon DEF IfState, Other
      <4>5. IfNoDirState("rx", "tx") = "rx"  BY VtyAssumption, Zenon DEF IfNoDirState, Other
      <4> QED  BY <3>3, <4>3, <4>4, <4>5, Zenon
    <3>4. CASE d = "off"
      <4>1. lines = <<[no |-> TRUE, w |-> "tx"], [no |-> TRUE, w |-> "rx"]>>
        BY <2>2, <3>4, Zenon DEF RunningConfig
      <4>2. after = Enter(Enter(None, [no |-> TRUE, w |-> "tx"]), [no |-> TRUE, w |-> "rx"])
        BY <2>3, <4>1, Zenon
      <4>3. after = IfNoDirState(IfNoDirState(None, "tx"), "rx")  BY <4>2, Zenon
      <4>4. IfNoDirState(None, "tx") = "rx"  BY VtyAssumption, Zenon DEF IfNoDirState, Other
      <4>5. IfNoDirState("rx", "rx") = "off"  BY VtyAssumption, Zenon DEF IfNoDirState
      <4> QED  BY <3>4, <4>3, <4>4, <4>5, Zenon
    <3> QED  BY <3>1, <3>2, <3>3, <3>4, Zenon
  <2> QED  BY <2>1, <2>2, <2>3, <2>4, Zenon
<1>2. CountInv => RowTypes  BY Zenon DEF CountInv
<1> QED  BY <1>1, <1>2, CountersHold, PTL

-----------------------------------------------------------------------------
\* The configuration.

\* The configuration c of the daemon is the one row r asks for.
Fits(c, r) ==
  /\ c.enabled = SmapGetBool(r.other, "enable", EnableDefault)
  /\ c.tx = SmapGet(r.other, "tx", TxDefault)
  /\ c.hold = SmapGet(r.other, "hold", HoldDefault)
  /\ c.tlvs = {k \in Tlvs : SmapGetBool(r.other, k, TlvDefault)}
  /\ c.mgmt = (IF r.other["mgmt"] # None THEN {r.other["mgmt"]} ELSE {r.ip, r.ip6}) \ {None}
  /\ "Bridge" \in c.caps <=> r.bridge

\* What the daemon read last is what it does, and the lifetime it announces
\* follows interval and hold also before anything was read.
ConfigInv ==
  /\ cfg \in Settings /\ cfg.ttl = Ttl(cfg.tx, cfg.hold)
  /\ idl = Unread \/ (idl \in Rows /\ Fits(cfg, idl))

\* A row that was read is not the one that was not.
LEMMA RowsRead == Unread \notin Rows
<1>1. DOMAIN Unread = {"read"}  BY Zenon DEF Unread
<1>2. \A r \in Rows : "other" \in DOMAIN r  BY Zenon DEF Rows
<1> QED  BY <1>1, <1>2, Zenon

\* The numbers of a row are inside the limits of lldpd_apply_global_changes.
LEMMA NumbersInRange ==
  ASSUME NEW o \in Maps
  PROVE  /\ SmapGet(o, "tx", TxDefault) \in TxMin .. TxMax
         /\ SmapGet(o, "hold", HoldDefault) \in HoldMin .. HoldMax
<1>1. o["tx"] \in Timers \cup {None} /\ o["hold"] \in Holds \cup {None}  BY DEF Maps
<1>2. TxDefault \in TxMin .. TxMax /\ HoldDefault \in HoldMin .. HoldMax
  BY SMT DEF TxDefault, TxMin, TxMax, HoldDefault, HoldMin, HoldMax
<1> QED  BY <1>1, <1>2, VtyAssumption DEF SmapGet

\* The limits are numbers.
LEMMA Limits == TxMin \in Nat /\ TxMax \in Nat /\ HoldMin \in Nat /\ HoldMax \in Nat
BY SMT DEF TxMin, TxMax, HoldMin, HoldMax

\* The announced lifetime is a number.
LEMMA TtlType ==
  ASSUME NEW tx \in TxMin .. TxMax, NEW hold \in HoldMin .. HoldMax
  PROVE  Ttl(tx, hold) \in Nat
<1>1. tx \in Nat /\ hold \in Nat  BY Limits
<1>2. tx * hold \in Nat  BY <1>1
<1> QED  BY <1>2, SMT DEF Ttl

\* The configuration a daemon starts with.
LEMMA FreshSettings == Fresh \in Settings /\ Fresh.ttl = Ttl(Fresh.tx, Fresh.hold)
<1>1. TxDefault * HoldDefault = 120 /\ Ttl(TxDefault, HoldDefault) = 120
  BY SMT DEF Ttl, TxDefault, HoldDefault
<1>2. TxDefault \in TxMin .. TxMax /\ HoldDefault \in HoldMin .. HoldMax
  BY SMT DEF TxDefault, TxMin, TxMax, HoldDefault, HoldMin, HoldMax
<1>3. /\ Fresh.enabled = TRUE /\ Fresh.tx = TxDefault /\ Fresh.hold = HoldDefault
      /\ Fresh.ttl = TxDefault * HoldDefault
  BY DEF Fresh
<1>4. Fresh = [enabled |-> TRUE, tx |-> TxDefault, hold |-> HoldDefault, ttl |-> 120,
               tlvs |-> Tlvs, mgmt |-> {}, caps |-> {}]
  BY <1>1 DEF Fresh
<1>5. Fresh \in Settings  BY <1>2, <1>4 DEF Settings
<1> QED  BY <1>1, <1>3, <1>5

\* Interval and hold are applied one after the other, each only if it changed;
\* the lifetime is that of both.
LEMMA TimesApplied ==
  ASSUME NEW c \in Settings, c.ttl = Ttl(c.tx, c.hold), NEW tx \in TxMin .. TxMax,
         NEW hold \in HoldMin .. HoldMax
  PROVE  LET d == ApplyHold(ApplyTx(c, tx), hold)
         IN /\ d \in Settings /\ d.tx = tx /\ d.hold = hold /\ d.ttl = Ttl(tx, hold)
            /\ d.caps = c.caps
<1>1. PICK b : b = ApplyTx(c, tx)  BY Zenon
<1>2. b \in Settings /\ b.tx = tx /\ b.hold = c.hold /\ b.ttl = Ttl(tx, c.hold) /\ b.caps = c.caps
  <2>1. CASE tx = c.tx  BY <1>1, <2>1, Zenon DEF ApplyTx
  <2>2. CASE tx # c.tx
    <3>1. c.hold \in HoldMin .. HoldMax  BY Zenon DEF Settings
    <3>2. PICK t \in Nat : t = Ttl(tx, c.hold)  BY <3>1, TtlType, Zenon
    <3>3. b = [c EXCEPT !.tx = tx, !.ttl = t]  BY <1>1, <2>2, <3>2, Zenon DEF ApplyTx
    <3> QED  BY <3>2, <3>3, Zenon DEF Settings
  <2> QED  BY <2>1, <2>2, Zenon
<1>3. PICK d : d = ApplyHold(b, hold)  BY Zenon
<1>4. d \in Settings /\ d.tx = tx /\ d.hold = hold /\ d.ttl = Ttl(tx, hold) /\ d.caps = c.caps
  <2>1. CASE hold = b.hold  BY <1>2, <1>3, <2>1, Zenon DEF ApplyHold
  <2>2. CASE hold # b.hold
    <3>1. PICK t \in Nat : t = Ttl(b.tx, hold)  BY <1>2, TtlType, Zenon
    <3>2. d = [b EXCEPT !.hold = hold, !.ttl = t]  BY <1>3, <2>2, <3>1, Zenon DEF ApplyHold
    <3> QED  BY <1>2, <3>1, <3>2, Zenon DEF Settings
  <2> QED  BY <2>1, <2>2, Zenon
<1> QED  BY <1>1, <1>3, <1>4, Zenon

\* lldpd_reconfigure brings any configuration to the one of the row.
LEMMA ReconfiguredFits ==
  ASSUME db \in Rows, NEW c \in Settings, c.ttl = Ttl(c.tx, c.hold)
  PROVE  LET d == Reconfigured(c)
         IN d \in Settings /\ d.ttl = Ttl(d.tx, d.hold) /\ Fits(d, db)
<1> DEFINE tx == SmapGet(db.other, "tx", TxDefault)
           hold == SmapGet(db.other, "hold", HoldDefault)
           on == SmapGetBool(db.other, "enable", EnableDefault)
           tlvs == {k \in Tlvs : SmapGetBool(db.other, k, TlvDefault)}
           addrs == (IF db.other["mgmt"] # None THEN {db.other["mgmt"]} ELSE {db.ip, db.ip6}) \ {None}
<1>1. PICK b : b = ApplyVrf(ApplyBridge(c))  BY Zenon
<1>2. /\ b \in Settings /\ b.tx = c.tx /\ b.hold = c.hold /\ b.ttl = c.ttl
      /\ "Bridge" \in b.caps <=> db.bridge
  <2>1. PICK a : a = ApplyBridge(c)  BY Zenon
  <2>2. a \in Settings /\ a.tx = c.tx /\ a.hold = c.hold /\ a.ttl = c.ttl
        /\ ("Bridge" \in a.caps <=> db.bridge)
    BY <2>1, Zenon DEF ApplyBridge, With, Without, Settings, Rows
  <2>3. b = a \/ b = With(a, "Router") \/ b = Without(a, "Router")  BY <1>1, <2>1, Zenon DEF ApplyVrf
  <2> QED  BY <2>2, <2>3 DEF With, Without, Settings
<1>3. db.other \in Maps /\ db.ip \in Addrs \cup {None} /\ db.ip6 \in Addrs \cup {None}
  BY Zenon DEF Rows
<1>4. tx \in TxMin .. TxMax /\ hold \in HoldMin .. HoldMax  BY <1>3, NumbersInRange, Zenon
<1>5. addrs \in SUBSET Addrs /\ tlvs \in SUBSET Tlvs /\ on \in BOOLEAN
  <2>1. db.other["mgmt"] \in Addrs \cup {None}  BY <1>3, Zenon DEF Maps
  <2>2. on \in BOOLEAN  BY Zenon DEF SmapGetBool, EnableDefault
  <2> QED  BY <1>3, <2>1, <2>2, Zenon
<1>6. PICK e : e = ApplyHold(ApplyTx(b, tx), hold)  BY Zenon
<1>7. ApplyGlobal(b) = [ApplyTlvs(MgmtAddress(e)) EXCEPT !.enabled = on]  BY <1>6, Zenon DEF ApplyGlobal
<1>8. PICK f : f = ApplyTlvs(MgmtAddress(e))  BY Zenon
<1>9. f = [[e EXCEPT !.mgmt = addrs] EXCEPT !.tlvs = tlvs]
  BY <1>8, Zenon DEF ApplyTlvs, MgmtAddress
<1>10. Reconfigured(c) = [f EXCEPT !.enabled = on]  BY <1>1, <1>7, <1>8, Zenon DEF Reconfigured
<1>11. PICK x, h, o, s, m : x = tx /\ h = hold /\ o = on /\ s = tlvs /\ m = addrs  BY Zenon
<1>12. Fits(Reconfigured(c), db) <=>
         LET d == Reconfigured(c)
         IN /\ d.enabled = o /\ d.tx = x /\ d.hold = h /\ d.tlvs = s /\ d.mgmt = m
            /\ ("Bridge" \in d.caps <=> db.bridge)
  BY <1>11, Zenon DEF Fits
<1> HIDE DEF tx, hold, on, tlvs, addrs
<1>13. e \in Settings /\ e.tx = x /\ e.hold = h /\ e.ttl = Ttl(x, h) /\ e.caps = b.caps
  BY <1>2, <1>4, <1>6, <1>11, TimesApplied
<1>14. PICK d : d = Reconfigured(c)  BY Zenon
<1>15. d = [[[e EXCEPT !.mgmt = m] EXCEPT !.tlvs = s] EXCEPT !.enabled = o]
  BY <1>9, <1>10, <1>11, <1>14, Zenon
<1>16. /\ d \in Settings /\ d.enabled = o /\ d.tx = x /\ d.hold = h /\ d.tlvs = s /\ d.mgmt = m
       /\ d.ttl = Ttl(x, h) /\ d.caps = b.caps
  BY <1>5, <1>11, <1>13, <1>15, Zenon DEF Settings
<1> QED  BY <1>2, <1>12, <1>14, <1>16, Zenon

\* ShownIsApplied (lldpd_apply_global_changes, cli_lldp_show_config,
\* cli_lldp_show_local_device): for any commands of any sessions, in any order
\* and with replicas that are behind, the settings, addresses, lifetime and
\* bridge capability printed by a session that sees what the daemon last applied
\* are those the daemon uses. Router capability and reinit delay are left out.
THEOREM ShownAlwaysApplied == Spec => []ShownIsApplied
<1>1. Init => ConfigInv
  <2> SUFFICES ASSUME Init PROVE ConfigInv  BY Zenon
  <2>1. cfg = Fresh /\ idl = Unread  BY Zenon DEF Init, DaemonInit
  <2> QED  BY <2>1, FreshSettings, Zenon DEF ConfigInv
<1>2. CountInv /\ CountInv' /\ ConfigInv /\ [Next]_vars => ConfigInv'
  <2> SUFFICES ASSUME RowTypes, RowTypes', ConfigInv, [Next]_vars PROVE ConfigInv'  BY Zenon DEF CountInv
  <2>1. CASE UNCHANGED <<cfg, idl>>  BY <2>1, Zenon DEF ConfigInv, Fits
  <2>2. CASE Restart
    <3>1. cfg' = Fresh /\ idl' = Unread  BY <2>2, Zenon DEF Restart
    <3>2. cfg' \in Settings /\ cfg'.ttl = Ttl(cfg'.tx, cfg'.hold)  BY <3>1, FreshSettings, Zenon
    <3> QED  BY <3>1, <3>2, Zenon DEF ConfigInv
  <2>3. CASE Loop
    <3>1. PICK c : c = cfg  BY Zenon
    <3>2. cfg' = With(c, "Router") \/ cfg' = Without(c, "Router")  BY <2>3, <3>1, Zenon DEF Loop
    <3>3. c \in Settings /\ idl' = idl  BY <2>3, <3>1, Zenon DEF ConfigInv, Loop
    <3>4. /\ cfg' \in Settings /\ cfg'.enabled = c.enabled /\ cfg'.tx = c.tx /\ cfg'.hold = c.hold
          /\ cfg'.ttl = c.ttl /\ cfg'.tlvs = c.tlvs /\ cfg'.mgmt = c.mgmt
          /\ ("Bridge" \in cfg'.caps <=> "Bridge" \in c.caps)
      BY <3>2, <3>3 DEF With, Without, Settings
    <3> QED  BY <3>1, <3>3, <3>4, Zenon DEF ConfigInv, Fits
  <2>4. CASE \E due, busy \in BOOLEAN : Run(due, busy)
    <3>1. PICK due \in BOOLEAN, busy \in BOOLEAN : Run(due, busy)  BY <2>4, Zenon
    <3>2. cfg' = (IF idl = db /\ ~vrfSeqno THEN cfg ELSE Reconfigured(cfg)) /\ idl' = db
      BY <3>1, Zenon DEF Run
    <3>3. db \in Rows  BY Zenon DEF RowTypes
    <3>4. cfg' \in Settings /\ cfg'.ttl = Ttl(cfg'.tx, cfg'.hold) /\ Fits(cfg', db)
      <4>1. CASE idl = db /\ ~vrfSeqno
        BY <3>2, <3>3, <4>1, RowsRead, Zenon DEF ConfigInv
      <4>2. CASE ~(idl = db /\ ~vrfSeqno)
        <5>1. PICK c \in Settings : c = cfg /\ c.ttl = Ttl(c.tx, c.hold)  BY Zenon DEF ConfigInv
        <5>2. PICK d : d = Reconfigured(c)  BY Zenon
        <5>3. d \in Settings /\ d.ttl = Ttl(d.tx, d.hold) /\ Fits(d, db)
          BY <3>3, <5>1, <5>2, ReconfiguredFits, Zenon
        <5> QED  BY <3>2, <4>2, <5>1, <5>2, <5>3, Zenon
      <4> QED  BY <4>1, <4>2, Zenon
    <3> QED  BY <3>2, <3>3, <3>4, Zenon DEF ConfigInv
  <2> QED
    BY <2>1, <2>2, <2>3, <2>4, Zenon
    DEF Next, vars, daemonVars, Environment, Lands, Fails, StatsLand, StatsFail, Learn, Leave, AgesOut
<1>3. CountInv /\ ConfigInv => ShownIsApplied
  <2> SUFFICES ASSUME RowTypes, ConfigInv, NEW s \in Sessions, seen[s] = idl
               PROVE  /\ ShowConfig(idl) = [enabled |-> cfg.enabled, tx |-> cfg.tx,
                                             hold |-> cfg.hold, tlvs |-> cfg.tlvs]
                      /\ ShowLocalDevice(idl).mgmt = cfg.mgmt
                      /\ ShowLocalDevice(idl).ttl = cfg.ttl
                      /\ "Bridge" \in ShowLocalDevice(idl).caps <=> "Bridge" \in cfg.caps
    BY Zenon DEF ShownIsApplied, CountInv
  <2>1. idl \in Rows  BY Zenon DEF RowTypes
  <2>2. Fits(cfg, idl) /\ cfg.ttl = Ttl(cfg.tx, cfg.hold)  BY <2>1, RowsRead, Zenon DEF ConfigInv
  <2>3. ShowConfig(idl) = [enabled |-> cfg.enabled, tx |-> cfg.tx, hold |-> cfg.hold, tlvs |-> cfg.tlvs]
    BY <2>2, Zenon DEF Fits, ShowConfig, ShowTlv
  <2>4. ShowLocalDevice(idl).mgmt = cfg.mgmt  BY <2>2, Zenon DEF Fits, ShowLocalDevice
  <2>5. ShowLocalDevice(idl).ttl = cfg.ttl  BY <2>2, Zenon DEF Fits, ShowLocalDevice
  <2>6. "Bridge" \in ShowLocalDevice(idl).caps <=> "Bridge" \in cfg.caps
    BY <2>2, Zenon DEF Fits, ShowLocalDevice
  <2> QED  BY <2>3, <2>4, <2>5, <2>6, Zenon
<1> QED  BY <1>1, <1>2, <1>3, CountersHold, PTL DEF Spec

=============================================================================
