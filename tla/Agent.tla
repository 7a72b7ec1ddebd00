------------------------------- MODULE Agent -------------------------------
(***************************************************************************)
(* The AgentX subagent of the daemon (src/daemon/agent.c): how a GET or    *)
(* GETNEXT request finds its row among the local ports and the neighbours, *)
(* and what a notification names. The tables are built anew for every      *)
(* request, and the index of a neighbour starts with the time it last      *)
(* changed (TimeMark): rows move while a manager walks over them.          *)
(*                                                                         *)
(* An OID is the sequence of its sub-identifiers behind the column. Of a   *)
(* value only matters whether there is one: the handler of a column knows  *)
(* which fields have to be present (Needs). Time does not go backwards.    *)
(***************************************************************************)
EXTENDS Integers, Sequences, FiniteSets, SequencesExt, TLC

CONSTANTS
  Nothing,    \* no row, no value, no walk
  Hw,         \* ifindexes in the order of g_hardware
  Heard,      \* those neighbours are heard on
  Local,      \* what the local ports advertise: same fields as a frame
  Frames,     \* the frames neighbours send
  MaxNow,     \* the last second
  MaxChanges  \* how often the neighbours change

ASSUME AgentAssumption == MaxNow \in Nat /\ MaxChanges \in Nat

VARIABLES
  rports,    \* h_rports of every interface
  systems,   \* the known chassis: c_index, fields and management addresses
  lastrid,   \* g_lastrid
  inserts,   \* h_insert_cnt and h_delete_cnt, summed up
  deletes,
  now,       \* seconds since the start
  changes,
  walk,      \* the walk of a manager over one column
  trap       \* the last notification

agentVars == <<rports, systems, lastrid, inserts, deletes, now, changes, walk, trap>>

Ifindexes == ToSet(Hw)

----------------------------------------------------------------------------
(* The rows of a table, in the order the code visits them.                 *)

\* snmp_oid_compare(a, b) < 0
Before(a, b) ==
  \E k \in 1..Len(b) :
    /\ k <= Len(a) + 1
    /\ \A j \in 1..(k - 1) : a[j] = b[j]
    /\ k <= Len(a) => a[k] < b[k]

Entry(oid, i, p, sub) == [oid |-> oid, if |-> i, port |-> p, sub |-> sub]

\* The rows that the sub-indexes subs of every row in seq make.
Below(seq, Subs(_)) ==
  FlattenSeq([k \in DOMAIN seq |->
    LET r == seq[k]
        subs == Subs(r.port)
    IN  [s \in DOMAIN subs |-> Entry(r.oid \o subs[s], r.if, r.port, subs[s])]])

PortRows == [k \in DOMAIN Hw |-> Entry(<<Hw[k]>>, Hw[k], Local, <<>>)]

\* header_tprindexed_table: TimeMark, ifindex and chassis of what is not hidden.
TprRows(withmed) ==
  FlattenSeq([k \in DOMAIN Hw |->
    LET seen == SelectSeq(rports[Hw[k]], LAMBDA p :
                  ~p.hidden /\ (withmed => "med" \in systems[p.frame.chassis].fields))
    IN  [j \in DOMAIN seen |->
           Entry(<<seen[j].mark, Hw[k], systems[seen[j].frame.chassis].index>>,
                 Hw[k], seen[j].frame, <<>>)]])

\* A policy is found by its type, a location by its format plus one.
PolicyIndex(p) == [k \in DOMAIN p.policies |-> <<p.policies[k]>>]

LocationIndex(p) == [k \in DOMAIN p.locations |-> <<p.locations[k] + 1>>]

\* Address family and the octets with their number in front.
MgmtIndex(mgmt) == [k \in DOMAIN mgmt |-> <<mgmt[k].family, Len(mgmt[k].octets)>> \o mgmt[k].octets]

PmedPolicyRows == Below(PortRows, PolicyIndex)

PmedLocationRows == Below(PortRows, LocationIndex)

TprmedRows(variant) ==
  Below(TprRows(TRUE), LAMBDA p : IF variant = "policy" THEN PolicyIndex(p) ELSE LocationIndex(p))

IpRows == Below(<<Entry(<<>>, 0, Local, <<>>)>>, LAMBDA p : MgmtIndex(p.mgmt))

TpripRows == Below(TprRows(FALSE), LAMBDA p : MgmtIndex(systems[p.chassis].mgmt))

PvRows == Below(PortRows, LAMBDA p : p.vlans)

TprvRows == Below(TprRows(FALSE), LAMBDA p : p.vlans)

PppvidRows == Below(PortRows, LAMBDA p : p.ppvids)

TprppvidRows == Below(TprRows(FALSE), LAMBDA p : p.ppvids)

\* Protocol identities have no number on the wire: the checksum stands for one.
PpiRows == Below(PortRows, LAMBDA p : p.pis)

TprpiRows == Below(TprRows(FALSE), LAMBDA p : p.pis)

----------------------------------------------------------------------------
(* header_index_init, _add and _best: one pass over the rows of a table.   *)

IndexInit(name, exact) == [name |-> name, exact |-> exact, best |-> Nothing, hit |-> Nothing]

\* (mutant) The last row behind the name is taken, not the nearest.
IndexAddUnordered(h, row) ==
  IF h.hit # Nothing \/ Before(row.oid, h.name) THEN h
  ELSE IF row.oid = h.name THEN (IF h.exact THEN [h EXCEPT !.hit = row] ELSE h)
  ELSE [h EXCEPT !.best = row]

IndexAdd(h, row) ==
  IF h.hit # Nothing \/ Before(row.oid, h.name) THEN h
  ELSE IF row.oid = h.name THEN (IF h.exact THEN [h EXCEPT !.hit = row] ELSE h)
  ELSE IF h.best = Nothing \/ Before(row.oid, h.best.oid) THEN [h EXCEPT !.best = row] ELSE h

IndexBest(h) == IF h.exact THEN h.hit ELSE h.best

Header(rows, name, exact) == IndexBest(FoldLeft(IndexAdd, IndexInit(name, exact), rows))

\* A handler: its rows, those that have the value, and whether it is retried
\* with the next OID when the value is missing.
Handler(rows, Value(_), retry) ==
  [rows |-> rows, valued |-> {k \in DOMAIN rows : Value(rows[k])}, retry |-> retry]

Plain(rows) == Handler(rows, LAMBDA r : TRUE, FALSE)

HasValue(h, row) == \E k \in h.valued : h.rows[k] = row

\* TRYNEXT: a row without the value is passed over, unless it was asked for.
Serve(h, name, exact) ==
  LET From[n \in {name} \cup {h.rows[k].oid : k \in DOMAIN h.rows}] ==
        LET row == Header(h.rows, n, exact)
        IN  IF row = Nothing \/ HasValue(h, row) THEN row
            ELSE IF h.retry /\ ~exact THEN From[row.oid] ELSE Nothing
  IN  From[name]

----------------------------------------------------------------------------
(* The values: the fields that have to be there.                           *)

PortNeeds == ("pid" :> {}) @@
             ("portdesc" :> {"descr"}) @@ ("mfs" :> {"mfs"}) @@
             ("powersupport" :> {"power"}) @@ ("powerclass" :> {"power", "class"}) @@
             ("powerrequested" :> {"power", "at"})

VPort(vp, row) == PortNeeds[vp] \subseteq row.port.fields

ChassisNeeds == ("cid" :> {}) @@ ("sysname" :> {"name"}) @@ ("sysdescr" :> {"sysdescr"})

VChassis(vp, row) == ChassisNeeds[vp] \subseteq systems[row.port.chassis].fields

MedNeeds == ("medclass" :> {}) @@ ("medhw" :> {"hw"})

VMed(vp, row) == MedNeeds[vp] \subseteq systems[row.port.chassis].fields

\* Everything but the device type is a value of either a PSE or a PD.
VMedPower(vp, devicetype) == vp = "poetype" \/ vp = devicetype

----------------------------------------------------------------------------
(* The handlers.                                                           *)

HLocalPort(vp) == Handler(PortRows, LAMBDA r : VPort(vp, r), TRUE)

HRemotePort(vp) == Handler(TprRows(FALSE), LAMBDA r : VPort(vp, r), TRUE)

HRemoteChassis(vp) == Handler(TprRows(FALSE), LAMBDA r : VChassis(vp, r), FALSE)

HRemoteMed(vp) == Handler(TprRows(TRUE), LAMBDA r : VMed(vp, r), TRUE)

HRemoteMedPower(vp) == Handler(TprRows(TRUE), LAMBDA r : VMedPower(vp, r.port.poe), TRUE)

HStats == Plain(PortRows)

HRemoteMedPolicy == Plain(TprmedRows("policy"))

HLocalMedPolicy == Plain(PmedPolicyRows)

HRemoteMedLocation == Plain(TprmedRows("location"))

HLocalMedLocation == Plain(PmedLocationRows)

HLocalVlan == Plain(PvRows)

HRemoteVlan == Plain(TprvRows)

HLocalPpvid == Plain(PppvidRows)

HRemotePpvid == Plain(TprppvidRows)

HLocalPi == Plain(PpiRows)

HRemotePi == Plain(TprpiRows)

HLocalManagement == Plain(IpRows)

HRemoteManagement == Plain(TpripRows)

\* agent_lldp_vars: the handler of every column, with its variable.
Columns ==
  {"local_port"} \X DOMAIN PortNeeds \cup {"remote_port"} \X DOMAIN PortNeeds
  \cup {"remote_chassis"} \X DOMAIN ChassisNeeds \cup {"remote_med"} \X DOMAIN MedNeeds
  \cup {"remote_med_power"} \X {"poetype", "pse", "pd"}
  \cup {"stats", "remote_policy", "local_policy", "remote_location", "local_location",
        "local_vlan", "remote_vlan", "local_ppvid", "remote_ppvid", "local_pi", "remote_pi",
        "local_mgmt", "remote_mgmt"} \X {""}

Column(col) ==
  CASE col[1] = "local_port"       -> HLocalPort(col[2])
    [] col[1] = "remote_port"      -> HRemotePort(col[2])
    [] col[1] = "remote_chassis"   -> HRemoteChassis(col[2])
    [] col[1] = "remote_med"       -> HRemoteMed(col[2])
    [] col[1] = "remote_med_power" -> HRemoteMedPower(col[2])
    [] col[1] = "stats"            -> HStats
    [] col[1] = "remote_policy"    -> HRemoteMedPolicy
    [] col[1] = "local_policy"     -> HLocalMedPolicy
    [] col[1] = "remote_location"  -> HRemoteMedLocation
    [] col[1] = "local_location"   -> HLocalMedLocation
    [] col[1] = "local_vlan"       -> HLocalVlan
    [] col[1] = "remote_vlan"      -> HRemoteVlan
    [] col[1] = "local_ppvid"      -> HLocalPpvid
    [] col[1] = "remote_ppvid"     -> HRemotePpvid
    [] col[1] = "local_pi"         -> HLocalPi
    [] col[1] = "remote_pi"        -> HRemotePi
    [] col[1] = "local_mgmt"       -> HLocalManagement
    [] col[1] = "remote_mgmt"      -> HRemoteManagement

----------------------------------------------------------------------------
(* Scalars.                                                                *)

Visible == {p \in UNION {ToSet(rports[i]) : i \in Ifindexes} : ~p.hidden}

\* agent_h_scalars: when the visible neighbours last changed.
LastUpdate ==
  LET marks == {p.mark : p \in Visible} \cup {0} IN CHOOSE t \in marks : \A u \in marks : u <= t

----------------------------------------------------------------------------
(* Notifications, and the changes of neighbours that send them.            *)

\* (mutant) The name under the TimeMark of an older change.
NotifyOldMark(type, i, p, ins, del, known) ==
  [type |-> type, inserts |-> ins, deletes |-> del,
   oid  |-> <<0, i, known[p.frame.chassis].index>>,
   vars |-> IF type = "deleted" THEN {} ELSE {v \in {"name"} : v \in known[p.frame.chassis].fields}]

\* agent_notify: the totals; of a neighbour that stays, name and description
\* under the OIDs of its row. An empty description is sent too.
Notify(type, i, p, ins, del, known) ==
  [type |-> type, inserts |-> ins, deletes |-> del,
   oid  |-> <<p.mark, i, known[p.frame.chassis].index>>,
   vars |-> IF type = "deleted" THEN {}
            ELSE {v \in {"name"} : v \in known[p.frame.chassis].fields}
                 \cup {v \in {"descr"} : p.frame.fields \cap {"descr", "emptydescr"} # {}}]

Idle == IF walk = Nothing THEN TRUE ELSE walk.done

\* A row as the neighbour and part of it that it is about, whatever its OID.
Id(row) == <<row.if, row.port.chassis, row.port.pid, row.sub>>

\* The rows of a column that have a value and an OID no other row has.
Owned(col) ==
  LET h == Column(col)
  IN  {Id(h.rows[k]) : k \in {j \in h.valued :
         \A l \in DOMAIN h.rows : h.rows[l].oid = h.rows[j].oid => l = j}}

\* The walk keeps track of what was there in every state it has left behind.
Stayed == walk.there \cap Owned(walk.col)

WalkGoesOn == walk' = IF Idle THEN walk ELSE [walk EXCEPT !.there = Stayed]

Holding(i, f) == {k \in DOMAIN rports[i] :
                    rports[i][k].frame.chassis = f.chassis /\ rports[i][k].frame.pid = f.pid}

\* Nothing is asked after the walk, so changes end with it.
Change ==
  /\ changes < MaxChanges /\ changes' = changes + 1
  /\ Idle => walk = Nothing
  /\ WalkGoesOn

\* lldpd_hide_all: the smart filter sets the flag of every neighbour anew, without
\* a new TimeMark. Which ones of an interface it shows is the subject of
\* SmartFilter; one of them it does.
Filtered(lists) ==
  LET all == UNION {{i} \X DOMAIN lists[i] : i \in Ifindexes}
      Flagged(shown) == [i \in Ifindexes |-> [k \in DOMAIN lists[i] |->
                           [lists[i][k] EXCEPT !.hidden = <<i, k>> \notin shown]]]
  IN  {Flagged(shown) : shown \in {s \in SUBSET all : \A e \in all : \E v \in s : v[1] = e[1]}}

\* lldpd_recv: lldpd_decode, for a frame that differs from the last one of the
\* neighbour, puts the port at the end of the list as changed now; a chassis that
\* is known keeps its index and takes the new data over. The notification is sent
\* before the filter is applied.
Learn(i, f) ==
  LET old   == Holding(i, f)
      p     == [frame |-> f, mark |-> now, hidden |-> FALSE]
      new   == systems[f.chassis] = Nothing
      known == [systems EXCEPT ![f.chassis] =
                  [index |-> IF new THEN lastrid + 1 ELSE @.index, fields |-> f.sys, mgmt |-> f.mgmt]]
  IN  /\ \A k \in old : rports[i][k].frame # f
      /\ rports' \in Filtered([rports EXCEPT ![i] = Append(SelectSeq(@, LAMBDA q :
                                 ~(q.frame.chassis = f.chassis /\ q.frame.pid = f.pid)), p)])
      /\ systems' = known
      /\ lastrid' = IF new THEN lastrid + 1 ELSE lastrid
      /\ inserts' = IF old = {} THEN inserts + 1 ELSE inserts
      /\ trap' = Notify(IF old = {} THEN "added" ELSE "updated", i, p, inserts', deletes, known)
      /\ Change
      /\ UNCHANGED <<deletes, now>>

\* lldpd_recv, for a frame that changes no neighbour: the filter runs all the same.
Refilter ==
  /\ rports' \in Filtered(rports) /\ rports' # rports
  /\ trap' = Nothing
  /\ Change
  /\ UNCHANGED <<systems, lastrid, inserts, deletes, now>>

\* lldpd_remote_cleanup, and lldpd_cleanup for a chassis nobody refers to: the
\* deletion is counted before it is announced.
Forget(i, k) ==
  /\ k \in DOMAIN rports[i]
  /\ rports' = [rports EXCEPT ![i] = RemoveAt(@, k)]
  /\ systems' = [c \in DOMAIN systems |->
                   IF \E j \in Ifindexes, n \in 1..Cardinality(Frames) :
                        n \in DOMAIN rports'[j] /\ rports'[j][n].frame.chassis = c
                   THEN systems[c] ELSE Nothing]
  /\ deletes' = deletes + 1
  /\ trap' = Notify("deleted", i, rports[i][k], inserts, deletes', systems)
  /\ Change
  /\ UNCHANGED <<lastrid, inserts, now>>

Second ==
  /\ now < MaxNow
  /\ now' = now + 1
  /\ trap' = Nothing
  /\ UNCHANGED <<rports, systems, lastrid, inserts, deletes, changes, walk>>

\* A manager begins to walk a column, and asks for what follows the last answer.
\* One walk: the next one would find a table like any other.
Walk(col) ==
  /\ walk = Nothing
  /\ walk' = [col |-> col, name |-> <<>>, seen |-> {}, there |-> Owned(col), done |-> FALSE]
  /\ trap' = Nothing
  /\ UNCHANGED <<rports, systems, lastrid, inserts, deletes, now, changes>>

GetNext ==
  /\ ~Idle
  /\ LET row == Serve(Column(walk.col), walk.name, FALSE)
     IN  walk' = IF row = Nothing THEN [walk EXCEPT !.done = TRUE, !.there = Stayed]
                 ELSE [walk EXCEPT !.name = row.oid, !.seen = @ \cup {Id(row)}, !.there = Stayed]
  /\ trap' = Nothing
  /\ UNCHANGED <<rports, systems, lastrid, inserts, deletes, now, changes>>

AgentInit ==
  /\ rports = [i \in Ifindexes |-> <<>>]
  /\ systems = [c \in {f.chassis : f \in Frames} |-> Nothing]
  /\ lastrid = 0 /\ inserts = 0 /\ deletes = 0 /\ now = 0 /\ changes = 0
  /\ walk = Nothing /\ trap = Nothing

NeighborsNext ==
  \/ \E i \in Heard : \/ \E f \in Frames : Learn(i, f)
                      \/ \E k \in 1..Cardinality(Frames) : Forget(i, k)
  \/ Refilter \/ Second
  \/ \E col \in Columns : Walk(col)
  \/ GetNext

----------------------------------------------------------------------------
(* Properties.                                                             *)

\* agent_h_remote_chassis is the one handler of values that may be missing that
\* does not retry.
Unretried == {"remote_chassis"} \X {"sysname", "sysdescr"}

Complete(cols) == walk # Nothing /\ walk.col \in cols /\ walk.done => walk.there \subseteq walk.seen

\* A walk over a column returns every row that was there all the time with an
\* OID of its own, although neighbours come, go, change their TimeMark and so
\* their place, and are hidden or shown while header_index_add looks for the
\* next OID.
WalkComplete == Complete(Columns \ Unretried)

\* What a notification says can be asked for: after agent_notify has announced a
\* neighbour that the smart filter, which runs only afterwards, leaves visible, a
\* GET of the OID it used for the name finds the name, and finds none exactly when
\* the notification had none, and lldpStatsRemTablesLastChangeTime is the time of
\* that change.
TrapAnswered ==
  (trap # Nothing /\ trap.type # "deleted" /\ ~Last(rports[trap.oid[2]]).hidden) =>
    /\ LastUpdate = trap.oid[1]
    /\ (Serve(HRemoteChassis("sysname"), trap.oid, TRUE) # Nothing <=> "name" \in trap.vars)

=============================================================================
