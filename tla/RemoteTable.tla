---------------------------- MODULE RemoteTable ----------------------------
(***************************************************************************)
(* The table of remote systems kept by the daemon: the neighbours          *)
(* (struct lldpd_port) hanging off each local interface                    *)
(* (struct lldpd_hardware, h_rports), the systems they belong to           *)
(* (struct lldpd_chassis, g_chassis) shared between neighbours and         *)
(* interfaces through a reference count, and the one timer                 *)
(* (g_cleanup_timer) that ages neighbours out.                             *)
(*                                                                         *)
(* Neighbours and systems are heap cells, so that a cell freed while       *)
(* something still points to it, or never freed, is a state of the model.  *)
(* What a frame carries is reduced to what the table tells apart: who sent *)
(* it (protocol, chassis id, port id), the lifetime it announces, and      *)
(* everything else (info), which only decides whether two frames are equal *)
(* byte for byte.                                                          *)
(*                                                                         *)
(* Clock values are kept relative to the current second: age is            *)
(* time(NULL) - p_lastupdate and due is what is left on the timer. An age  *)
(* is compared with lifetimes only, so it stops counting at MaxAge.        *)
(***************************************************************************)
EXTENDS Integers, FiniteSets

CONSTANTS
  Ifs,          \* interfaces that may get an lldpd_hardware
  Ports,        \* heap cells for struct lldpd_port
  Addrs,        \* heap cells for struct lldpd_chassis, remote systems
  Local,        \* the cell of LOCAL_CHASSIS(cfg)
  Frames,       \* the frames neighbours may send
  LocalTtls,    \* the values the local c_ttl may be configured to
  MaxNeighbors, \* c_max_neighbors, per interface and protocol, 0 for no limit
  MaxAge,       \* ages saturate here
  AllowClear    \* may operators ask for the table to be cleared?

ASSUME CellsAssumption == Local \notin Addrs /\ IsFiniteSet(Ifs) /\ IsFiniteSet(Ports)

ASSUME LimitsAssumption ==
  /\ MaxNeighbors \in Nat
  /\ MaxAge \in Nat
  /\ LocalTtls \subseteq Nat
  /\ AllowClear \in BOOLEAN

\* A decoded frame has a real protocol (the modes start at 1, the local chassis
\* has c_protocol 0) and a lifetime that the saturated age can still reach.
ASSUME FramesAssumption ==
  \A f \in Frames :
    /\ {"proto", "cid", "pid", "ttl", "info"} \subseteq DOMAIN f
    /\ f.proto \in Nat \ {0}
    /\ f.ttl \in 0 .. MaxAge

VARIABLES
  hw,       \* the interfaces that have an lldpd_hardware in g_hardware
  port,     \* allocated lldpd_port cells: interface, last frame, age, system
  chassis,  \* allocated lldpd_chassis cells: identity, lifetime, refcount
  due,      \* seconds left on g_cleanup_timer
  told,     \* the neighbours a subscribed client has been told exist
  said      \* history: the lifetime in the last frame of a system that was decoded

vars == <<hw, port, chassis, due, told, said>>

\* The systems there are, by protocol and chassis id.
Systems == {<<f.proto, f.cid>> : f \in Frames}

-----------------------------------------------------------------------------
\* Reading the table.

Rports(h) == {p \in DOMAIN port : port[p].hw = h}

Expired(p) == port[p].age >= chassis[port[p].chassis].ttl

\* What identifies a neighbour: the interface it is seen on and its MSAP.
Msap(p) ==
  <<port[p].hw, port[p].frame.proto, chassis[port[p].chassis].cid, port[p].frame.pid>>

IsDuplicate(h, f) == \E p \in Rports(h) : port[p].frame = f

SameMsap(p, f) ==
  /\ port[p].frame.proto = f.proto
  /\ port[p].frame.pid = f.pid
  /\ chassis[port[p].chassis].cid = f.cid

\* (mutant) The search for the chassis forgets to compare c_protocol.
SameSystemAnyProtocol(c, f) == chassis[c].cid = f.cid

SameSystem(c, f) == chassis[c].proto = f.proto /\ chassis[c].cid = f.cid

Known(h, f) == {p \in Rports(h) : SameMsap(p, f)}

KnownSystem(f) == {c \in DOMAIN chassis : SameSystem(c, f)}

HasRoom(h, f) ==
  \/ MaxNeighbors = 0
  \/ Cardinality({p \in Rports(h) : port[p].frame.proto = f.proto}) < MaxNeighbors

-----------------------------------------------------------------------------
\* Pieces of the handlers.

Remaining(p) == IF Expired(p) THEN 0 ELSE chassis[port[p].chassis].ttl - port[p].age

Deadlines == {chassis[Local].ttl} \cup {Remaining(p) : p \in DOMAIN port}

\* (mutant) The timer is armed for the local lifetime only.
ScheduleCleanupLocal == due' = chassis'[Local].ttl

\* The timer is freed and armed again for the nearest deadline of the table
\* as the handler leaves it.
ScheduleCleanup ==
  /\ due' \in Deadlines'
  /\ \A d \in Deadlines' : due' <= d

NewPort(h, f, c) == [hw |-> h, frame |-> f, age |-> 0, chassis |-> c]

\* The decoded port is linked in cell p; the cells of old are freed.
InsertPort(h, f, p, c, old) ==
  port' = [q \in (DOMAIN port \ old) \cup {p} |->
             IF q = p THEN NewPort(h, f, c) ELSE port[q]]

\* A frame that is decoded counts as what its system says from now on.
Heard(f) == said' = [said EXCEPT ![<<f.proto, f.cid>>] = f.ttl]

\* (mutant) The count is moved with the rest.
MoveChassisResetRefs(sys, f) ==
  [sys EXCEPT !.proto = f.proto, !.cid = f.cid, !.ttl = f.ttl, !.refcount = 0]

\* lldpd_move_chassis: the decoded system overwrites the known one in its cell
\* and keeps its reference count.
MoveChassis(sys, f) == [sys EXCEPT !.proto = f.proto, !.cid = f.cid, !.ttl = f.ttl]

Ref(sys) == [sys EXCEPT !.refcount = @ + 1]

Unref(sys) == [sys EXCEPT !.refcount = @ - 1]

NewChassis(f) == [proto |-> f.proto, cid |-> f.cid, ttl |-> f.ttl, refcount |-> 0]

\* (mutant) No system is freed.
NeverUnreferenced(refs) == FALSE

\* lldpd_cleanup frees the systems for which this holds.
Unreferenced(refs) == refs = 0

\* The neighbours notify_clients_deletion is called for.
Reported(dead) == {Msap(p) : p \in dead}

-----------------------------------------------------------------------------
\* Handlers.

\* After the first lldpd_loop of levent_loop.
Init ==
  /\ hw \in SUBSET Ifs
  /\ port = [p \in {} |-> p]
  /\ \E ttl \in LocalTtls :
       /\ chassis = [c \in {Local} |->
            [proto |-> 0, cid |-> Local, ttl |-> ttl, refcount |-> 1 + Cardinality(hw)]]
       /\ due = ttl
  /\ told = {}
  /\ said = [s \in Systems |-> 0]

Tick ==
  /\ port' = [p \in DOMAIN port |->
       [port[p] EXCEPT !.age = IF @ < MaxAge THEN @ + 1 ELSE @]]
  /\ due' = IF due > 0 THEN due - 1 ELSE 0
  /\ UNCHANGED <<hw, chassis, told, said>>

\* The frame is byte for byte the last one of a neighbour: only its age changes.
RecvDuplicate(h, f) ==
  /\ \E p \in Rports(h) :
       /\ port[p].frame = f
       /\ port' = [port EXCEPT ![p].age = 0]
  /\ UNCHANGED <<hw, chassis, told, said>>
  /\ ScheduleCleanup

\* A known neighbour says something new: its old cell is unlinked and freed,
\* its system is overwritten in place.
RecvKnown(h, f) ==
  /\ ~IsDuplicate(h, f)
  /\ \E o \in Known(h, f), p \in Ports \ DOMAIN port :
       LET c == port[o].chassis IN
       /\ InsertPort(h, f, p, c, {o})
       /\ chassis' = [chassis EXCEPT ![c] = Ref(MoveChassis(Unref(@), f))]
  /\ told' = told \cup {<<h, f.proto, f.cid, f.pid>>}
  /\ Heard(f)
  /\ UNCHANGED hw
  /\ ScheduleCleanup

\* A new neighbour of a system already known, from this or another interface.
RecvNewPort(h, f) ==
  /\ ~IsDuplicate(h, f) /\ Known(h, f) = {} /\ HasRoom(h, f)
  /\ \E c \in KnownSystem(f), p \in Ports \ DOMAIN port :
       /\ InsertPort(h, f, p, c, {})
       /\ chassis' = [chassis EXCEPT ![c] = Ref(MoveChassis(@, f))]
  /\ told' = told \cup {<<h, f.proto, f.cid, f.pid>>}
  /\ Heard(f)
  /\ UNCHANGED hw
  /\ ScheduleCleanup

\* A new neighbour of a new system.
RecvNewSystem(h, f) ==
  /\ ~IsDuplicate(h, f) /\ Known(h, f) = {} /\ HasRoom(h, f)
  /\ KnownSystem(f) = {}
  /\ \E c \in Addrs \ DOMAIN chassis, p \in Ports \ DOMAIN port :
       /\ InsertPort(h, f, p, c, {})
       /\ chassis' = [d \in DOMAIN chassis \cup {c} |->
                        IF d = c THEN Ref(NewChassis(f)) ELSE chassis[d]]
  /\ told' = told \cup {<<h, f.proto, f.cid, f.pid>>}
  /\ Heard(f)
  /\ UNCHANGED hw
  /\ ScheduleCleanup

\* A frame that reaches no neighbour: reception is off (paused, no protocol,
\* direction, link down), it is too short, not recognised or not decoded (no
\* memory included), or there is no room for a new neighbour. The timer is
\* armed again all the same.
RecvDiscarded(h) ==
  /\ UNCHANGED <<hw, port, chassis, told, said>>
  /\ ScheduleCleanup

\* lldpd_cleanup with the interfaces in gone marked for removal (h_flags 0) and
\* those in added allocated just before: neighbours of gone interfaces and
\* neighbours that expired are notified as deleted, unlinked and freed, then
\* every system without a reference is freed.
Cleanup(gone, added) ==
  LET dead == {p \in DOMAIN port : port[p].hw \in gone \/ Expired(p)}
      refs(c) == chassis[c].refcount - Cardinality({p \in dead : port[p].chassis = c})
                   + (IF c = Local THEN Cardinality(added) - Cardinality(gone) ELSE 0)
  IN /\ hw' = (hw \ gone) \cup added
     /\ port' = [p \in DOMAIN port \ dead |-> port[p]]
     /\ chassis' = [c \in {d \in DOMAIN chassis : ~Unreferenced(refs(d))} |->
                      [chassis[c] EXCEPT !.refcount = refs(c)]]
     /\ told' = told \ Reported(dead)
     /\ UNCHANGED said
     /\ ScheduleCleanup

\* levent_trigger_cleanup: g_cleanup_timer fires.
CleanupFires == due = 0 /\ Cleanup({}, {})

\* interfaces_update and lldpd_cleanup once the interfaces in gone are known to
\* go: the system reports some of the interfaces that have no lldpd_hardware
\* then, which includes one that goes because its index changed.
Rediscover(gone) == \E added \in SUBSET (Ifs \ (hw \ gone)) : Cleanup(gone, added)

\* lldpd_update_localports, from the main loop or a netlink event.
UpdateLocalports == \E gone \in SUBSET hw : Rediscover(gone)

\* A changed lldp_enable_dir resets one interface, switching LLDP on or off
\* resets them all: lldpd_reset removes them, then lldpd_update_localports
\* looks at the interfaces again and may find that others are gone too.
LldpdReset == \E gone \in SUBSET hw : (gone # {} \/ hw = {}) /\ Rediscover(gone)

\* lldpd_clear_nbr_table and lldpd_clear_counters: every neighbour is freed
\* without being reported; nothing else is done until the timer fires.
ClearTable ==
  /\ AllowClear
  /\ port' = [p \in {} |-> p]
  /\ chassis' = [c \in DOMAIN chassis |->
       [chassis[c] EXCEPT !.refcount =
          @ - Cardinality({p \in DOMAIN port : port[p].chassis = c})]]
  /\ UNCHANGED <<hw, due, told, said>>

\* A new transmit interval or hold changes the local lifetime.
SetLocalTtl ==
  /\ \E ttl \in LocalTtls : chassis' = [chassis EXCEPT ![Local].ttl = ttl]
  /\ UNCHANGED <<hw, port, due, told, said>>

Recv(h, f) ==
  \/ RecvDuplicate(h, f)
  \/ RecvKnown(h, f)
  \/ RecvNewPort(h, f)
  \/ RecvNewSystem(h, f)

Next ==
  \/ Tick
  \/ \E h \in hw : RecvDiscarded(h)
  \/ \E h \in hw, f \in Frames : Recv(h, f)
  \/ CleanupFires
  \/ UpdateLocalports
  \/ LldpdReset
  \/ ClearTable
  \/ SetLocalTtl

Spec == Init /\ [][Next]_vars

\* Time passes, and libevent runs the callback of a timer that is due.
FairSpec == Spec /\ WF_vars(Tick) /\ WF_vars(CleanupFires)

-----------------------------------------------------------------------------
\* Properties.

PortRecords == [hw : Ifs, frame : Frames, age : 0 .. MaxAge, chassis : Addrs]

ChassisIds == {f.cid : f \in Frames} \cup {Local}

ChassisRecords == [proto : Nat, cid : ChassisIds, ttl : Nat, refcount : Nat]

\* The cells that are allocated hold a neighbour or a system, the local chassis
\* is always allocated, and it alone has no protocol.
HeapOK ==
  /\ hw \subseteq Ifs
  /\ DOMAIN port \subseteq Ports
  /\ port \in [DOMAIN port -> PortRecords]
  /\ DOMAIN chassis \subseteq Addrs \cup {Local}
  /\ chassis \in [DOMAIN chassis -> ChassisRecords]
  /\ Local \in DOMAIN chassis
  /\ chassis[Local].proto = 0
  /\ \A c \in DOMAIN chassis \ {Local} : chassis[c].proto # 0 /\ chassis[c].ttl <= MaxAge

\* Every variable has its type: the heap cells of lldpd_port and lldpd_chassis
\* as in HeapOK, the timer a number of seconds.
TypeOK == HeapOK /\ due \in Nat

\* The neighbours that hold a reference to system c.
Holders(c) == {p \in DOMAIN port : port[p].chassis = c}

\* lldpd_cleanup frees a system when its reference count is zero, so the count
\* has to be exact through decoding (which drops and takes references), ageing,
\* interface removal and clearing: no neighbour points to a freed system or
\* hangs off a removed interface, every count is the number of neighbours of
\* the system, and the local chassis is held once by the daemon and once by
\* each interface.
RefcountExact ==
  /\ \A p \in DOMAIN port : port[p].chassis \in DOMAIN chassis \ {Local} /\ port[p].hw \in hw
  /\ \A c \in DOMAIN chassis \ {Local} : chassis[c].refcount = Cardinality(Holders(c))
  /\ chassis[Local].refcount = 1 + Cardinality(hw)

\* A neighbour agrees with the system it points to: lldpd_move_chassis rewrites
\* a system that other neighbours share and must not make it another system.
OwnSystem ==
  \A p \in DOMAIN port :
    /\ port[p].frame.proto = chassis[port[p].chassis].proto
    /\ port[p].frame.cid = chassis[port[p].chassis].cid

\* No interface lists the same MSAP twice and no system has two cells, also
\* when the system survived without neighbours after the table was cleared.
UniqueEntries ==
  /\ \A p, q \in DOMAIN port : Msap(p) = Msap(q) => p = q
  /\ \A c, d \in DOMAIN chassis :
       (chassis[c].proto = chassis[d].proto /\ chassis[c].cid = chassis[d].cid) => c = d

\* No interface ever holds more neighbours of one protocol than configured.
NeighborBound ==
  MaxNeighbors # 0 =>
    \A h \in hw, p \in DOMAIN port :
      Cardinality({q \in Rports(h) : port[q].frame.proto = port[p].frame.proto}) <= MaxNeighbors

\* The timer is never armed past the moment a neighbour expires, although the
\* lifetime of a system is rewritten by frames of other neighbours, and frames
\* that are discarded arm it again too. So a neighbour that outlived its
\* lifetime is only in the table while its cleanup is due.
TimerCovers == \A p \in DOMAIN port : due <= Remaining(p)

\* What a subscribed client could know.
Neighbors == {Msap(p) : p \in DOMAIN port}

\* Every step keeps subscribers informed: lldpd_decode announces who is new, and
\* whoever leaves, through ageing or with an interface, is announced as deleted
\* by the callback of lldpd_remote_cleanup. Clear requests pass no callback, so
\* they are the one way to leave unnoticed.
Watched ==
  [][/\ Neighbors' \ Neighbors \subseteq told'
     /\ (Neighbors \ Neighbors') \cap told' = {} \/ ClearTable]_vars

\* What the system of neighbour p said last, on whichever interface, is over. A
\* duplicate frame is not decoded: it makes p young again and says nothing.
Outlived(p) == port[p].age >= said[<<port[p].frame.proto, port[p].frame.cid>>]

\* A neighbour leaves the table only when it outlived the lifetime its own
\* system announced last, when a newer frame of the same neighbour takes its
\* place, or together with all the neighbours of its interface (interface
\* removed or reset, table cleared). lldpd_move_chassis writes the lifetime into
\* a cell that neighbours on other interfaces share: frames of the system heard
\* there do shorten this neighbour's life, down to its end with a shutdown;
\* frames of any other system or protocol, however many, do not touch it.
OnlyOwnEnd ==
  [][\A p \in DOMAIN port \ DOMAIN port' :
       \/ Outlived(p)
       \/ \E q \in DOMAIN port' \ DOMAIN port : Msap(q)' = Msap(p)
       \/ \A q \in DOMAIN port' : port'[q].hw # port[p].hw]_vars

\* A neighbour that went silent leaves the table (or is heard again), however
\* often the timer is armed again in between.
SilentLeaves ==
  \A p \in Ports :
    (p \in DOMAIN port /\ port[p].age > 0) ~> (p \in DOMAIN port => port[p].age = 0)

\* A system left without neighbours is freed or used again. The cleanup timer
\* alone does not ensure it: every frame, also a discarded one, arms the timer
\* again for the full local lifetime once no neighbour is left. It takes the
\* main loop: levent_update_and_send arms its own timer each time it has run,
\* so that the local ports are looked at again and again.
OrphanFreed ==
  WF_vars(UpdateLocalports) =>
    \A c \in Addrs :
      (c \in DOMAIN chassis /\ chassis[c].refcount = 0)
        ~> (c \in DOMAIN chassis => chassis[c].refcount > 0)

=============================================================================
