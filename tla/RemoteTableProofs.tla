------------------------- MODULE RemoteTableProofs -------------------------
(***************************************************************************)
(* Proofs about RemoteTable, for any number of interfaces, cells, systems, *)
(* frames and lifetimes.                                                   *)
(***************************************************************************)
EXTENDS RemoteTable, FiniteSetTheorems, TLAPS

\* What the table is between two handlers.
TableInv == HeapOK /\ RefcountExact /\ OwnSystem /\ UniqueEntries

\* The inductive invariant: counts are exact only in a well-formed heap, the
\* heap stays well-formed only with exact counts (a count must not fall below
\* zero), a system may be overwritten in place only because neighbours agree
\* with their system, and the timer is compared with lifetimes found through it.
IInv == TableInv /\ due \in Nat /\ TimerCovers

-----------------------------------------------------------------------------
\* The neighbours of a system are finitely many, since the heap is finite.
LEMMA HoldersFinite ==
  ASSUME HeapOK, NEW c
  PROVE  IsFiniteSet(Holders(c)) /\ Cardinality(Holders(c)) \in Nat
<1>1. Holders(c) \in SUBSET Ports
  BY Zenon DEF HeapOK, Holders
<1>2. IsFiniteSet(Ports)
  BY CellsAssumption, Zenon
<1>3. IsFiniteSet(Holders(c))
  BY <1>1, <1>2, FS_Subset, Zenon
<1>. QED
  BY <1>3, FS_CardinalityType, Zenon

\* The interfaces are finitely many.
LEMMA HwFinite ==
  ASSUME HeapOK
  PROVE  IsFiniteSet(hw) /\ Cardinality(hw) \in Nat
<1>1. hw \in SUBSET Ifs /\ IsFiniteSet(Ifs)
  BY CellsAssumption, Zenon DEF HeapOK
<1>. QED
  BY <1>1, FS_Subset, FS_CardinalityType, Zenon

\* In a well-formed table levent_schedule_cleanup arms the timer for a number
\* of seconds, and for no later moment than the end of any neighbour.
LEMMA ArmedTimer ==
  ASSUME TableInv', ScheduleCleanup
  PROVE  due' \in Nat /\ TimerCovers'
<1>1. /\ chassis'[Local].ttl \in Nat
      /\ \A p \in DOMAIN port' :
           port'[p].age \in Nat /\ chassis'[port'[p].chassis].ttl \in Nat
  BY LimitsAssumption DEF TableInv, HeapOK, RefcountExact, PortRecords, ChassisRecords
<1>2. \A d \in Deadlines' : d \in Nat
  BY <1>1 DEF Deadlines, Remaining, Expired
<1>. QED
  BY <1>2, Zenon DEF ScheduleCleanup, TimerCovers, Deadlines

\* lldpd_move_chassis keeps the reference count of the system it overwrites.
LEMMA MovedSystem ==
  ASSUME NEW f \in Frames, NEW sys \in [proto : Nat, cid : ChassisIds, ttl : Nat, refcount : Int]
  PROVE  /\ MoveChassis(sys, f) \in [proto : Nat, cid : ChassisIds, ttl : Nat, refcount : Int]
         /\ MoveChassis(sys, f).proto = f.proto
         /\ MoveChassis(sys, f).cid = f.cid
         /\ MoveChassis(sys, f).ttl = f.ttl
         /\ MoveChassis(sys, f).refcount = sys.refcount
<1>1. f.proto \in Nat /\ f.ttl \in Nat /\ f.cid \in ChassisIds
  BY FramesAssumption, LimitsAssumption DEF ChassisIds
<1>. QED
  BY <1>1, Zenon DEF MoveChassis

\* Taking and dropping a reference change nothing but the count.
LEMMA Counted ==
  ASSUME NEW sys \in [proto : Nat, cid : ChassisIds, ttl : Nat, refcount : Int]
  PROVE  /\ Ref(sys) \in [proto : Nat, cid : ChassisIds, ttl : Nat, refcount : Int]
         /\ Ref(sys).proto = sys.proto /\ Ref(sys).cid = sys.cid /\ Ref(sys).ttl = sys.ttl
         /\ Ref(sys).refcount = sys.refcount + 1
         /\ Unref(sys) \in [proto : Nat, cid : ChassisIds, ttl : Nat, refcount : Int]
         /\ Unref(sys).refcount = sys.refcount - 1
  BY DEF Ref, Unref

-----------------------------------------------------------------------------
\* A handler that only changes ages leaves the table as it is.
LEMMA SameTable ==
  ASSUME TableInv,
         hw' = hw, chassis' = chassis, DOMAIN port' = DOMAIN port,
         port' \in [DOMAIN port -> PortRecords],
         \A p \in DOMAIN port : /\ port'[p].hw = port[p].hw
                                /\ port'[p].frame = port[p].frame
                                /\ port'[p].chassis = port[p].chassis
  PROVE  TableInv'
<1>1. HeapOK'
  BY Zenon DEF TableInv, HeapOK
<1>2. \A c : Holders(c)' = Holders(c)
  BY Zenon DEF Holders
<1>3. RefcountExact'
  BY <1>2, Zenon DEF TableInv, RefcountExact
<1>4. OwnSystem' /\ UniqueEntries'
  BY ZenonT(30) DEF TableInv, OwnSystem, UniqueEntries, Msap
<1>. QED
  BY <1>1, <1>3, <1>4, Zenon DEF TableInv

\* Linking a decoded neighbour: the cases of lldpd_decode differ in the cells
\* they free (old) and in whether the system is known.
LEMMA InsertedTable ==
  ASSUME TableInv,
         NEW h \in hw, NEW f \in Frames, NEW p \in Ports \ DOMAIN port,
         NEW c \in Addrs, NEW old \in SUBSET Holders(c),
         InsertPort(h, f, p, c, old), hw' = hw,
         chassis' \in [DOMAIN chassis \cup {c} -> ChassisRecords],
         \A d \in DOMAIN chassis \ {c} : chassis'[d] = chassis[d],
         chassis'[c].proto = f.proto, chassis'[c].cid = f.cid, chassis'[c].ttl = f.ttl,
         chassis'[c].refcount = Cardinality((Holders(c) \ old) \cup {p}),
         c \in DOMAIN chassis => SameSystem(c, f),
         c \notin DOMAIN chassis => KnownSystem(f) = {},
         \A q \in DOMAIN port \ old : ~(port[q].hw = h /\ SameMsap(q, f))
  PROVE  TableInv'
<1>1. f.proto \in Nat \ {0} /\ f.ttl \in Nat /\ f.ttl <= MaxAge /\ MaxAge \in Nat /\ c # Local
  BY FramesAssumption, LimitsAssumption, CellsAssumption
<1>2. NewPort(h, f, c) \in PortRecords
  BY <1>1 DEF NewPort, PortRecords, TableInv, HeapOK
<1>3. /\ DOMAIN port' = (DOMAIN port \ old) \cup {p}
      /\ port'[p] = NewPort(h, f, c)
      /\ \A q \in DOMAIN port \ old : q # p /\ port'[q] = port[q]
  BY Zenon DEF InsertPort
<1>4. HeapOK'
  <2>1. DOMAIN port' \subseteq Ports /\ port' \in [DOMAIN port' -> PortRecords]
    BY <1>2, <1>3, Zenon DEF TableInv, HeapOK, InsertPort
  <2>2. DOMAIN chassis' = DOMAIN chassis \cup {c} /\ Local \in DOMAIN chassis'
    BY Zenon DEF TableInv, HeapOK
  <2>3. chassis'[Local] = chassis[Local]
    BY <1>1, <2>2, Zenon DEF TableInv, HeapOK
  <2>4. \A d \in DOMAIN chassis' \ {Local} : chassis'[d].proto # 0 /\ chassis'[d].ttl <= MaxAge
    BY <1>1, <2>2, Zenon DEF TableInv, HeapOK
  <2>. QED
    BY <2>1, <2>2, <2>3, <2>4, Zenon DEF TableInv, HeapOK
<1>5. Holders(c)' = (Holders(c) \ old) \cup {p}
  BY <1>3 DEF Holders, NewPort
<1>6. \A d : d # c => Holders(d)' = Holders(d)
  BY <1>3 DEF Holders, NewPort
<1>7. RefcountExact'
  <2>1. DOMAIN chassis' = DOMAIN chassis \cup {c} /\ Local \in DOMAIN chassis
    BY Zenon DEF TableInv, HeapOK
  <2>2. \A q \in DOMAIN port' : port'[q].chassis \in DOMAIN chassis' \ {Local} /\ port'[q].hw \in hw'
    BY <1>1, <1>3, <2>1 DEF TableInv, RefcountExact, NewPort
  <2>3. \A d \in DOMAIN chassis' \ {Local} : chassis'[d].refcount = Cardinality(Holders(d)')
    BY <1>5, <1>6, <2>1, Zenon DEF TableInv, RefcountExact
  <2>4. chassis'[Local].refcount = 1 + Cardinality(hw')
    BY <1>1, <2>1, Zenon DEF TableInv, RefcountExact
  <2>. QED
    BY <2>2, <2>3, <2>4, Zenon DEF RefcountExact
<1>8. OwnSystem'
  BY <1>3 DEF TableInv, HeapOK, RefcountExact, OwnSystem, NewPort, SameSystem
<1>9. \A q \in DOMAIN port \ old : Msap(q)' = Msap(q) /\ Msap(q) # Msap(p)'
  BY <1>3 DEF TableInv, HeapOK, RefcountExact, Msap, SameMsap, SameSystem, NewPort
<1>10. UniqueEntries'
  BY <1>3, <1>9 DEF TableInv, UniqueEntries, SameSystem, KnownSystem
<1>. QED
  BY <1>4, <1>7, <1>8, <1>10, Zenon DEF TableInv

\* Unlinking neighbours: the reference counts go down by the neighbours that
\* are gone, and systems may be freed once nothing refers to them.
LEMMA RemovedTable ==
  ASSUME TableInv,
         NEW dead \in SUBSET DOMAIN port,
         port' = [p \in DOMAIN port \ dead |-> port[p]],
         hw' \subseteq Ifs,
         \A p \in DOMAIN port \ dead : port[p].hw \in hw',
         DOMAIN chassis' \subseteq DOMAIN chassis, Local \in DOMAIN chassis',
         \A c \in DOMAIN chassis \ DOMAIN chassis' : Holders(c) \subseteq dead,
         chassis' \in [DOMAIN chassis' -> ChassisRecords],
         \A c \in DOMAIN chassis' : /\ chassis'[c].proto = chassis[c].proto
                                    /\ chassis'[c].cid = chassis[c].cid
                                    /\ chassis'[c].ttl = chassis[c].ttl,
         \A c \in DOMAIN chassis' \ {Local} :
           chassis'[c].refcount = Cardinality(Holders(c) \ dead),
         chassis'[Local].refcount = 1 + Cardinality(hw')
  PROVE  TableInv'
<1>1. DOMAIN port' = DOMAIN port \ dead /\ \A p \in DOMAIN port' : port'[p] = port[p]
  BY Zenon
<1>2. \A c : Holders(c)' = Holders(c) \ dead
  BY <1>1, Zenon DEF Holders
<1>3. HeapOK'
  <2>1. DOMAIN port' \subseteq Ports /\ port' \in [DOMAIN port' -> PortRecords]
    BY <1>1, Zenon DEF TableInv, HeapOK
  <2>. QED
    BY <2>1, Zenon DEF TableInv, HeapOK
<1>4. \A p \in DOMAIN port' : port'[p].chassis \in DOMAIN chassis' \ {Local}
  BY <1>1, Zenon DEF TableInv, RefcountExact, Holders
<1>5. RefcountExact'
  BY <1>1, <1>2, <1>4, Zenon DEF RefcountExact
<1>6. OwnSystem'
  <2>1. \A p \in DOMAIN port' : port[p].frame.proto = chassis[port[p].chassis].proto
                             /\ port[p].frame.cid = chassis[port[p].chassis].cid
    BY <1>1, Zenon DEF TableInv, OwnSystem
  <2>. QED
    BY <1>1, <1>4, <2>1 DEF OwnSystem
<1>7. \A p \in DOMAIN port' : Msap(p)' = Msap(p)
  BY <1>1, <1>4, Zenon DEF Msap
<1>8. UniqueEntries'
  <2>1. \A p, q \in DOMAIN port' : Msap(p)' = Msap(q)' => p = q
    BY <1>1, <1>7 DEF TableInv, UniqueEntries
  <2>2. \A c, d \in DOMAIN chassis' :
          (chassis'[c].proto = chassis'[d].proto /\ chassis'[c].cid = chassis'[d].cid) => c = d
    BY Zenon DEF TableInv, UniqueEntries
  <2>. QED
    BY <2>1, <2>2, Zenon DEF UniqueEntries
<1>. QED
  BY <1>3, <1>5, <1>6, <1>8, Zenon DEF TableInv

-----------------------------------------------------------------------------
\* lldpd_decode, with the timer armed again by levent_hardware_recv.
LEMMA RecvDuplicateStep ==
  ASSUME IInv, NEW h \in hw, NEW f \in Frames, RecvDuplicate(h, f)
  PROVE  IInv'
<1>1. PICK p \in Rports(h) : port' = [port EXCEPT ![p].age = 0]
  BY Zenon DEF RecvDuplicate
<1>2. port' \in [DOMAIN port -> PortRecords]
  BY <1>1, LimitsAssumption DEF IInv, TableInv, HeapOK, Rports, PortRecords
<1>3. \A q \in DOMAIN port : /\ port'[q].hw = port[q].hw
                             /\ port'[q].frame = port[q].frame
                             /\ port'[q].chassis = port[q].chassis
  BY <1>1, Zenon DEF IInv, TableInv, HeapOK, Rports, PortRecords
<1>4. TableInv'
  BY <1>1, <1>2, <1>3, SameTable, Zenon DEF IInv, RecvDuplicate
<1>. QED
  BY <1>4, ArmedTimer, Zenon DEF IInv, RecvDuplicate

\* A known neighbour: its old reference goes, its new one comes.
LEMMA RecvKnownStep ==
  ASSUME IInv, NEW h \in hw, NEW f \in Frames, RecvKnown(h, f)
  PROVE  IInv'
<1>1. PICK o \in Known(h, f), p \in Ports \ DOMAIN port :
        /\ InsertPort(h, f, p, port[o].chassis, {o})
        /\ chassis' = [chassis EXCEPT ![port[o].chassis] = Ref(MoveChassis(Unref(@), f))]
  BY Zenon DEF RecvKnown
<1>. DEFINE c == port[o].chassis
<1>2. /\ o \in DOMAIN port /\ port[o].hw = h
      /\ port[o].frame.proto = f.proto /\ port[o].frame.pid = f.pid /\ chassis[c].cid = f.cid
  BY Zenon DEF Known, Rports, SameMsap
<1>3. c \in Addrs /\ c \in DOMAIN chassis \ {Local} /\ o \in Holders(c)
  BY <1>2, Zenon DEF IInv, TableInv, HeapOK, RefcountExact, PortRecords, Holders
<1>4. SameSystem(c, f)
  BY <1>2, Zenon DEF SameSystem, IInv, TableInv, OwnSystem
<1>5. Cardinality((Holders(c) \ {o}) \cup {p}) = chassis[c].refcount
  <2>1. IsFiniteSet(Holders(c)) /\ Cardinality(Holders(c)) \in Nat
    BY HoldersFinite, Zenon DEF IInv, TableInv
  <2>2. IsFiniteSet(Holders(c) \ {o}) /\ Cardinality(Holders(c) \ {o}) = Cardinality(Holders(c)) - 1
    BY <1>3, <2>1, FS_RemoveElement, Zenon
  <2>3. p \notin Holders(c) \ {o}
    BY Zenon DEF Holders
  <2>4. Cardinality((Holders(c) \ {o}) \cup {p}) = Cardinality(Holders(c) \ {o}) + 1
    BY <2>2, <2>3, FS_AddElement, Zenon
  <2>. QED
    BY <1>3, <2>1, <2>2, <2>4 DEF IInv, TableInv, RefcountExact
<1>6. chassis[c] \in ChassisRecords
  BY <1>3, Zenon DEF IInv, TableInv, HeapOK
<1>. DEFINE new == Ref(MoveChassis(Unref(chassis[c]), f))
<1>7. /\ new \in ChassisRecords
      /\ new.proto = f.proto /\ new.cid = f.cid /\ new.ttl = f.ttl
      /\ new.refcount = chassis[c].refcount
  <2>. DEFINE Rec == [proto : Nat, cid : ChassisIds, ttl : Nat, refcount : Int]
              u == Unref(chassis[c])
              m == MoveChassis(u, f)
  <2>1. chassis[c] \in Rec /\ chassis[c].refcount \in Nat
    BY <1>6 DEF ChassisRecords
  <2>2. u \in Rec /\ u.refcount = chassis[c].refcount - 1
    BY <2>1, Counted, Zenon
  <2>3. /\ m \in Rec /\ m.refcount = u.refcount
        /\ m.proto = f.proto /\ m.cid = f.cid /\ m.ttl = f.ttl
    BY <2>2, MovedSystem, Zenon
  <2>4. /\ new \in Rec /\ new.refcount = m.refcount + 1
        /\ new.proto = f.proto /\ new.cid = f.cid /\ new.ttl = f.ttl
    BY <2>3, Counted, Zenon
  <2>5. new.refcount = chassis[c].refcount
    <3>. HIDE DEF u, m, new
    <3>. QED  BY <2>1, <2>2, <2>3, <2>4
  <2>. HIDE DEF new
  <2>. QED
    BY <2>1, <2>4, <2>5, Zenon DEF ChassisRecords
<1>8. TableInv'
  <2>. HIDE DEF new
  <2>0. chassis' = [chassis EXCEPT ![c] = new]
    BY <1>1, Zenon DEF new
  <2>1. /\ chassis' \in [DOMAIN chassis \cup {c} -> ChassisRecords]
        /\ \A d \in DOMAIN chassis \ {c} : chassis'[d] = chassis[d]
        /\ chassis'[c].proto = f.proto /\ chassis'[c].cid = f.cid /\ chassis'[c].ttl = f.ttl
        /\ chassis'[c].refcount = Cardinality((Holders(c) \ {o}) \cup {p})
    BY <1>3, <1>5, <1>7, <2>0, Zenon DEF IInv, TableInv, HeapOK
  <2>2. \A q \in DOMAIN port \ {o} : ~(port[q].hw = h /\ SameMsap(q, f))
    BY <1>2, Zenon DEF SameMsap, IInv, TableInv, UniqueEntries, Msap
  <2>3. {o} \in SUBSET Holders(c) /\ hw' = hw
    BY <1>3, Zenon DEF RecvKnown
  <2>4. InsertPort(h, f, p, c, {o})
    BY <1>1, Zenon
  <2>5. TableInv /\ c \in Addrs /\ c \in DOMAIN chassis
    BY <1>3, Zenon DEF IInv
  <2>. HIDE DEF c
  <2>. QED
    BY <1>4, <2>1, <2>2, <2>3, <2>4, <2>5, InsertedTable, Zenon
<1>. QED
  BY <1>8, ArmedTimer, Zenon DEF IInv, RecvKnown

\* No neighbour of interface h is the one a frame outside Known(h, f) is from.
LEMMA NobodyKnown ==
  ASSUME NEW h, NEW f, Known(h, f) = {}
  PROVE  \A q \in DOMAIN port : ~(port[q].hw = h /\ SameMsap(q, f))
  BY Zenon DEF Known, Rports

\* A new neighbour of a known system: one more reference.
LEMMA RecvNewPortStep ==
  ASSUME IInv, NEW h \in hw, NEW f \in Frames, RecvNewPort(h, f)
  PROVE  IInv'
<1>1. PICK c \in KnownSystem(f), p \in Ports \ DOMAIN port :
        /\ InsertPort(h, f, p, c, {})
        /\ chassis' = [chassis EXCEPT ![c] = Ref(MoveChassis(@, f))]
  BY Zenon DEF RecvNewPort
<1>2. c \in DOMAIN chassis /\ SameSystem(c, f)
  BY Zenon DEF KnownSystem
<1>3. c # Local /\ c \in Addrs
  <2>1. f.proto # 0
    BY FramesAssumption, Zenon
  <2>. QED
    BY <1>2, <2>1, Zenon DEF SameSystem, IInv, TableInv, HeapOK
<1>4. chassis[c] \in ChassisRecords
  BY <1>2, Zenon DEF IInv, TableInv, HeapOK
<1>. DEFINE new == Ref(MoveChassis(chassis[c], f))
<1>5. /\ new \in ChassisRecords
      /\ new.proto = f.proto /\ new.cid = f.cid /\ new.ttl = f.ttl
      /\ new.refcount = chassis[c].refcount + 1
  <2>. DEFINE Rec == [proto : Nat, cid : ChassisIds, ttl : Nat, refcount : Int]
              m == MoveChassis(chassis[c], f)
  <2>1. chassis[c] \in Rec /\ chassis[c].refcount \in Nat
    BY <1>4 DEF ChassisRecords
  <2>2. /\ m \in Rec /\ m.refcount = chassis[c].refcount
        /\ m.proto = f.proto /\ m.cid = f.cid /\ m.ttl = f.ttl
    BY <2>1, MovedSystem, Zenon
  <2>3. /\ new \in Rec /\ new.refcount = m.refcount + 1
        /\ new.proto = f.proto /\ new.cid = f.cid /\ new.ttl = f.ttl
    BY <2>2, Counted, Zenon
  <2>. HIDE DEF new
  <2>. QED
    BY <2>1, <2>2, <2>3 DEF ChassisRecords
<1>6. Cardinality((Holders(c) \ {}) \cup {p}) = chassis[c].refcount + 1
  <2>1. IsFiniteSet(Holders(c)) /\ Cardinality(Holders(c)) = chassis[c].refcount
    BY <1>2, <1>3, HoldersFinite, Zenon DEF IInv, TableInv, RefcountExact
  <2>2. p \notin Holders(c) /\ Holders(c) \ {} = Holders(c)
    BY Zenon DEF Holders
  <2>. QED
    BY <2>1, <2>2, FS_AddElement, Zenon
<1>7. TableInv'
  <2>. HIDE DEF new
  <2>1. chassis' = [chassis EXCEPT ![c] = new]
    BY <1>1, Zenon DEF new
  <2>2. /\ chassis' \in [DOMAIN chassis \cup {c} -> ChassisRecords]
        /\ \A d \in DOMAIN chassis \ {c} : chassis'[d] = chassis[d]
        /\ chassis'[c].proto = f.proto /\ chassis'[c].cid = f.cid /\ chassis'[c].ttl = f.ttl
        /\ chassis'[c].refcount = Cardinality((Holders(c) \ {}) \cup {p})
    BY <1>2, <1>5, <1>6, <2>1, Zenon DEF IInv, TableInv, HeapOK
  <2>3. \A q \in DOMAIN port \ {} : ~(port[q].hw = h /\ SameMsap(q, f))
    BY NobodyKnown, Zenon DEF RecvNewPort
  <2>4. TableInv /\ hw' = hw /\ {} \in SUBSET Holders(c)
    BY Zenon DEF IInv, RecvNewPort
  <2>. QED
    BY <1>1, <1>2, <1>3, <2>2, <2>3, <2>4, InsertedTable, Zenon
<1>. QED
  BY <1>7, ArmedTimer, Zenon DEF IInv, RecvNewPort

\* A new neighbour of a new system: the first reference.
LEMMA RecvNewSystemStep ==
  ASSUME IInv, NEW h \in hw, NEW f \in Frames, RecvNewSystem(h, f)
  PROVE  IInv'
<1>1. PICK c \in Addrs \ DOMAIN chassis, p \in Ports \ DOMAIN port :
        /\ InsertPort(h, f, p, c, {})
        /\ chassis' = [d \in DOMAIN chassis \cup {c} |->
                         IF d = c THEN Ref(NewChassis(f)) ELSE chassis[d]]
  BY Zenon DEF RecvNewSystem
<1>. DEFINE new == Ref(NewChassis(f))
<1>2. /\ new \in ChassisRecords
      /\ new.proto = f.proto /\ new.cid = f.cid /\ new.ttl = f.ttl
      /\ new.refcount = 1
  <2>1. f.proto \in Nat /\ f.ttl \in Nat /\ f.cid \in ChassisIds
    BY FramesAssumption, LimitsAssumption DEF ChassisIds
  <2>. QED
    BY <2>1 DEF Ref, NewChassis, ChassisRecords
<1>3. Holders(c) = {}
  BY Zenon DEF IInv, TableInv, RefcountExact, Holders
<1>4. Cardinality((Holders(c) \ {}) \cup {p}) = 1
  <2>1. (Holders(c) \ {}) \cup {p} = {p}
    BY <1>3, Zenon
  <2>. QED
    BY <2>1, FS_Singleton, Zenon
<1>5. TableInv'
  <2>. HIDE DEF new
  <2>1. chassis' = [d \in DOMAIN chassis \cup {c} |-> IF d = c THEN new ELSE chassis[d]]
    BY <1>1, Zenon DEF new
  <2>2. /\ chassis' \in [DOMAIN chassis \cup {c} -> ChassisRecords]
        /\ \A d \in DOMAIN chassis \ {c} : chassis'[d] = chassis[d]
        /\ chassis'[c].proto = f.proto /\ chassis'[c].cid = f.cid /\ chassis'[c].ttl = f.ttl
        /\ chassis'[c].refcount = Cardinality((Holders(c) \ {}) \cup {p})
    BY <1>2, <1>4, <2>1, Zenon DEF IInv, TableInv, HeapOK
  <2>3. \A q \in DOMAIN port \ {} : ~(port[q].hw = h /\ SameMsap(q, f))
    BY NobodyKnown, Zenon DEF RecvNewSystem
  <2>4. TableInv /\ hw' = hw /\ {} \in SUBSET Holders(c) /\ KnownSystem(f) = {}
    BY Zenon DEF IInv, RecvNewSystem
  <2>. QED
    BY <1>1, <2>2, <2>3, <2>4, InsertedTable, Zenon
<1>. QED
  BY <1>5, ArmedTimer, Zenon DEF IInv, RecvNewSystem

\* lldpd_cleanup: after the counts went down, a system is freed exactly when no
\* neighbour that stays refers to it; the local chassis is never freed.
LEMMA CleanupStep ==
  ASSUME IInv, NEW gone \in SUBSET hw, NEW added \in SUBSET (Ifs \ (hw \ gone)),
         Cleanup(gone, added)
  PROVE  IInv'
<1>. DEFINE dead == {p \in DOMAIN port : port[p].hw \in gone \/ Expired(p)}
            deadOf(c) == {p \in dead : port[p].chassis = c}
            refs(c) == chassis[c].refcount - Cardinality(deadOf(c))
                         + (IF c = Local THEN Cardinality(added) - Cardinality(gone) ELSE 0)
<1>1. /\ hw' = (hw \ gone) \cup added
      /\ port' = [p \in DOMAIN port \ dead |-> port[p]]
      /\ chassis' = [c \in {d \in DOMAIN chassis : ~Unreferenced(refs(d))} |->
                       [chassis[c] EXCEPT !.refcount = refs(c)]]
      /\ ScheduleCleanup
  BY Zenon DEF Cleanup
<1>2. TableInv /\ HeapOK /\ dead \in SUBSET DOMAIN port
  BY Zenon DEF IInv, TableInv
<1>3. \A c \in DOMAIN chassis \ {Local} :
        /\ refs(c) = Cardinality(Holders(c) \ dead)
        /\ refs(c) = 0 => Holders(c) \subseteq dead
        /\ refs(c) \in Nat
  <2>. SUFFICES ASSUME NEW c \in DOMAIN chassis \ {Local}
                PROVE  /\ refs(c) = Cardinality(Holders(c) \ dead)
                       /\ refs(c) = 0 => Holders(c) \subseteq dead
                       /\ refs(c) \in Nat
    BY Zenon
  <2>1. IsFiniteSet(Holders(c)) /\ Cardinality(Holders(c)) \in Nat
    BY <1>2, HoldersFinite, Zenon
  <2>2. deadOf(c) = Holders(c) \cap dead
    BY Zenon DEF Holders
  <2>. HIDE DEF dead
  <2>3. IsFiniteSet(Holders(c) \cap dead) /\ Cardinality(Holders(c) \cap dead) \in Nat
    BY <2>1, FS_Subset, FS_CardinalityType, Zenon
  <2>4. /\ IsFiniteSet(Holders(c) \ dead)
        /\ Cardinality(Holders(c) \ dead) = Cardinality(Holders(c)) - Cardinality(Holders(c) \cap dead)
    BY <2>1, FS_Difference, Zenon
  <2>5. Cardinality(Holders(c) \ dead) \in Nat
    BY <2>4, FS_CardinalityType, Zenon
  <2>6. chassis[c].refcount = Cardinality(Holders(c))
    BY <1>2, Zenon DEF TableInv, RefcountExact
  <2>7. refs(c) = Cardinality(Holders(c) \ dead)
    <3>1. Cardinality(deadOf(c)) = Cardinality(Holders(c) \cap dead)
      BY <2>2, Zenon
    <3>. HIDE DEF deadOf
    <3>2. refs(c) = chassis[c].refcount - Cardinality(deadOf(c)) + 0
      BY Zenon
    <3>. HIDE DEF refs
    <3>. QED
      BY <2>1, <2>3, <2>4, <2>6, <3>1, <3>2
  <2>8. Cardinality(Holders(c) \ dead) = 0 => Holders(c) \ dead = {}
    BY <2>4, FS_EmptySet, Zenon
  <2>. QED
    BY <2>5, <2>7, <2>8, Zenon
<1>4. refs(Local) = 1 + Cardinality(hw') /\ Cardinality(hw') \in Nat
  <2>1. deadOf(Local) = {}
    BY <1>2, Zenon DEF TableInv, RefcountExact
  <2>2. IsFiniteSet(hw) /\ IsFiniteSet(gone) /\ IsFiniteSet(added) /\ IsFiniteSet(hw \ gone)
    BY <1>2, CellsAssumption, HwFinite, FS_Subset, Zenon
  <2>3. /\ Cardinality(hw) \in Nat /\ Cardinality(gone) \in Nat /\ Cardinality(added) \in Nat
        /\ Cardinality(hw \ gone) \in Nat
    BY <2>2, FS_CardinalityType, Zenon
  <2>4. Cardinality(hw \ gone) = Cardinality(hw) - Cardinality(gone)
    <3>1. hw \cap gone = gone
      BY Zenon
    <3>. QED
      BY <2>2, <3>1, FS_Difference, Zenon
  <2>5. Cardinality(hw') = Cardinality(hw \ gone) + Cardinality(added)
    <3>1. (hw \ gone) \cap added = {}
      BY Zenon
    <3>2. Cardinality((hw \ gone) \cup added) =
            Cardinality(hw \ gone) + Cardinality(added) - Cardinality((hw \ gone) \cap added)
      BY <2>2, FS_Union, Zenon
    <3>3. Cardinality((hw \ gone) \cap added) = 0
      BY <3>1, FS_EmptySet, Zenon
    <3>4. Cardinality(hw') = Cardinality((hw \ gone) \cup added)
      BY <1>1, Zenon
    <3>. QED
      BY <2>3, <3>2, <3>3, <3>4
  <2>6. chassis[Local].refcount = 1 + Cardinality(hw)
    BY <1>2, Zenon DEF TableInv, RefcountExact
  <2>7. Cardinality(deadOf(Local)) = 0
    BY <2>1, FS_EmptySet, Zenon
  <2>. HIDE DEF deadOf
  <2>8. refs(Local) = chassis[Local].refcount - Cardinality(deadOf(Local))
                        + (Cardinality(added) - Cardinality(gone))
    BY Zenon
  <2>. HIDE DEF refs
  <2>. QED
    BY <2>3, <2>4, <2>5, <2>6, <2>7, <2>8
<1>. HIDE DEF dead, deadOf, refs
<1>5. /\ DOMAIN chassis' = {d \in DOMAIN chassis : refs(d) # 0}
      /\ \A c \in DOMAIN chassis' : chassis'[c] = [chassis[c] EXCEPT !.refcount = refs(c)]
  BY <1>1, Zenon DEF Unreferenced
<1>6. \A c \in DOMAIN chassis' : refs(c) \in Nat
  <2>1. refs(Local) \in Nat /\ refs(Local) # 0
    BY <1>4
  <2>. QED
    BY <1>3, <1>5, <2>1, Zenon
<1>7. \A c \in DOMAIN chassis' :
        /\ chassis'[c] \in ChassisRecords
        /\ chassis'[c].proto = chassis[c].proto
        /\ chassis'[c].cid = chassis[c].cid
        /\ chassis'[c].ttl = chassis[c].ttl
        /\ chassis'[c].refcount = refs(c)
  <2>. SUFFICES ASSUME NEW c \in DOMAIN chassis'
                PROVE  /\ chassis'[c] \in ChassisRecords
                       /\ chassis'[c].proto = chassis[c].proto
                       /\ chassis'[c].cid = chassis[c].cid
                       /\ chassis'[c].ttl = chassis[c].ttl
                       /\ chassis'[c].refcount = refs(c)
    BY Zenon
  <2>1. chassis[c] \in ChassisRecords /\ refs(c) \in Nat
    BY <1>2, <1>5, <1>6, Zenon DEF HeapOK
  <2>2. chassis'[c] = [chassis[c] EXCEPT !.refcount = refs(c)]
    BY <1>5, Zenon
  <2>. QED
    BY <2>1, <2>2, Zenon DEF ChassisRecords
<1>8. chassis' \in [DOMAIN chassis' -> ChassisRecords]
  BY <1>1, <1>7, Zenon
<1>9. /\ DOMAIN chassis' \subseteq DOMAIN chassis /\ Local \in DOMAIN chassis'
      /\ \A c \in DOMAIN chassis \ DOMAIN chassis' : Holders(c) \subseteq dead
      /\ \A c \in DOMAIN chassis' \ {Local} : chassis'[c].refcount = Cardinality(Holders(c) \ dead)
      /\ chassis'[Local].refcount = 1 + Cardinality(hw')
  <2>1. refs(Local) # 0 /\ Local \in DOMAIN chassis
    BY <1>2, <1>4 DEF HeapOK
  <2>2. DOMAIN chassis' \subseteq DOMAIN chassis /\ Local \in DOMAIN chassis'
    BY <1>5, <2>1, Zenon
  <2>3. \A c \in DOMAIN chassis \ DOMAIN chassis' : Holders(c) \subseteq dead
    BY <1>3, <1>5, <2>1, Zenon
  <2>. QED
    BY <1>3, <1>4, <1>7, <2>2, <2>3, Zenon
<1>10. hw' \subseteq Ifs /\ \A p \in DOMAIN port \ dead : port[p].hw \in hw'
  BY <1>1, <1>2, Zenon DEF HeapOK, TableInv, RefcountExact, dead
<1>11. TableInv'
  BY <1>1, <1>2, <1>7, <1>8, <1>9, <1>10, RemovedTable, Zenon
<1>. QED
  BY <1>1, <1>11, ArmedTimer, Zenon DEF IInv

\* The clear requests: no neighbour is left, and no system is freed yet.
LEMMA ClearTableStep ==
  ASSUME IInv, ClearTable
  PROVE  IInv'
<1>. DEFINE dead == DOMAIN port
            refs(c) == chassis[c].refcount - Cardinality(Holders(c))
<1>1. TableInv /\ HeapOK
  BY Zenon DEF IInv, TableInv
<1>2. /\ port' = [p \in DOMAIN port \ dead |-> port[p]] /\ DOMAIN port' = {}
      /\ DOMAIN chassis' = DOMAIN chassis
      /\ \A c \in DOMAIN chassis : chassis'[c] = [chassis[c] EXCEPT !.refcount = refs(c)]
      /\ hw' = hw /\ due' = due
  BY Zenon DEF ClearTable, Holders
<1>3. \A c : Holders(c) \ dead = {} /\ Holders(c) \subseteq dead
  BY Zenon DEF Holders
<1>4. \A c \in DOMAIN chassis \ {Local} : refs(c) = Cardinality(Holders(c) \ dead) /\ refs(c) \in Nat
  <2>. SUFFICES ASSUME NEW c \in DOMAIN chassis \ {Local}
                PROVE  refs(c) = Cardinality(Holders(c) \ dead) /\ refs(c) \in Nat
    BY Zenon
  <2>1. Cardinality(Holders(c) \ dead) = 0
    BY <1>3, FS_EmptySet, Zenon
  <2>2. chassis[c].refcount = Cardinality(Holders(c)) /\ Cardinality(Holders(c)) \in Nat
    BY <1>1, HoldersFinite, Zenon DEF TableInv, RefcountExact
  <2>. QED
    BY <2>1, <2>2
<1>5. refs(Local) = 1 + Cardinality(hw') /\ refs(Local) \in Nat
  <2>1. Holders(Local) = {}
    BY <1>1, Zenon DEF TableInv, RefcountExact, Holders
  <2>. QED
    BY <1>1, <1>2, <2>1, HwFinite, FS_EmptySet DEF TableInv, RefcountExact
<1>. HIDE DEF refs, dead
<1>6. \A c \in DOMAIN chassis' :
        /\ chassis'[c] \in ChassisRecords
        /\ chassis'[c].proto = chassis[c].proto
        /\ chassis'[c].cid = chassis[c].cid
        /\ chassis'[c].ttl = chassis[c].ttl
        /\ chassis'[c].refcount = refs(c)
  <2>. SUFFICES ASSUME NEW c \in DOMAIN chassis'
                PROVE  /\ chassis'[c] \in ChassisRecords
                       /\ chassis'[c].proto = chassis[c].proto
                       /\ chassis'[c].cid = chassis[c].cid
                       /\ chassis'[c].ttl = chassis[c].ttl
                       /\ chassis'[c].refcount = refs(c)
    BY Zenon
  <2>1. chassis[c] \in ChassisRecords /\ refs(c) \in Nat
    BY <1>1, <1>2, <1>4, <1>5, Zenon DEF HeapOK
  <2>2. chassis'[c] = [chassis[c] EXCEPT !.refcount = refs(c)]
    BY <1>2, Zenon
  <2>. QED
    BY <2>1, <2>2, Zenon DEF ChassisRecords
<1>7. chassis' \in [DOMAIN chassis' -> ChassisRecords]
  BY <1>6, Zenon DEF ClearTable
<1>8. TableInv'
  <2>1. dead \in SUBSET DOMAIN port /\ hw' \subseteq Ifs /\ \A p \in DOMAIN port \ dead : port[p].hw \in hw'
    BY <1>1, <1>2, Zenon DEF dead, HeapOK
  <2>2. /\ DOMAIN chassis' \subseteq DOMAIN chassis /\ Local \in DOMAIN chassis'
        /\ \A c \in DOMAIN chassis \ DOMAIN chassis' : Holders(c) \subseteq dead
    BY <1>1, <1>2, Zenon DEF HeapOK
  <2>3. \A c \in DOMAIN chassis' \ {Local} : chassis'[c].refcount = Cardinality(Holders(c) \ dead)
    BY <1>2, <1>4, <1>6, Zenon
  <2>4. chassis'[Local].refcount = 1 + Cardinality(hw')
    BY <1>5, <1>6, <2>2, Zenon
  <2>. QED
    BY <1>1, <1>2, <1>6, <1>7, <2>1, <2>2, <2>3, <2>4, RemovedTable, Zenon
<1>. QED
  BY <1>2, <1>8, Zenon DEF IInv, TimerCovers

\* A second passes: the timer comes as much closer as the neighbours get older.
LEMMA TickStep ==
  ASSUME IInv, Tick
  PROVE  IInv'
<1>1. /\ TableInv /\ MaxAge \in Nat /\ due \in Nat
      /\ \A p \in DOMAIN port : port[p] \in PortRecords
  BY LimitsAssumption, Zenon DEF IInv, TableInv, HeapOK
<1>2. /\ DOMAIN port' = DOMAIN port
      /\ \A p \in DOMAIN port :
           /\ port'[p] \in PortRecords
           /\ port'[p].hw = port[p].hw
           /\ port'[p].frame = port[p].frame
           /\ port'[p].chassis = port[p].chassis
           /\ port'[p].age = IF port[p].age < MaxAge THEN port[p].age + 1 ELSE port[p].age
  BY <1>1 DEF Tick, PortRecords
<1>3. port' \in [DOMAIN port -> PortRecords]
  BY <1>2, Zenon DEF Tick
<1>4. TableInv'
  BY <1>1, <1>2, <1>3, SameTable, Zenon DEF Tick
<1>5. due' \in Nat /\ (due = 0 => due' = 0) /\ (due > 0 => due' = due - 1)
  BY <1>1 DEF Tick
<1>6. TimerCovers'
  <2>. SUFFICES ASSUME NEW p \in DOMAIN port
                PROVE  due' <= Remaining(p)'
    BY <1>2, Zenon DEF TimerCovers
  <2>. DEFINE ttl == chassis[port[p].chassis].ttl
  <2>1. ttl \in Nat /\ ttl <= MaxAge /\ port[p].age \in Nat /\ port[p].age <= MaxAge
    BY <1>1 DEF TableInv, HeapOK, RefcountExact, ChassisRecords, PortRecords
  <2>2. due <= IF port[p].age >= ttl THEN 0 ELSE ttl - port[p].age
    BY Zenon DEF IInv, TimerCovers, Remaining, Expired
  <2>3. Remaining(p)' = IF port'[p].age >= ttl THEN 0 ELSE ttl - port'[p].age
    BY <1>2 DEF Remaining, Expired, Tick
  <2>. HIDE DEF ttl
  <2>. QED
    BY <1>1, <1>2, <1>5, <2>1, <2>2, <2>3
<1>. QED
  BY <1>4, <1>5, <1>6, Zenon DEF IInv

\* The local lifetime is in no neighbour's way.
LEMMA SetLocalTtlStep ==
  ASSUME IInv, SetLocalTtl
  PROVE  IInv'
<1>1. PICK ttl \in LocalTtls : chassis' = [chassis EXCEPT ![Local].ttl = ttl]
  BY Zenon DEF SetLocalTtl
<1>2. /\ TableInv /\ HeapOK /\ ttl \in Nat /\ hw' = hw /\ port' = port /\ due' = due
      /\ Local \in DOMAIN chassis /\ chassis[Local] \in ChassisRecords
  BY LimitsAssumption, Zenon DEF IInv, TableInv, HeapOK, SetLocalTtl
<1>3. /\ DOMAIN chassis' = DOMAIN chassis
      /\ \A c \in DOMAIN chassis \ {Local} : chassis'[c] = chassis[c]
      /\ chassis'[Local] \in ChassisRecords
      /\ chassis'[Local].proto = chassis[Local].proto
      /\ chassis'[Local].cid = chassis[Local].cid
      /\ chassis'[Local].refcount = chassis[Local].refcount
  BY <1>1, <1>2, Zenon DEF ChassisRecords
<1>4. HeapOK'
  <2>1. chassis' \in [DOMAIN chassis' -> ChassisRecords]
    BY <1>1, <1>2, <1>3, Zenon DEF HeapOK
  <2>. QED
    BY <1>2, <1>3, <2>1, Zenon DEF HeapOK
<1>5. RefcountExact'
  BY <1>2, <1>3, ZenonT(30) DEF TableInv, RefcountExact, Holders
<1>6. OwnSystem'
  BY <1>2, <1>3, Zenon DEF TableInv, RefcountExact, OwnSystem
<1>7. UniqueEntries'
  <2>1. \A p \in DOMAIN port : Msap(p)' = Msap(p)
    BY <1>2, <1>3, Zenon DEF TableInv, RefcountExact, Msap
  <2>2. \A c \in DOMAIN chassis : chassis'[c].proto = chassis[c].proto /\ chassis'[c].cid = chassis[c].cid
    BY <1>3, Zenon
  <2>. QED
    BY <1>2, <1>3, <2>1, <2>2 DEF TableInv, UniqueEntries
<1>8. TimerCovers'
  BY <1>2, <1>3, Zenon DEF IInv, TableInv, RefcountExact, TimerCovers, Remaining, Expired
<1>. QED
  BY <1>2, <1>4, <1>5, <1>6, <1>7, <1>8, Zenon DEF IInv, TableInv

\* A frame that reaches no neighbour.
LEMMA RecvDiscardedStep ==
  ASSUME IInv, NEW h \in hw, RecvDiscarded(h)
  PROVE  IInv'
<1>1. TableInv'
  BY DEF IInv, TableInv, HeapOK, RefcountExact, Holders, OwnSystem, UniqueEntries, Msap, RecvDiscarded
<1>. QED
  BY <1>1, ArmedTimer, Zenon DEF IInv, RecvDiscarded

\* The table the daemon starts with.
LEMMA InitTable ==
  ASSUME Init
  PROVE  IInv
<1>1. PICK ttl \in LocalTtls :
        /\ chassis = [c \in {Local} |->
             [proto |-> 0, cid |-> Local, ttl |-> ttl, refcount |-> 1 + Cardinality(hw)]]
        /\ due = ttl
  BY Zenon DEF Init
<1>2. /\ hw \subseteq Ifs /\ DOMAIN port = {} /\ port = [p \in {} |-> p]
      /\ ttl \in Nat /\ DOMAIN chassis = {Local}
  BY <1>1, LimitsAssumption, Zenon DEF Init
<1>3. Cardinality(hw) \in Nat
  BY <1>2, CellsAssumption, FS_Subset, FS_CardinalityType, Zenon
<1>4. chassis[Local] \in ChassisRecords /\ chassis[Local].proto = 0
  BY <1>1, <1>2, <1>3 DEF ChassisRecords, ChassisIds
<1>5. HeapOK
  <2>1. chassis \in [DOMAIN chassis -> ChassisRecords]
    BY <1>1, <1>2, <1>4, Zenon
  <2>. QED
    BY <1>2, <1>4, <2>1, Zenon DEF HeapOK
<1>6. RefcountExact
  BY <1>1, <1>2, Zenon DEF RefcountExact
<1>. QED
  BY <1>1, <1>2, <1>5, <1>6, Zenon DEF IInv, TableInv, OwnSystem, UniqueEntries, TimerCovers

\* Every handler keeps the inductive invariant.
LEMMA TableStep ==
  ASSUME IInv, [Next]_vars
  PROVE  IInv'
<1>1. CASE Tick
  BY <1>1, TickStep, Zenon
<1>2. CASE \E h \in hw : RecvDiscarded(h)
  BY <1>2, RecvDiscardedStep, Zenon
<1>3. CASE \E h \in hw, f \in Frames : Recv(h, f)
  BY <1>3, RecvDuplicateStep, RecvKnownStep, RecvNewPortStep, RecvNewSystemStep, Zenon DEF Recv
<1>4. CASE CleanupFires
  <2>1. {} \in SUBSET hw /\ {} \in SUBSET (Ifs \ (hw \ {}))
    BY Zenon
  <2>. QED
    BY <1>4, <2>1, CleanupStep, Zenon DEF CleanupFires
<1>5. CASE UpdateLocalports
  BY <1>5, CleanupStep, Zenon DEF UpdateLocalports, Rediscover
<1>6. CASE LldpdReset
  BY <1>6, CleanupStep, Zenon DEF LldpdReset, Rediscover
<1>7. CASE ClearTable
  BY <1>7, ClearTableStep, Zenon
<1>8. CASE SetLocalTtl
  BY <1>8, SetLocalTtlStep, Zenon
<1>9. CASE UNCHANGED vars
  BY <1>9 DEF vars, IInv, TableInv, HeapOK, RefcountExact, Holders, OwnSystem, UniqueEntries,
              Msap, TimerCovers, Remaining, Expired
<1>. QED
  BY <1>1, <1>2, <1>3, <1>4, <1>5, <1>6, <1>7, <1>8, <1>9, Zenon DEF Next

\* The inductive invariant always holds.
THEOREM TableInvariant == Spec => []IInv
<1>1. Init => IInv
  BY InitTable, Zenon
<1>2. IInv /\ [Next]_vars => IInv'
  BY TableStep, Zenon
<1>. QED
  BY <1>1, <1>2, PTL DEF Spec

\* The heap of the table is well-formed at any size.
THEOREM TypeCorrect == Spec => []TypeOK
<1>1. IInv => TypeOK
  BY Zenon DEF IInv, TableInv, TypeOK
<1>. QED
  BY <1>1, TableInvariant, PTL

\* The reference counts of lldpd_chassis are exact, so lldpd_cleanup frees a
\* system only when no neighbour points to it, and never the local chassis.
THEOREM RefcountsExact == Spec => []RefcountExact
<1>1. IInv => RefcountExact
  BY Zenon DEF IInv, TableInv
<1>. QED
  BY <1>1, TableInvariant, PTL

\* lldpd_decode never lists an MSAP or a system twice.
THEOREM EntriesUnique == Spec => [](OwnSystem /\ UniqueEntries)
<1>1. IInv => OwnSystem /\ UniqueEntries
  BY Zenon DEF IInv, TableInv
<1>. QED
  BY <1>1, TableInvariant, PTL

\* The cleanup timer always covers the next expiry.
THEOREM TimerAlwaysCovers == Spec => []TimerCovers
<1>1. IInv => TimerCovers
  BY Zenon DEF IInv
<1>. QED
  BY <1>1, TableInvariant, PTL

-----------------------------------------------------------------------------
\* How neighbours leave the table.

\* The step predicate of OnlyOwnEnd.
LeavesByOwnEnd ==
  \A p \in DOMAIN port \ DOMAIN port' :
    \/ Outlived(p)
    \/ \E q \in DOMAIN port' \ DOMAIN port : Msap(q)' = Msap(p)
    \/ \A q \in DOMAIN port' : port'[q].hw # port[p].hw

\* The step predicate of Watched.
KeepsInformed ==
  /\ Neighbors' \ Neighbors \subseteq told'
  /\ (Neighbors \ Neighbors') \cap told' = {} \/ ClearTable

SystemOf(c) == <<chassis[c].proto, chassis[c].cid>>

\* The lifetime kept in a cell that neighbours on several interfaces share is
\* what its own system said last.
LifetimesInv ==
  /\ said \in [Systems -> Nat]
  /\ \A c \in DOMAIN chassis \ {Local} :
       SystemOf(c) \in Systems /\ chassis[c].ttl = said[SystemOf(c)]

\* Steps that rewrite no system keep the lifetimes.
LEMMA SameLifetimes ==
  ASSUME LifetimesInv, said' = said,
         \A c \in DOMAIN chassis' \ {Local} :
           /\ c \in DOMAIN chassis /\ chassis'[c].proto = chassis[c].proto
           /\ chassis'[c].cid = chassis[c].cid /\ chassis'[c].ttl = chassis[c].ttl
  PROVE  LifetimesInv'
  BY Zenon DEF LifetimesInv, SystemOf

\* A neighbour past the lifetime in its system's cell has outlived what its
\* system said.
LEMMA ExpiredOutlived ==
  ASSUME IInv, LifetimesInv, NEW p \in DOMAIN port, Expired(p)
  PROVE  Outlived(p)
<1>. DEFINE c == port[p].chassis
<1>1. c \in DOMAIN chassis \ {Local} /\ SystemOf(c) = <<port[p].frame.proto, port[p].frame.cid>>
  BY Zenon DEF IInv, TableInv, RefcountExact, OwnSystem, SystemOf
<1>. QED
  BY <1>1, Zenon DEF LifetimesInv, Expired, Outlived

\* A step that leaves every MSAP where it is.
LEMMA SameNeighbors ==
  ASSUME DOMAIN port' = DOMAIN port, \A p \in DOMAIN port : Msap(p)' = Msap(p)
  PROVE  LeavesByOwnEnd /\ KeepsInformed
<1>1. Neighbors' = Neighbors
  BY Zenon DEF Neighbors
<1>. QED
  BY <1>1, Zenon DEF LeavesByOwnEnd, KeepsInformed

\* The system in cell c after lldpd_decode has moved the new contents into it,
\* or has made it for frame f; the other systems stay as they are.
Rewritten(c, f) ==
  /\ DOMAIN chassis' = DOMAIN chassis \cup {c}
  /\ \A d \in DOMAIN chassis \ {c} : chassis'[d] = chassis[d]
  /\ chassis'[c].proto = f.proto /\ chassis'[c].cid = f.cid /\ chassis'[c].ttl = f.ttl
  /\ c \in DOMAIN chassis => SameSystem(c, f)
  /\ c \notin DOMAIN chassis => KnownSystem(f) = {}

\* The frame speaks for its own system and no other.
LEMMA RewrittenLifetimes ==
  ASSUME IInv, LifetimesInv, NEW f \in Frames, NEW c, Rewritten(c, f), Heard(f)
  PROVE  LifetimesInv'
<1>. DEFINE sys == <<f.proto, f.cid>>
<1>1. sys \in Systems /\ f.ttl \in Nat
  BY FramesAssumption, LimitsAssumption DEF Systems
<1>2. said' \in [Systems -> Nat] /\ said'[sys] = f.ttl
      /\ \A t \in Systems \ {sys} : said'[t] = said[t]
  BY <1>1, Zenon DEF LifetimesInv, Heard
<1>3. \A d \in DOMAIN chassis \ {c} : ~SameSystem(d, f)
  BY Zenon DEF Rewritten, SameSystem, KnownSystem, IInv, TableInv, UniqueEntries
<1>4. \A d \in DOMAIN chassis \ {c} : SystemOf(d) # sys /\ SystemOf(d)' = SystemOf(d)
                                    /\ chassis'[d].ttl = chassis[d].ttl
  BY <1>3, Zenon DEF SystemOf, SameSystem, Rewritten
<1>5. SystemOf(c)' = sys /\ chassis'[c].ttl = f.ttl
  BY Zenon DEF SystemOf, Rewritten
<1>. HIDE DEF sys
<1>6. \A d \in DOMAIN chassis' \ {Local} : SystemOf(d)' \in Systems /\ chassis'[d].ttl = said'[SystemOf(d)']
  <2>. SUFFICES ASSUME NEW d \in DOMAIN chassis' \ {Local}
                PROVE  SystemOf(d)' \in Systems /\ chassis'[d].ttl = said'[SystemOf(d)']
    BY Zenon
  <2>1. CASE d = c  BY <1>1, <1>2, <1>5, <2>1, Zenon
  <2>2. CASE d # c
    <3>1. d \in DOMAIN chassis \ {c}  BY <2>2, Zenon DEF Rewritten
    <3>2. SystemOf(d) \in Systems /\ chassis[d].ttl = said[SystemOf(d)]
      BY <3>1, Zenon DEF LifetimesInv
    <3>. QED  BY <1>2, <1>4, <3>1, <3>2, Zenon
  <2>. QED  BY <2>1, <2>2, Zenon
<1>. QED  BY <1>2, <1>6, Zenon DEF LifetimesInv

\* A frame enters its neighbour, in place of the older entry if there is one:
\* nobody else leaves, everybody keeps the MSAP, and told has the new one.
LEMMA EnteredNeighbor ==
  ASSUME IInv, LifetimesInv, NEW h, NEW f \in Frames, NEW c, NEW p \in Ports \ DOMAIN port,
         NEW old \in SUBSET DOMAIN port,
         InsertPort(h, f, p, c, old), Rewritten(c, f), Heard(f),
         \A o \in old : Msap(o) = <<h, f.proto, f.cid, f.pid>>,
         told' = told \cup {<<h, f.proto, f.cid, f.pid>>}
  PROVE  LeavesByOwnEnd /\ KeepsInformed /\ LifetimesInv'
<1>1. /\ DOMAIN port' = (DOMAIN port \ old) \cup {p}
      /\ port'[p] = NewPort(h, f, c)
      /\ \A q \in DOMAIN port \ old : port'[q] = port[q]
  BY Zenon DEF InsertPort
<1>2. Msap(p)' = <<h, f.proto, f.cid, f.pid>>
  BY <1>1 DEF Msap, NewPort, Rewritten
<1>3. \A q \in DOMAIN port \ old : Msap(q)' = Msap(q)
  <2>1. \A q \in DOMAIN port : port[q].chassis \in DOMAIN chassis
    BY Zenon DEF IInv, TableInv, RefcountExact
  <2>2. \A q \in DOMAIN port : chassis'[port[q].chassis].cid = chassis[port[q].chassis].cid
    BY <2>1, Zenon DEF Rewritten, SameSystem
  <2>. QED
    BY <1>1, <2>2, Zenon DEF Msap
<1>4. LeavesByOwnEnd
  BY <1>1, <1>2, Zenon DEF LeavesByOwnEnd
<1>5. Neighbors' \ Neighbors \subseteq told'
  BY <1>1, <1>2, <1>3, Zenon DEF Neighbors
<1>6. Neighbors \ Neighbors' = {}
  BY <1>1, <1>2, <1>3, Zenon DEF Neighbors
<1>. QED
  BY <1>4, <1>5, <1>6, RewrittenLifetimes, Zenon DEF KeepsInformed

LEMMA RecvKnownLeaves ==
  ASSUME IInv, LifetimesInv, NEW h \in hw, NEW f \in Frames, RecvKnown(h, f)
  PROVE  LeavesByOwnEnd /\ KeepsInformed /\ LifetimesInv'
<1>1. PICK o \in Known(h, f), p \in Ports \ DOMAIN port :
        /\ InsertPort(h, f, p, port[o].chassis, {o})
        /\ chassis' = [chassis EXCEPT ![port[o].chassis] = Ref(MoveChassis(Unref(@), f))]
  BY Zenon DEF RecvKnown
<1>. DEFINE c == port[o].chassis
<1>2. o \in DOMAIN port /\ Msap(o) = <<h, f.proto, f.cid, f.pid>> /\ SameSystem(c, f)
  BY Zenon DEF Known, Rports, SameMsap, SameSystem, Msap, IInv, TableInv, OwnSystem
<1>3. c \in DOMAIN chassis /\ chassis[c] \in ChassisRecords
  BY <1>2, Zenon DEF IInv, TableInv, HeapOK, RefcountExact
<1>. DEFINE new == Ref(MoveChassis(Unref(chassis[c]), f))
<1>4. new.proto = f.proto /\ new.cid = f.cid /\ new.ttl = f.ttl
  BY <1>3, Zenon DEF Ref, MoveChassis, Unref, ChassisRecords
<1>. HIDE DEF new
<1>5. Rewritten(c, f)
  <2>1. chassis' = [chassis EXCEPT ![c] = new]  BY <1>1, Zenon DEF new
  <2>. QED  BY <1>2, <1>3, <1>4, <2>1, Zenon DEF Rewritten
<1>6. told' = told \cup {<<h, f.proto, f.cid, f.pid>>} /\ Heard(f)
  BY Zenon DEF RecvKnown
<1>. HIDE DEF c
<1>7. {o} \in SUBSET DOMAIN port /\ InsertPort(h, f, p, c, {o})
  BY <1>1, <1>2, Zenon DEF c
<1>. QED
  BY <1>2, <1>5, <1>6, <1>7, EnteredNeighbor, Zenon

LEMMA RecvNewLeaves ==
  ASSUME IInv, LifetimesInv, NEW h \in hw, NEW f \in Frames, RecvNewPort(h, f) \/ RecvNewSystem(h, f)
  PROVE  LeavesByOwnEnd /\ KeepsInformed /\ LifetimesInv'
<1>1. {} \in SUBSET DOMAIN port /\ Heard(f) /\ told' = told \cup {<<h, f.proto, f.cid, f.pid>>}
  BY Zenon DEF RecvNewPort, RecvNewSystem
<1>2. CASE RecvNewPort(h, f)
  <2>1. PICK c \in KnownSystem(f), p \in Ports \ DOMAIN port :
          /\ InsertPort(h, f, p, c, {})
          /\ chassis' = [chassis EXCEPT ![c] = Ref(MoveChassis(@, f))]
    BY <1>2, Zenon DEF RecvNewPort
  <2>2. c \in DOMAIN chassis /\ SameSystem(c, f) /\ chassis[c] \in ChassisRecords
    BY Zenon DEF KnownSystem, IInv, TableInv, HeapOK
  <2>. DEFINE new == Ref(MoveChassis(chassis[c], f))
  <2>3. new.proto = f.proto /\ new.cid = f.cid /\ new.ttl = f.ttl
    BY <2>2, Zenon DEF Ref, MoveChassis, ChassisRecords
  <2>. HIDE DEF new
  <2>4. Rewritten(c, f)
    <3>1. chassis' = [chassis EXCEPT ![c] = new]  BY <2>1, Zenon DEF new
    <3>. QED  BY <2>2, <2>3, <3>1, Zenon DEF Rewritten
  <2>. QED
    BY <1>1, <2>1, <2>4, EnteredNeighbor, Zenon
<1>3. CASE RecvNewSystem(h, f)
  <2>1. PICK c \in Addrs \ DOMAIN chassis, p \in Ports \ DOMAIN port :
          /\ InsertPort(h, f, p, c, {})
          /\ chassis' = [d \in DOMAIN chassis \cup {c} |->
                           IF d = c THEN Ref(NewChassis(f)) ELSE chassis[d]]
    BY <1>3, Zenon DEF RecvNewSystem
  <2>. DEFINE new == Ref(NewChassis(f))
  <2>2. new.proto = f.proto /\ new.cid = f.cid /\ new.ttl = f.ttl
    BY Zenon DEF Ref, NewChassis
  <2>. HIDE DEF new
  <2>3. Rewritten(c, f)
    <3>1. chassis' = [d \in DOMAIN chassis \cup {c} |-> IF d = c THEN new ELSE chassis[d]]
      BY <2>1, Zenon DEF new
    <3>2. KnownSystem(f) = {}  BY <1>3, Zenon DEF RecvNewSystem
    <3>. QED  BY <2>2, <3>1, <3>2, Zenon DEF Rewritten
  <2>. QED
    BY <1>1, <2>1, <2>3, EnteredNeighbor, Zenon
<1>. QED
  BY <1>2, <1>3, Zenon

\* lldpd_cleanup removes the expired and whole interfaces, and reports them all.
LEMMA CleanupLeaves ==
  ASSUME IInv, IInv', LifetimesInv, NEW gone, NEW added, Cleanup(gone, added)
  PROVE  LeavesByOwnEnd /\ KeepsInformed /\ LifetimesInv'
<1>. DEFINE dead == {p \in DOMAIN port : port[p].hw \in gone \/ Expired(p)}
<1>1. /\ port' = [p \in DOMAIN port \ dead |-> port[p]]
      /\ told' = told \ Reported(dead)
  BY Zenon DEF Cleanup
<1>2. LeavesByOwnEnd
  <2>. SUFFICES ASSUME NEW p \in DOMAIN port \ DOMAIN port', ~Expired(p)
                PROVE  \A q \in DOMAIN port' : port'[q].hw # port[p].hw
    BY ExpiredOutlived, Zenon DEF LeavesByOwnEnd
  <2>1. port[p].hw \in gone
    BY <1>1, Zenon
  <2>2. \A q \in DOMAIN port' : port'[q] = port[q] /\ port[q].hw \notin gone
    BY <1>1, Zenon
  <2>. QED
    BY <2>1, <2>2, Zenon
<1>. HIDE DEF dead
<1>3. \A c \in DOMAIN chassis' :
        /\ c \in DOMAIN chassis /\ chassis'[c].proto = chassis[c].proto
        /\ chassis'[c].cid = chassis[c].cid /\ chassis'[c].ttl = chassis[c].ttl
  <2>. DEFINE refs(c) == chassis[c].refcount - Cardinality({p \in dead : port[p].chassis = c})
                 + (IF c = Local THEN Cardinality(added) - Cardinality(gone) ELSE 0)
  <2>1. chassis' = [c \in {d \in DOMAIN chassis : ~Unreferenced(refs(d))} |->
                      [chassis[c] EXCEPT !.refcount = refs(c)]]
    BY Zenon DEF Cleanup, dead
  <2>. HIDE DEF refs
  <2>2. \A c \in DOMAIN chassis :
          /\ [chassis[c] EXCEPT !.refcount = refs(c)].proto = chassis[c].proto
          /\ [chassis[c] EXCEPT !.refcount = refs(c)].cid = chassis[c].cid
          /\ [chassis[c] EXCEPT !.refcount = refs(c)].ttl = chassis[c].ttl
    BY Zenon DEF IInv, TableInv, HeapOK, ChassisRecords
  <2>. QED
    BY <2>1, <2>2, Zenon
<1>4. \A p \in DOMAIN port \ dead : Msap(p)' = Msap(p)
  <2>1. \A p \in DOMAIN port' : port'[p].chassis \in DOMAIN chassis'
    BY Zenon DEF IInv, TableInv, RefcountExact
  <2>. QED
    BY <1>1, <1>3, <2>1, Zenon DEF Msap
<1>5. Neighbors' = {Msap(p) : p \in DOMAIN port \ dead}
  BY <1>1, <1>4, Zenon DEF Neighbors
<1>6. Neighbors \ Neighbors' \subseteq Reported(dead)
  BY <1>5, Zenon DEF Neighbors, Reported
<1>7. Neighbors' \subseteq Neighbors
  BY <1>5, Zenon DEF Neighbors
<1>8. LifetimesInv'
  BY <1>3, SameLifetimes, Zenon DEF Cleanup
<1>. QED
  BY <1>1, <1>2, <1>6, <1>7, <1>8, Zenon DEF KeepsInformed

\* Every step of the daemon.
LEMMA StepLeaves ==
  ASSUME IInv, IInv', LifetimesInv, [Next]_vars
  PROVE  LifetimesInv' /\ (vars' = vars \/ (LeavesByOwnEnd /\ KeepsInformed))
<1>0. \A c \in DOMAIN chassis : chassis[c] \in ChassisRecords
  BY Zenon DEF IInv, TableInv, HeapOK
<1>1. CASE Tick
  <2>1. DOMAIN port' = DOMAIN port /\ \A p \in DOMAIN port : Msap(p)' = Msap(p)
    BY <1>1, ZenonT(30) DEF Tick, Msap, IInv, TableInv, HeapOK, PortRecords
  <2>2. LifetimesInv'
    BY <1>1, SameLifetimes, Zenon DEF Tick
  <2>. QED
    BY <2>1, <2>2, SameNeighbors, Zenon
<1>2. CASE \E h \in hw : RecvDiscarded(h)
  BY <1>2, SameNeighbors, SameLifetimes, Zenon DEF RecvDiscarded, Msap
<1>3. CASE \E h \in hw, f \in Frames : Recv(h, f)
  <2>1. PICK h \in hw, f \in Frames : Recv(h, f)
    BY <1>3, Zenon
  <2>2. CASE RecvDuplicate(h, f)
    <3>1. PICK p \in Rports(h) : port' = [port EXCEPT ![p].age = 0]
      BY <2>2, Zenon DEF RecvDuplicate
    <3>2. DOMAIN port' = DOMAIN port /\ \A q \in DOMAIN port : Msap(q)' = Msap(q)
      BY <2>2, <3>1 DEF RecvDuplicate, Msap, IInv, TableInv, HeapOK, PortRecords
    <3>3. LifetimesInv'
      BY <2>2, SameLifetimes, Zenon DEF RecvDuplicate
    <3>. QED
      BY <3>2, <3>3, SameNeighbors, Zenon
  <2>. QED
    BY <2>1, <2>2, RecvKnownLeaves, RecvNewLeaves, Zenon DEF Recv
<1>4. CASE CleanupFires \/ UpdateLocalports \/ LldpdReset
  <2>1. \E gone, added : Cleanup(gone, added)
    BY <1>4, Zenon DEF CleanupFires, UpdateLocalports, LldpdReset, Rediscover
  <2>. QED
    BY <2>1, CleanupLeaves, Zenon
<1>5. CASE ClearTable
  <2>1. DOMAIN port' = {}
    BY <1>5, Zenon DEF ClearTable
  <2>2. Neighbors' = {}
    BY <2>1, Zenon DEF Neighbors
  <2>. DEFINE count(c) == chassis[c].refcount - Cardinality({p \in DOMAIN port : port[p].chassis = c})
  <2>3. /\ chassis' = [c \in DOMAIN chassis |-> [chassis[c] EXCEPT !.refcount = count(c)]]
        /\ said' = said
    BY <1>5, Zenon DEF ClearTable
  <2>. HIDE DEF count
  <2>4. LifetimesInv'
    BY <1>0, <2>3, SameLifetimes, Zenon DEF ChassisRecords
  <2>. QED
    BY <1>5, <2>1, <2>2, <2>4, Zenon DEF LeavesByOwnEnd, KeepsInformed
<1>6. CASE SetLocalTtl
  <2>1. PICK ttl : chassis' = [chassis EXCEPT ![Local].ttl = ttl]
    BY <1>6, Zenon DEF SetLocalTtl
  <2>2. \A p \in DOMAIN port : port[p].chassis \in DOMAIN chassis \ {Local}
    BY Zenon DEF IInv, TableInv, RefcountExact
  <2>3. DOMAIN port' = DOMAIN port /\ \A p \in DOMAIN port : Msap(p)' = Msap(p)
    BY <1>6, <2>1, <2>2, Zenon DEF SetLocalTtl, Msap
  <2>4. LifetimesInv'
    BY <1>6, <2>1, SameLifetimes, Zenon DEF SetLocalTtl
  <2>. QED
    BY <2>3, <2>4, SameNeighbors, Zenon
<1>7. CASE UNCHANGED vars
  BY <1>7, SameLifetimes, Zenon DEF vars
<1>. QED
  BY <1>1, <1>2, <1>3, <1>4, <1>5, <1>6, <1>7, Zenon DEF Next

\* The lifetime a neighbour is aged by is the one its own system announced last,
\* in the frame lldpd_decode last took from it on any interface.
THEOREM LifetimesOwn == Spec => []LifetimesInv
<1>1. Init => LifetimesInv
  <2>. SUFFICES ASSUME Init PROVE LifetimesInv  OBVIOUS
  <2>1. DOMAIN chassis = {Local}  BY Zenon DEF Init
  <2>2. said \in [Systems -> Nat]  BY DEF Init
  <2>. QED  BY <2>1, <2>2, Zenon DEF LifetimesInv
<1>2. IInv /\ IInv' /\ LifetimesInv /\ [Next]_vars => LifetimesInv'
  BY StepLeaves, Zenon
<1>. QED
  BY <1>1, <1>2, TableInvariant, PTL DEF Spec

\* A neighbour leaves the table only through its own end: the lifetime its own
\* system announced last is over, its own newer frame replaced it, or its
\* interface lost all neighbours. No frame that lldpd_decode takes from another
\* system pushes it out or shortens its life.
THEOREM NobodyPushedOut == Spec => OnlyOwnEnd
<1>1. IInv /\ IInv' /\ LifetimesInv /\ [Next]_vars => [LeavesByOwnEnd]_vars
  BY StepLeaves, Zenon
<1>2. Spec => [][LeavesByOwnEnd]_vars
  BY <1>1, TableInvariant, LifetimesOwn, PTL DEF Spec
<1>. QED
  BY <1>2, PTL DEF OnlyOwnEnd, LeavesByOwnEnd

\* Subscribers are told of every neighbour that comes and, unless an operator
\* clears the table, of every one that goes.
THEOREM SubscribersInformed == Spec => Watched
<1>1. IInv /\ IInv' /\ LifetimesInv /\ [Next]_vars => [KeepsInformed]_vars
  BY StepLeaves, Zenon
<1>2. Spec => [][KeepsInformed]_vars
  BY <1>1, TableInvariant, LifetimesOwn, PTL DEF Spec
<1>. QED
  BY <1>2, PTL DEF Watched, KeepsInformed

-----------------------------------------------------------------------------
\* The limit of neighbours per interface and protocol.

OfProtocol(h, m) == {q \in Rports(h) : port[q].frame.proto = m}

\* NeighborBound for all interfaces and protocols, used or not.
BoundInv ==
  MaxNeighbors # 0 => \A h \in Ifs, m \in Nat : Cardinality(OfProtocol(h, m)) <= MaxNeighbors

\* The neighbours of an interface are finitely many.
LEMMA OfProtocolFinite ==
  ASSUME HeapOK, NEW h, NEW m
  PROVE  IsFiniteSet(OfProtocol(h, m)) /\ Cardinality(OfProtocol(h, m)) \in Nat
<1>1. OfProtocol(h, m) \in SUBSET Ports /\ IsFiniteSet(Ports)
  BY CellsAssumption, Zenon DEF HeapOK, OfProtocol, Rports
<1>. QED
  BY <1>1, FS_Subset, FS_CardinalityType, Zenon

\* When neighbours only leave, the limit is kept.
LEMMA FewerKeepBound ==
  ASSUME HeapOK, BoundInv, \A h, m : OfProtocol(h, m)' \subseteq OfProtocol(h, m)
  PROVE  BoundInv'
<1>. SUFFICES ASSUME MaxNeighbors # 0, NEW h \in Ifs, NEW m \in Nat
              PROVE  Cardinality(OfProtocol(h, m)') <= MaxNeighbors
  BY Zenon DEF BoundInv
<1>1. IsFiniteSet(OfProtocol(h, m)) /\ Cardinality(OfProtocol(h, m)) \in Nat
  BY OfProtocolFinite, Zenon
<1>2. /\ IsFiniteSet(OfProtocol(h, m)')
      /\ Cardinality(OfProtocol(h, m)') \in Nat
      /\ Cardinality(OfProtocol(h, m)') <= Cardinality(OfProtocol(h, m))
  BY <1>1, FS_Subset, FS_CardinalityType, Zenon
<1>3. Cardinality(OfProtocol(h, m)) <= MaxNeighbors
  BY Zenon DEF BoundInv
<1>. QED
  BY <1>1, <1>2, <1>3, LimitsAssumption

\* A frame enters its neighbour, in place of the older entry or where there is
\* room (HasRoom).
LEMMA EnteredKeepsBound ==
  ASSUME HeapOK, BoundInv, NEW h \in hw, NEW f \in Frames, NEW c,
         NEW p \in Ports \ DOMAIN port, NEW old \in SUBSET OfProtocol(h, f.proto),
         InsertPort(h, f, p, c, old),
         HasRoom(h, f) \/ old # {}
  PROVE  BoundInv'
<1>. SUFFICES ASSUME MaxNeighbors # 0, NEW g \in Ifs, NEW m \in Nat
              PROVE  Cardinality(OfProtocol(g, m)') <= MaxNeighbors
  BY Zenon DEF BoundInv
<1>1. /\ DOMAIN port' = (DOMAIN port \ old) \cup {p}
      /\ port'[p].hw = h /\ port'[p].frame = f
      /\ \A q \in DOMAIN port \ old : port'[q] = port[q]
      /\ p \notin DOMAIN port
  BY Zenon DEF InsertPort, NewPort
<1>2. CASE g # h \/ m # f.proto
  <2>1. OfProtocol(g, m)' = OfProtocol(g, m)
    BY <1>1, <1>2, Zenon DEF OfProtocol, Rports
  <2>. QED
    BY <2>1, Zenon DEF BoundInv
<1>3. CASE g = h /\ m = f.proto
  <2>. DEFINE S == OfProtocol(h, f.proto)
  <2>1. OfProtocol(g, m)' = (S \ old) \cup {p}
    BY <1>1, <1>3, Zenon DEF OfProtocol, Rports
  <2>2. IsFiniteSet(S) /\ Cardinality(S) \in Nat /\ p \notin S
    <3>1. p \notin S
      BY <1>1, Zenon DEF OfProtocol, Rports
    <3>. QED
      BY <3>1, OfProtocolFinite, Zenon
  <2>3. Cardinality(S) <= MaxNeighbors
    BY <1>3, Zenon DEF BoundInv
  <2>4. IsFiniteSet(S \ old) /\ Cardinality(S \ old) \in Nat
    BY <2>2, FS_Subset, FS_CardinalityType, Zenon
  <2>5. Cardinality((S \ old) \cup {p}) = Cardinality(S \ old) + 1
    BY <2>2, <2>4, FS_AddElement, Zenon
  <2>6. Cardinality(S \ old) < MaxNeighbors
    <3>1. CASE HasRoom(h, f)
      <4>1. Cardinality(S) < MaxNeighbors
        BY <3>1, Zenon DEF HasRoom, OfProtocol
      <4>2. Cardinality(S \ old) <= Cardinality(S)
        BY <2>2, FS_Subset, Zenon
      <4>. QED
        BY <2>2, <2>4, <4>1, <4>2, LimitsAssumption
    <3>2. CASE old # {}
      <4>1. PICK o \in old : o \in S
        BY <3>2, Zenon
      <4>2. IsFiniteSet(S \ {o}) /\ Cardinality(S \ {o}) = Cardinality(S) - 1
        BY <2>2, <4>1, FS_RemoveElement, Zenon
      <4>3. S \ old \in SUBSET (S \ {o})
        BY <4>1, Zenon
      <4>4. Cardinality(S \ old) <= Cardinality(S \ {o})
        BY <4>2, <4>3, FS_Subset, Zenon
      <4>. HIDE DEF S
      <4>. QED
        BY <2>2, <2>3, <2>4, <4>2, <4>4, LimitsAssumption
    <3>. QED
      BY <3>1, <3>2, Zenon
  <2>. HIDE DEF S
  <2>. QED
    BY <2>1, <2>4, <2>5, <2>6, LimitsAssumption
<1>. QED
  BY <1>2, <1>3, Zenon

\* Every handler keeps the limit.
LEMMA BoundStep ==
  ASSUME IInv, BoundInv, [Next]_vars
  PROVE  BoundInv'
<1>1. HeapOK /\ \A p \in DOMAIN port : port[p] \in PortRecords
  BY Zenon DEF IInv, TableInv, HeapOK
<1>2. CASE Tick
  <2>1. \A h, m : OfProtocol(h, m)' \subseteq OfProtocol(h, m)
    BY <1>1, <1>2 DEF Tick, OfProtocol, Rports, PortRecords
  <2>. QED
    BY <1>1, <2>1, FewerKeepBound, Zenon
<1>3. CASE \E h \in hw, f \in Frames : Recv(h, f)
  <2>1. PICK h \in hw, f \in Frames : Recv(h, f)
    BY <1>3, Zenon
  <2>2. CASE RecvDuplicate(h, f)
    <3>1. PICK p \in Rports(h) : port' = [port EXCEPT ![p].age = 0]
      BY <2>2, Zenon DEF RecvDuplicate
    <3>2. \A g, m : OfProtocol(g, m)' \subseteq OfProtocol(g, m)
      BY <1>1, <3>1, Zenon DEF OfProtocol, Rports, PortRecords
    <3>. QED
      BY <1>1, <3>2, FewerKeepBound, Zenon
  <2>3. CASE RecvKnown(h, f)
    <3>1. PICK o \in Known(h, f), p \in Ports \ DOMAIN port :
            InsertPort(h, f, p, port[o].chassis, {o})
      BY <2>3, Zenon DEF RecvKnown
    <3>2. {o} \in SUBSET OfProtocol(h, f.proto) /\ {o} # {}
      BY Zenon DEF Known, SameMsap, OfProtocol
    <3>. QED
      BY <1>1, <3>1, <3>2, EnteredKeepsBound, Zenon
  <2>4. CASE RecvNewPort(h, f) \/ RecvNewSystem(h, f)
    <3>1. PICK p \in Ports \ DOMAIN port : \E c : InsertPort(h, f, p, c, {})
      BY <2>4, Zenon DEF RecvNewPort, RecvNewSystem
    <3>2. {} \in SUBSET OfProtocol(h, f.proto) /\ HasRoom(h, f)
      BY <2>4, Zenon DEF RecvNewPort, RecvNewSystem
    <3>. QED
      BY <1>1, <3>1, <3>2, EnteredKeepsBound, Zenon
  <2>. QED
    BY <2>1, <2>2, <2>3, <2>4, Zenon DEF Recv
<1>4. CASE CleanupFires \/ UpdateLocalports \/ LldpdReset
  <2>1. PICK gone, added : Cleanup(gone, added)
    BY <1>4, Zenon DEF CleanupFires, UpdateLocalports, LldpdReset, Rediscover
  <2>2. PICK dead : port' = [p \in DOMAIN port \ dead |-> port[p]]
    BY <2>1, Zenon DEF Cleanup
  <2>3. \A h, m : OfProtocol(h, m)' \subseteq OfProtocol(h, m)
    BY <2>2, Zenon DEF OfProtocol, Rports
  <2>. QED
    BY <1>1, <2>3, FewerKeepBound, Zenon
<1>5. CASE ClearTable
  <2>1. \A h, m : OfProtocol(h, m)' \subseteq OfProtocol(h, m)
    BY <1>5, Zenon DEF ClearTable, OfProtocol, Rports
  <2>. QED
    BY <1>1, <2>1, FewerKeepBound, Zenon
<1>6. CASE SetLocalTtl \/ (\E h \in hw : RecvDiscarded(h)) \/ UNCHANGED vars
  BY <1>6 DEF SetLocalTtl, RecvDiscarded, vars, BoundInv, OfProtocol, Rports
<1>. QED
  BY <1>2, <1>3, <1>4, <1>5, <1>6, Zenon DEF Next

\* No interface holds more neighbours of a protocol than c_max_neighbors, although
\* lldpd_decode compares the limit with a count that it takes while it looks for
\* the sender's own entry.
THEOREM BoundKept == Spec => []NeighborBound
<1>1. Init => BoundInv
  <2>1. Init => \A h, m : OfProtocol(h, m) = {}
    BY Zenon DEF Init, OfProtocol, Rports
  <2>2. Cardinality({}) = 0
    BY FS_EmptySet, Zenon
  <2>. QED
    BY <2>1, <2>2, LimitsAssumption DEF BoundInv
<1>2. IInv /\ BoundInv /\ [Next]_vars => BoundInv'
  BY BoundStep, Zenon
<1>3. IInv /\ BoundInv => NeighborBound
  <2>. SUFFICES ASSUME IInv, BoundInv, MaxNeighbors # 0, NEW h \in hw, NEW p \in DOMAIN port
                PROVE  Cardinality(OfProtocol(h, port[p].frame.proto)) <= MaxNeighbors
    BY Zenon DEF NeighborBound, OfProtocol
  <2>1. h \in Ifs /\ port[p].frame.proto \in Nat
    BY FramesAssumption, Zenon DEF IInv, TableInv, HeapOK, PortRecords
  <2>. QED
    BY <2>1, Zenon DEF BoundInv
<1>. QED
  BY <1>1, <1>2, <1>3, TableInvariant, PTL DEF Spec

=============================================================================
