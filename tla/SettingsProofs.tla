--------------------------- MODULE SettingsProofs ---------------------------
(***************************************************************************)
(* Proofs about programs that change settings through the library, for any *)
(* programs, interfaces and values: a change of the configuration changes  *)
(* what it names and nothing else, ports announce what was set, and an     *)
(* atom lives as long as somebody holds it.                                *)
(***************************************************************************)
EXTENDS Settings, FiniteSetTheorems, TLAPS

PortType ==
  [policy : [1 .. APPTYPE_LAST -> PortSets \cup {NoPolicy}],
   location : [1 .. LOCFORMAT_LAST -> PortSets \cup {NoLocation}],
   med_power : PortSets \cup {NoPower}, dot3_power : PortSets \cup {NoDot3},
   caps : SUBSET {"cap", "inventory", "policy", "location", "pd", "pse"}]

ProgramType ==
  [pc : {"idle", "config", "iterate", "set", "fields", "end"}, copy : [Keys -> Int],
   stale : BOOLEAN, set : PortSets \cup {NoSet}, todo : Seq(Interfaces),
   held : SUBSET Atoms, atoms : [Atoms -> Int],
   state : {"idle", "get_port", "set_port"},
   error : {"none", "serialization", "invalid_state", "not_exist", "bad_value"}]

\* What a program holds, from where it is in its command.
Holds(p) ==
  /\ p.pc = "idle" => p.held = {}
  /\ p.pc = "config" => p.held = {"config"}
  /\ p.pc = "iterate" => p.held = {"list", "iface"} \/ (p.todo = <<>> /\ p.held = {"list"})
  /\ p.pc = "set" => {"item", "port", "list", "iface"} \subseteq p.held
                     /\ p.held \subseteq {"item", "items", "port", "list", "iface"}
  /\ p.pc = "fields" => {"item", "port", "list", "iface"} \subseteq p.held
                        /\ p.held \subseteq {"cael", "caels", "item", "items", "port", "list", "iface"}
  /\ p.pc = "end" => {"port", "list", "iface"} \subseteq p.held
                     /\ p.held \subseteq {"item", "items", "port", "list", "iface"}

\* The counts of all atoms, from what a program holds.
Counted(p) ==
  /\ \A k \in {"config", "list", "iface", "items", "cael", "caels"} : p.atoms[k] = Count(k \in p.held)
  /\ p.atoms["item"] = Count("item" \in p.held) + Count("cael" \in p.held) + Count("caels" \in p.held)
  /\ p.atoms["port"] = Count("port" \in p.held) + Count("items" \in p.held) + Count("item" \in p.held)

\* A program by itself.
ProgramInv(p) ==
  /\ p \in ProgramType
  /\ Holds(p) /\ Counted(p)
  /\ p.pc \in {"iterate", "set", "fields", "end"} => p.set \in PortSets
  /\ p.pc \in {"set", "fields", "end"} => p.todo # <<>>
  /\ p.pc = "fields" /\ p.error # "bad_value" => SettersAccept(p.set)

\* A copy that is up to date: what it has and lldpd has not are values lldpd does
\* not take, and those of interval and hold are not among them.
UpToDate(copy, config) ==
  \A k \in Keys : \/ copy[k] = config[k]
                  \/ ~Takes(k, copy[k]) /\ k \notin {"c_tx_interval", "c_tx_hold"}

CopyInv(p) == p.pc = "config" /\ ~p.stale => UpToDate(p.copy, cfg)

SettingsInv ==
  /\ cfg \in [Keys -> Int] /\ cfg["c_tx_interval"] > 0
  /\ ports \in [Interfaces -> PortType] /\ up \subseteq Interfaces
  /\ program \in [Programs -> ProgramType]
  /\ \A c \in Programs : ProgramInv(program[c]) /\ CopyInv(program[c])
  /\ SetsOne /\ PortConsistent

-----------------------------------------------------------------------------
\* Atoms.

\* _lldpctl_new_atom keeps the types.
LEMMA NewAtomType ==
  ASSUME NEW a \in [Atoms -> Int], NEW k \in Atoms
  PROVE  _lldpctl_new_atom(a, k) \in [Atoms -> Int]
BY DEF _lldpctl_new_atom, Count

\* The counts after _lldpctl_new_atom, atom by atom.
LEMMA NewAtomCounts ==
  ASSUME NEW a \in [Atoms -> Int]
  PROVE  /\ \A k \in {"config", "list", "empty", "iface", "port"}, j \in Atoms :
              _lldpctl_new_atom(a, k)[j] = IF j = k THEN 1 ELSE a[j]
         /\ \A k \in {"items", "item"}, j \in Atoms :
              _lldpctl_new_atom(a, k)[j] = IF j = k THEN 1 ELSE IF j = "port" THEN a[j] + 1 ELSE a[j]
         /\ \A k \in {"caels", "cael"}, j \in Atoms :
              _lldpctl_new_atom(a, k)[j] = IF j = k THEN 1 ELSE IF j = "item" THEN a[j] + 1 ELSE a[j]
<1>1. ASSUME NEW k \in {"config", "list", "empty", "iface", "port"}, NEW j \in Atoms
      PROVE  _lldpctl_new_atom(a, k)[j] = IF j = k THEN 1 ELSE a[j]
  BY <1>1 DEF _lldpctl_new_atom, Count, Atoms, ParentOf
<1>2. ASSUME NEW k \in {"items", "item"}, NEW j \in Atoms
      PROVE  _lldpctl_new_atom(a, k)[j] = IF j = k THEN 1 ELSE IF j = "port" THEN a[j] + 1 ELSE a[j]
  BY <1>2 DEF _lldpctl_new_atom, Count, Atoms, ParentOf
<1>3. ASSUME NEW k \in {"caels", "cael"}, NEW j \in Atoms
      PROVE  _lldpctl_new_atom(a, k)[j] = IF j = k THEN 1 ELSE IF j = "item" THEN a[j] + 1 ELSE a[j]
  BY <1>3 DEF _lldpctl_new_atom, Count, Atoms, ParentOf
<1> QED  BY <1>1, <1>2, <1>3, Zenon

\* lldpctl_atom_dec_ref keeps the types.
LEMMA DecRefType ==
  ASSUME NEW a \in [Atoms -> Int], NEW k \in Atoms
  PROVE  lldpctl_atom_dec_ref(a, k) \in [Atoms -> Int]
<1>1. OneLess(a, k) \in [Atoms -> Int]
  BY DEF OneLess
<1>2. CASE ~Releases(OneLess(a, k), k)
  BY <1>1, <1>2, Zenon DEF lldpctl_atom_dec_ref
<1>3. CASE Releases(OneLess(a, k), k)
  <2>1. ParentOf[k] \in Atoms
    BY <1>3, Zenon DEF Releases, ParentOf, Atoms
  <2>2. OneLess(OneLess(a, k), ParentOf[k]) \in [Atoms -> Int]
    BY <1>1, <2>1 DEF OneLess
  <2>3. CASE ~Releases(OneLess(OneLess(a, k), ParentOf[k]), ParentOf[k])
    BY <1>3, <2>2, <2>3, Zenon DEF lldpctl_atom_dec_ref
  <2>4. CASE Releases(OneLess(OneLess(a, k), ParentOf[k]), ParentOf[k])
    <3>1. ParentOf[ParentOf[k]] \in Atoms
      BY <2>4, Zenon DEF Releases, ParentOf, Atoms
    <3>2. OneLess(OneLess(OneLess(a, k), ParentOf[k]), ParentOf[ParentOf[k]]) \in [Atoms -> Int]
      BY <2>2, <3>1 DEF OneLess
    <3> QED  BY <1>3, <2>4, <3>2, Zenon DEF lldpctl_atom_dec_ref
  <2> QED  BY <2>3, <2>4, Zenon
<1> QED  BY <1>2, <1>3, Zenon

\* An atom without a parent, or with other references: its count alone changes.
LEMMA DecRefAlone ==
  ASSUME NEW a \in [Atoms -> Int], NEW k \in Atoms,
         k \notin {"items", "item", "caels", "cael"} \/ a[k] # 1
  PROVE  \A j \in Atoms : lldpctl_atom_dec_ref(a, k)[j] = IF j = k THEN a[j] - 1 ELSE a[j]
BY DEF lldpctl_atom_dec_ref, Releases, OneLess, ParentOf

\* The last reference of an atom takes that on the parent with it; the parent
\* stays while the program or another atom refers to it.
LEMMA DecRefParent ==
  ASSUME NEW a \in [Atoms -> Int], NEW k \in {"items", "item", "caels", "cael"},
         a[k] = 1, k \in {"caels", "cael"} => a["item"] # 1
  PROVE  \A j \in Atoms : lldpctl_atom_dec_ref(a, k)[j] =
           IF j = k \/ j = ParentOf[k] THEN a[j] - 1 ELSE a[j]
<1>1. k \in Atoms /\ ParentOf[k] \in Atoms /\ ParentOf[k] # k /\ k \in DOMAIN ParentOf
  BY Zenon DEF ParentOf, Atoms
<1>2. Releases(OneLess(a, k), k)
  BY <1>1 DEF Releases, OneLess
<1>3. ~Releases(OneLess(OneLess(a, k), ParentOf[k]), ParentOf[k])
  BY <1>1 DEF Releases, OneLess, ParentOf, Atoms
<1> QED  BY <1>1, <1>2, <1>3, Zenon DEF lldpctl_atom_dec_ref, OneLess

-----------------------------------------------------------------------------
\* Steps of one program. Each lemma is one action.

\* A step of one program leaves the others alone.
LEMMA NowFacts ==
  ASSUME SettingsInv, NEW c \in Programs, NEW r, Now(c, r), ProgramInv(r)
  PROVE  /\ program' \in [Programs -> ProgramType]
         /\ program'[c] = r
         /\ \A d \in Programs : d # c => program'[d] = program[d]
BY Zenon DEF SettingsInv, Now, ProgramInv

\* lldpctl_get_configuration: a copy of now, or an error that leaves nothing.
LEMMA GetConfigurationProgram ==
  ASSUME SettingsInv, NEW c \in Programs, lldpctl_get_configuration(c)
  PROVE  \E r : Now(c, r) /\ ProgramInv(r) /\ (r.pc = "config" => r.copy = cfg)
<1> DEFINE p == program[c]
<1>1. ProgramInv(p) /\ p \in ProgramType /\ p.atoms \in [Atoms -> Int] /\ p.pc = "idle" /\ cfg \in [Keys -> Int]
  BY Zenon DEF SettingsInv, ProgramInv, ProgramType, lldpctl_get_configuration
<1>2. CASE ~Usable(p)
  <2> DEFINE r == NotUsable(p)
  <2>1. Now(c, r)
    BY <1>2, Zenon DEF lldpctl_get_configuration
  <2>2. /\ r \in ProgramType /\ r.pc = "idle" /\ r.held = p.held /\ r.atoms = p.atoms /\ r.todo = p.todo
    BY <1>1, Zenon DEF NotUsable, ProgramType
  <2>3. ProgramInv(r)
    BY <1>1, <2>2, Zenon DEF ProgramInv, Holds, Counted
  <2> QED  BY <2>1, <2>2, <2>3, Zenon
<1>3. CASE Usable(p)
  <2> DEFINE r == [p EXCEPT !.pc = "config", !.copy = cfg, !.stale = FALSE, !.error = "none",
                            !.held = {"config"}, !.atoms = _lldpctl_new_atom(@, "config")]
  <2>1. Now(c, r)
    BY <1>3, Zenon DEF lldpctl_get_configuration
  <2>2. "config" \in Atoms
    BY Zenon DEF Atoms
  <2>3. _lldpctl_new_atom(p.atoms, "config") \in [Atoms -> Int]
    BY <1>1, <2>2, NewAtomType, Zenon
  <2>4. /\ r \in ProgramType /\ r.pc = "config" /\ r.copy = cfg /\ r.held = {"config"}
        /\ r.atoms = _lldpctl_new_atom(p.atoms, "config")
    BY <1>1, <2>2, <2>3, Zenon DEF ProgramType
  <2>5. \A j \in Atoms : r.atoms[j] = IF j = "config" THEN 1 ELSE p.atoms[j]
    BY <1>1, <2>4, NewAtomCounts
  <2>6. p.held = {}
    BY <1>1, Zenon DEF ProgramInv, Holds
  <2>7. Counted(r)
    BY <1>1, <2>4, <2>5, <2>6, Zenon DEF ProgramInv, Counted, Count, Atoms
  <2>8. ProgramInv(r)
    BY <2>4, <2>7, Zenon DEF ProgramInv, Holds
  <2> QED  BY <2>1, <2>4, <2>8, Zenon
<1> QED  BY <1>2, <1>3, Zenon

\* A text that is no number leaves copy and atoms alone.
LEMMA SetStrFailsProgram ==
  ASSUME SettingsInv, NEW c \in Programs, NEW ask, lldpctl_atom_set_str_fails(c, ask)
  PROVE  \E r : /\ Now(c, r) /\ ProgramInv(r)
               /\ r.copy = program[c].copy /\ r.stale = program[c].stale
<1> DEFINE p == program[c]
<1> DEFINE r == [p EXCEPT !.error = "not_exist"]
<1>1. ProgramInv(p) /\ p \in ProgramType /\ p.pc = "config" /\ Now(c, r)
  BY Zenon DEF SettingsInv, ProgramInv, lldpctl_atom_set_str_fails
<1>2. /\ r \in ProgramType /\ r.pc = "config" /\ r.held = p.held /\ r.atoms = p.atoms
      /\ r.copy = p.copy /\ r.stale = p.stale
  BY <1>1, Zenon DEF ProgramType
<1>3. ProgramInv(r)
  BY <1>1, <1>2, Zenon DEF ProgramInv, Holds, Counted
<1> QED  BY <1>1, <1>2, <1>3, Zenon

\* Every order of a set of interfaces is a sequence of them.
LEMMA OrdersSeq ==
  ASSUME NEW S \in SUBSET Interfaces, NEW o \in Orders(S)
  PROVE  o \in Seq(Interfaces)
<1>1. IsFiniteSet(S)
  BY SettingsAssumption, FS_Subset, Zenon
<1>2. Cardinality(S) \in Nat /\ o \in [1 .. Cardinality(S) -> S]
  BY <1>1, FS_CardinalityType, Zenon DEF Orders
<1>3. o \in Seq(S)
  BY <1>2
<1> QED  BY <1>3

\* A command on ports begins with the list and its first interface.
LEMMA PortCommandProgram ==
  ASSUME SettingsInv, NEW c \in Programs, NEW set \in PortCommands, NEW named,
         PortCommand(c, set, named)
  PROVE  \E r : Now(c, r) /\ ProgramInv(r) /\ r.pc # "config"
<1> DEFINE q == program[c]
<1> DEFINE p == [q EXCEPT !.error = "none"]
<1>1. ProgramInv(q) /\ q \in ProgramType /\ q.pc = "idle" /\ up \subseteq Interfaces
  <2>1. p.pc = "idle"
    BY Zenon DEF PortCommand
  <2>2. q \in ProgramType /\ ProgramInv(q)
    BY Zenon DEF SettingsInv, ProgramInv
  <2> QED  BY <2>1, <2>2, Zenon DEF SettingsInv, ProgramType
<1>2. /\ p \in ProgramType /\ p.pc = "idle" /\ p.held = {} /\ p.atoms = q.atoms
      /\ p.atoms \in [Atoms -> Int]
  BY <1>1, Zenon DEF ProgramType, ProgramInv, Holds
<1>3. Counted(p)
  BY <1>1, <1>2, Zenon DEF ProgramInv, Counted, Holds
<1>4. set \in PortSets
  BY Zenon DEF PortCommands, cmd_medpolicy, _cmd_medlocation, cmd_medpower, cmd_dot3power
<1>5. PICK todo \in Orders(up \cap named) :
        Now(c, IF ~Usable(p) THEN NotUsable(p)
               ELSE IF up = {} THEN [p EXCEPT !.atoms = _lldpctl_new_atom(@, "empty")]
               ELSE [p EXCEPT !.pc = "iterate", !.set = set, !.todo = todo,
                              !.held = {"list", "iface"},
                              !.atoms = _lldpctl_new_atom(_lldpctl_new_atom(@, "list"), "iface")])
  BY Zenon DEF PortCommand
<1>6. todo \in Seq(Interfaces)
  BY <1>1, OrdersSeq, Zenon
<1>7. {"empty", "list", "iface"} \subseteq Atoms
  BY Zenon DEF Atoms
<1>8. CASE ~Usable(p)
  <2> DEFINE r == NotUsable(p)
  <2>1. /\ r \in ProgramType /\ r.pc = "idle" /\ r.held = p.held /\ r.atoms = p.atoms
    BY <1>2, Zenon DEF NotUsable, ProgramType
  <2>2. ProgramInv(r)
    BY <1>2, <1>3, <2>1, Zenon DEF ProgramInv, Holds, Counted
  <2> QED  BY <1>5, <1>8, <2>1, <2>2, Zenon
<1>9. CASE Usable(p) /\ up = {}
  <2> DEFINE r == [p EXCEPT !.atoms = _lldpctl_new_atom(@, "empty")]
  <2>1. _lldpctl_new_atom(p.atoms, "empty") \in [Atoms -> Int]
    BY <1>2, <1>7, NewAtomType, Zenon
  <2>2. /\ r \in ProgramType /\ r.pc = "idle" /\ r.held = {}
        /\ r.atoms = _lldpctl_new_atom(p.atoms, "empty")
    BY <1>2, <2>1, Zenon DEF ProgramType
  <2>3. \A j \in Atoms : r.atoms[j] = IF j = "empty" THEN 1 ELSE p.atoms[j]
    BY <1>2, <2>2, NewAtomCounts
  <2>4. Counted(r)
    BY <1>2, <1>3, <2>2, <2>3, Zenon DEF Counted, Atoms
  <2>5. ProgramInv(r)
    BY <2>2, <2>4, Zenon DEF ProgramInv, Holds
  <2> QED  BY <1>5, <1>9, <2>2, <2>5, Zenon
<1>10. CASE Usable(p) /\ up # {}
  <2> DEFINE a == _lldpctl_new_atom(p.atoms, "list")
  <2> DEFINE b == _lldpctl_new_atom(a, "iface")
  <2> DEFINE r == [p EXCEPT !.pc = "iterate", !.set = set, !.todo = todo,
                            !.held = {"list", "iface"}, !.atoms = b]
  <2>0. Now(c, r)
    BY <1>5, <1>10, Zenon
  <2>1. a \in [Atoms -> Int] /\ b \in [Atoms -> Int]
    BY <1>2, <1>7, NewAtomType, Zenon
  <2>2. \A j \in Atoms : a[j] = IF j = "list" THEN 1 ELSE p.atoms[j]
    BY <1>2, NewAtomCounts, Zenon
  <2>3. \A j \in Atoms : b[j] = IF j = "iface" THEN 1 ELSE a[j]
    BY <2>1, NewAtomCounts, Zenon
  <2> HIDE DEF a, b
  <2>4. /\ r \in ProgramType /\ r.pc = "iterate" /\ r.held = {"list", "iface"}
        /\ r.atoms = b /\ r.set = set
    BY <1>2, <1>4, <1>6, <1>7, <2>1, Zenon DEF ProgramType
  <2>5. Counted(r)
    BY <1>2, <1>3, <2>2, <2>3, <2>4 DEF Counted, Count, Atoms
  <2>6. ProgramInv(r)
    BY <1>4, <2>4, <2>5, Zenon DEF ProgramInv, Holds
  <2> QED  BY <2>0, <2>4, <2>6, Zenon
<1> QED  BY <1>8, <1>9, <1>10, Zenon

\* lldpctl_get_port: the port, the list and the item, or nothing.
LEMMA GetPortProgram ==
  ASSUME SettingsInv, NEW c \in Programs, lldpctl_get_port(c)
  PROVE  \E r : Now(c, r) /\ ProgramInv(r) /\ r.pc # "config"
<1> DEFINE p == program[c]
<1> DEFINE isList == p.set.what \in {"policy", "location"}
<1>1. ProgramInv(p) /\ p \in ProgramType /\ p.pc = "iterate" /\ p.todo # <<>>
  BY Zenon DEF SettingsInv, ProgramInv, lldpctl_get_port
<1>2. /\ p.held = {"list", "iface"} /\ p.atoms \in [Atoms -> Int] /\ p.todo \in Seq(Interfaces)
      /\ p.set \in PortSets /\ Counted(p)
  BY <1>1, Zenon DEF ProgramType, ProgramInv, Holds
<1>3. Tail(p.todo) \in Seq(Interfaces)
  BY <1>1, <1>2
<1>4. {"port", "items", "item", "list", "iface"} \subseteq Atoms
  BY Zenon DEF Atoms
<1>5. CASE ~Usable(p)
  <2> DEFINE r == [NotUsable(p) EXCEPT !.todo = Tail(@)]
  <2>1. Now(c, r)
    BY <1>5, Zenon DEF lldpctl_get_port
  <2>2. NotUsable(p) \in ProgramType /\ NotUsable(p).pc = "iterate" /\ NotUsable(p).held = p.held
        /\ NotUsable(p).atoms = p.atoms /\ NotUsable(p).set = p.set /\ NotUsable(p).todo = p.todo
    BY <1>1, Zenon DEF ProgramType, NotUsable
  <2>3. r \in ProgramType /\ r.pc = "iterate" /\ r.held = p.held /\ r.atoms = p.atoms /\ r.set = p.set
    BY <1>3, <2>2, Zenon DEF ProgramType
  <2>4. ProgramInv(r)
    BY <1>2, <2>3, Zenon DEF ProgramInv, Holds, Counted
  <2> QED  BY <2>1, <2>3, <2>4, Zenon
<1>6. CASE Usable(p) /\ Head(p.todo) \notin up
  <2> DEFINE r == [Refused(p, "get_port") EXCEPT !.todo = Tail(@)]
  <2>1. Now(c, r)
    BY <1>6, Zenon DEF lldpctl_get_port
  <2>2. Refused(p, "get_port") \in ProgramType /\ Refused(p, "get_port").pc = "iterate"
        /\ Refused(p, "get_port").held = p.held /\ Refused(p, "get_port").atoms = p.atoms
        /\ Refused(p, "get_port").set = p.set /\ Refused(p, "get_port").todo = p.todo
    BY <1>1, Zenon DEF ProgramType, Refused
  <2>3. r \in ProgramType /\ r.pc = "iterate" /\ r.held = p.held /\ r.atoms = p.atoms /\ r.set = p.set
    BY <1>3, <2>2, Zenon DEF ProgramType
  <2>4. ProgramInv(r)
    BY <1>2, <2>3, Zenon DEF ProgramInv, Holds, Counted
  <2> QED  BY <2>1, <2>3, <2>4, Zenon
<1>7. CASE Usable(p) /\ Head(p.todo) \in up
  <2> DEFINE a1 == _lldpctl_new_atom(p.atoms, "port")
  <2> DEFINE a2 == IF isList THEN _lldpctl_new_atom(a1, "items") ELSE a1
  <2> DEFINE a3 == _lldpctl_new_atom(a2, "item")
  <2> DEFINE h == p.held \cup {"item", "port"} \cup IF isList THEN {"items"} ELSE {}
  <2> DEFINE r == [p EXCEPT !.pc = "set", !.atoms = a3, !.held = h]
  <2>1. Now(c, r)
    BY <1>7, Zenon DEF lldpctl_get_port
  <2>2. a1 \in [Atoms -> Int] /\ \A j \in Atoms : a1[j] = IF j = "port" THEN 1 ELSE p.atoms[j]
    BY <1>2, <1>4, NewAtomType, NewAtomCounts, Zenon
  <2>3. /\ a2 \in [Atoms -> Int]
        /\ \A j \in Atoms : a2[j] = IF isList /\ j = "items" THEN 1
                                    ELSE IF isList /\ j = "port" THEN a1[j] + 1 ELSE a1[j]
    <3> HIDE DEF a1
    <3> QED  BY <2>2, <1>4, NewAtomType, NewAtomCounts
  <2>4. /\ a3 \in [Atoms -> Int]
        /\ \A j \in Atoms : a3[j] = IF j = "item" THEN 1 ELSE IF j = "port" THEN a2[j] + 1 ELSE a2[j]
    <3> HIDE DEF a1, a2
    <3> QED  BY <2>3, <1>4, NewAtomType, NewAtomCounts, Zenon
  <2> HIDE DEF a1, a2, a3
  <2>5. h \in SUBSET Atoms
    BY <1>2, <1>4, Zenon
  <2>6. /\ r \in ProgramType /\ r.pc = "set" /\ r.held = h /\ r.atoms = a3 /\ r.set = p.set
        /\ r.todo = p.todo
    BY <1>1, <2>4, <2>5, Zenon DEF ProgramType
  <2>7. h = {"item", "port", "list", "iface"} \cup IF isList THEN {"items"} ELSE {}
    BY <1>2, Zenon
  <2>8. Counted(r)
    <3>1. \A k \in {"config", "list", "iface", "cael", "caels"} :
            a3[k] = p.atoms[k] /\ (k \in h <=> k \in p.held)
      BY <1>2, <2>2, <2>3, <2>4, <2>7, ZenonT(30) DEF Atoms
    <3>2. p.atoms["items"] = 0 /\ a3["items"] = (IF isList THEN 1 ELSE 0) /\ ("items" \in h <=> isList)
      BY <1>2, <2>2, <2>3, <2>4, <2>7, Zenon DEF Atoms, Counted, Count
    <3>3. a3["item"] = 1 /\ "item" \in h
      BY <2>4, <2>7, Zenon DEF Atoms
    <3>4. a3["port"] = (IF isList THEN 3 ELSE 2) /\ "port" \in h
      BY <2>2, <2>3, <2>4, <2>7 DEF Atoms
    <3> HIDE DEF isList, h
    <3> QED  BY <1>2, <2>6, <3>1, <3>2, <3>3, <3>4 DEF Counted, Count
  <2>9. Holds(r)
    BY <2>6, <2>7, Zenon DEF Holds
  <2>10. ProgramInv(r)
    BY <1>1, <1>2, <2>6, <2>8, <2>9, Zenon DEF ProgramInv
  <2> QED  BY <2>1, <2>6, <2>10, Zenon
<1> QED  BY <1>5, <1>6, <1>7, Zenon

\* The fields of an item, with the atoms of a civic address.
LEMMA SetFieldsProgram ==
  ASSUME SettingsInv, NEW c \in Programs, SetFields(c)
  PROVE  \E r : Now(c, r) /\ ProgramInv(r) /\ r.pc # "config"
<1> DEFINE p == program[c]
<1> DEFINE civic == p.set.what = "location" /\ p.set.format = 2 /\ p.set.country = 2
                    /\ p.set.elements # {}
<1> DEFINE q == [p EXCEPT !.pc = "fields",
                          !.error = IF SettersAccept(p.set) THEN @ ELSE "bad_value"]
<1> DEFINE a == _lldpctl_new_atom(p.atoms, "caels")
<1> DEFINE b == _lldpctl_new_atom(a, "cael")
<1>1. ProgramInv(p) /\ p \in ProgramType /\ p.pc = "set"
  BY Zenon DEF SettingsInv, ProgramInv, SetFields
<1>2. /\ {"item", "port", "list", "iface"} \subseteq p.held
      /\ p.held \subseteq {"item", "items", "port", "list", "iface"}
      /\ p.atoms \in [Atoms -> Int] /\ p.set \in PortSets /\ p.todo # <<>> /\ Counted(p)
  BY <1>1, Zenon DEF ProgramType, ProgramInv, Holds
<1>3. {"caels", "cael"} \subseteq Atoms /\ p.held \subseteq Atoms
  BY <1>1, Zenon DEF Atoms, ProgramType
<1>4. /\ q \in ProgramType /\ q.pc = "fields" /\ q.held = p.held /\ q.atoms = p.atoms
      /\ q.set = p.set /\ q.todo = p.todo /\ (q.error # "bad_value" => SettersAccept(p.set))
  BY <1>1, Zenon DEF ProgramType
<1> HIDE DEF q
<1>5. CASE ~civic
  <2>1. Now(c, q)
    BY <1>5, Zenon DEF SetFields, q
  <2>2. ProgramInv(q)
    BY <1>2, <1>4, Zenon DEF ProgramInv, Holds, Counted
  <2> QED  BY <1>4, <2>1, <2>2, Zenon
<1>6. CASE civic
  <2> DEFINE r == [q EXCEPT !.held = @ \cup {"cael", "caels"}, !.atoms = b]
  <2>1. Now(c, [q EXCEPT !.held = @ \cup {"cael", "caels"},
                         !.atoms = _lldpctl_new_atom(_lldpctl_new_atom(@, "caels"), "cael")])
    BY <1>6, Zenon DEF SetFields, q
  <2>2. Now(c, r)
    BY <1>4, <2>1, Zenon
  <2>3. a \in [Atoms -> Int]
        /\ \A j \in Atoms : a[j] = IF j = "caels" THEN 1 ELSE IF j = "item" THEN p.atoms[j] + 1 ELSE p.atoms[j]
    BY <1>2, <1>3, NewAtomType, NewAtomCounts, Zenon
  <2>4. b \in [Atoms -> Int]
        /\ \A j \in Atoms : b[j] = IF j = "cael" THEN 1 ELSE IF j = "item" THEN a[j] + 1 ELSE a[j]
    <3> HIDE DEF a
    <3> QED  BY <2>3, <1>3, NewAtomType, NewAtomCounts, Zenon
  <2> HIDE DEF a, b
  <2>5. /\ r \in ProgramType /\ r.pc = "fields" /\ r.held = p.held \cup {"cael", "caels"} /\ r.atoms = b
        /\ r.set = p.set /\ r.todo = p.todo /\ r.error = q.error
    BY <1>3, <1>4, <2>4, Zenon DEF ProgramType
  <2>6. Counted(r)
    <3>1. \A k \in {"config", "list", "iface", "items", "port"} :
            b[k] = p.atoms[k] /\ (k \in r.held <=> k \in p.held)
      BY <2>3, <2>4, <2>5, ZenonT(30) DEF Atoms
    <3>2. b["cael"] = 1 /\ b["caels"] = 1 /\ b["item"] = p.atoms["item"] + 2
      <4>1. "cael" \in Atoms /\ "caels" \in Atoms /\ "item" \in Atoms  BY Zenon DEF Atoms
      <4>2. b["cael"] = 1 /\ b["caels"] = a["caels"] /\ a["caels"] = 1
        BY <2>3, <2>4, <4>1, Zenon
      <4>3. b["item"] = a["item"] + 1 /\ a["item"] = p.atoms["item"] + 1 /\ p.atoms["item"] \in Int
        BY <1>2, <2>3, <2>4, <4>1, Zenon
      <4> QED  BY <4>2, <4>3
    <3>3. p.atoms["item"] = 1 /\ "cael" \in r.held /\ "caels" \in r.held /\ "item" \in r.held
      BY <1>2, <2>5 DEF Counted, Count
    <3>4. "item" \in p.held
      BY <1>2, Zenon
    <3> HIDE DEF r
    <3> QED  BY <1>2, <2>5, <3>1, <3>2, <3>3, <3>4 DEF Counted, Count
  <2>7. Holds(r)
    BY <1>2, <2>5, Zenon DEF Holds
  <2>8. ProgramInv(r)
    BY <1>2, <1>4, <2>5, <2>6, <2>7, Zenon DEF ProgramInv
  <2> QED  BY <2>2, <2>5, <2>8, Zenon
<1> QED  BY <1>5, <1>6, Zenon

\* SET_PORT keeps what is held, also when lldpd refuses it.
LEMMA SetPortProgram ==
  ASSUME SettingsInv, NEW c \in Programs, SetPort(c)
  PROVE  \E r : Now(c, r) /\ ProgramInv(r) /\ r.pc # "config"
<1> DEFINE q == program[c]
<1> DEFINE p == [q EXCEPT !.pc = "end"]
<1>1. ProgramInv(q) /\ q \in ProgramType /\ q.pc = "fields"
  BY Zenon DEF SettingsInv, ProgramInv, SetPort
<1>2. /\ p \in ProgramType /\ p.pc = "end" /\ p.held = q.held /\ p.atoms = q.atoms
      /\ p.set = q.set /\ p.todo = q.todo /\ p.error = q.error
  BY <1>1, Zenon DEF ProgramType
<1>3. q.held \cap {"cael", "caels"} = {}
  BY <1>2, Zenon DEF SetPort
<1>4. ProgramInv(p)
  BY <1>1, <1>2, <1>3, Zenon DEF ProgramInv, Holds, Counted
<1>5. CASE p.error = "bad_value" \/ Head(p.todo) \in up
  BY <1>2, <1>4, <1>5, Zenon DEF SetPort
<1>6. CASE p.error # "bad_value" /\ Head(p.todo) \notin up
  <2> DEFINE r == Refused(p, "set_port")
  <2>1. Now(c, r)
    BY <1>6, Zenon DEF SetPort
  <2>2. /\ r \in ProgramType /\ r.pc = "end" /\ r.held = p.held /\ r.atoms = p.atoms
        /\ r.set = p.set /\ r.todo = p.todo
    BY <1>2, Zenon DEF ProgramType, Refused
  <2>3. ProgramInv(r)
    BY <1>2, <1>4, <2>2, Zenon DEF ProgramInv, Holds, Counted
  <2> QED  BY <2>1, <2>2, <2>3, Zenon
<1> QED  BY <1>5, <1>6, Zenon

\* The references go in the order that never leaves a child without its parent.
LEMMA DropRefProgram ==
  ASSUME SettingsInv, NEW c \in Programs, NEW k \in Atoms, DropRef(c, k)
  PROVE  \E r : Now(c, r) /\ ProgramInv(r) /\ r.pc # "config"
<1> DEFINE p == program[c]
<1> DEFINE left == p.held \ {k}
<1> DEFINE next == p.pc = "end" /\ left \cap {"item", "items", "port"} = {}
<1> DEFINE b == lldpctl_atom_dec_ref(p.atoms, k)
<1> DEFINE r == [p EXCEPT !.held = left, !.atoms = b,
                          !.pc = IF left = {} THEN "idle" ELSE IF next THEN "iterate" ELSE @,
                          !.todo = IF next THEN Tail(@) ELSE @]
<1>1. /\ ProgramInv(p) /\ p \in ProgramType /\ Now(c, r)
      /\ k \in p.held /\ k \in Dropping(p)
      /\ \A j \in p.held \cap Dropping(p) : Turn[k] <= Turn[j]
  BY Zenon DEF SettingsInv, ProgramInv, DropRef
<1>2. /\ p.atoms \in [Atoms -> Int] /\ p.held \subseteq Atoms /\ p.todo \in Seq(Interfaces)
      /\ p.pc \in {"idle", "config", "iterate", "set", "fields", "end"}
      /\ Holds(p) /\ Counted(p)
  BY <1>1, Zenon DEF ProgramType, ProgramInv
<1>3. b \in [Atoms -> Int]
  BY <1>2, DecRefType, Zenon
<1> HIDE DEF b
<1>4. next => Tail(p.todo) \in Seq(Interfaces)
  BY <1>1, <1>2 DEF ProgramInv
<1>5. /\ r \in ProgramType /\ r.held = left /\ r.atoms = b /\ r.set = p.set /\ r.error = p.error
      /\ r.pc = (IF left = {} THEN "idle" ELSE IF next THEN "iterate" ELSE p.pc)
      /\ r.todo = (IF next THEN Tail(p.todo) ELSE p.todo)
  <2> DEFINE pc1 == IF left = {} THEN "idle" ELSE IF next THEN "iterate" ELSE p.pc
  <2> DEFINE todo1 == IF next THEN Tail(p.todo) ELSE p.todo
  <2>1. left \in SUBSET Atoms /\ todo1 \in Seq(Interfaces)
        /\ pc1 \in {"idle", "config", "iterate", "set", "fields", "end"}
    BY <1>2, <1>4, Zenon
  <2> HIDE DEF left, next
  <2>2. r = [p EXCEPT !.held = left, !.atoms = b, !.pc = pc1, !.todo = todo1]
    BY Zenon
  <2> HIDE DEF pc1, todo1, r
  <2>3. /\ r \in ProgramType /\ r.held = left /\ r.atoms = b /\ r.set = p.set
        /\ r.error = p.error /\ r.pc = pc1 /\ r.todo = todo1
    BY <1>1, <1>3, <2>1, <2>2, Zenon DEF ProgramType
  <2> QED  BY <2>3, Zenon DEF pc1, todo1
<1> HIDE DEF r
<1>6. CASE p.pc = "config"
  <2>1. k = "config" /\ p.held = {"config"} /\ left = {} /\ ~next
    BY <1>1, <1>2, <1>6, Zenon DEF Dropping, Holds
  <2>2. \A j \in Atoms : b[j] = IF j = k THEN p.atoms[j] - 1 ELSE p.atoms[j]
    BY <1>2, <2>1, DecRefAlone, Zenon DEF b
  <2>3. r.pc = "idle" /\ r.held = {}
    BY <1>5, <2>1, Zenon
  <2>4. Counted(r)
    BY <1>2, <1>5, <2>1, <2>2, <2>3 DEF Counted, Count, Atoms
  <2>5. ProgramInv(r)
    BY <1>5, <2>3, <2>4, Zenon DEF ProgramInv, Holds
  <2> QED  BY <1>1, <2>3, <2>5, Zenon DEF r
<1>7. CASE p.pc = "fields"
  <2>1. /\ k \in {"cael", "caels"} /\ "item" \in p.held /\ "item" \in left
        /\ {"item", "port", "list", "iface"} \subseteq p.held
        /\ p.held \subseteq {"cael", "caels", "item", "items", "port", "list", "iface"}
    BY <1>1, <1>2, <1>7, Zenon DEF Dropping, Holds
  <2>2. p.atoms[k] = 1 /\ p.atoms["item"] # 1
    BY <1>1, <1>2, <2>1 DEF Counted, Count
  <2>3. \A j \in Atoms : b[j] = IF j = k \/ j = "item" THEN p.atoms[j] - 1 ELSE p.atoms[j]
    <3>1. ParentOf[k] = "item"
      BY <2>1, Zenon DEF ParentOf
    <3> QED  BY <1>2, <2>1, <2>2, <3>1, DecRefParent DEF b
  <2>4. r.pc = "fields" /\ r.held = left /\ r.todo = p.todo
    BY <1>5, <1>7, <2>1, Zenon
  <2>5. Counted(r)
    <3>1. \A j \in {"config", "list", "iface", "items", "port"} :
            b[j] = p.atoms[j] /\ (j \in left <=> j \in p.held)
      BY <2>1, <2>3, Zenon DEF Atoms
    <3>2. b[k] = 0 /\ k \notin left /\ b["item"] = p.atoms["item"] - 1
      <4>1. k \in Atoms /\ "item" \in Atoms  BY <2>1, Zenon DEF Atoms
      <4>2. b[k] = p.atoms[k] - 1 /\ b["item"] = p.atoms["item"] - 1  BY <2>3, <4>1, Zenon
      <4>3. k \notin left  BY Zenon
      <4> QED  BY <2>2, <4>2, <4>3
    <3>3. \A j \in {"cael", "caels"} \ {k} : b[j] = p.atoms[j] /\ (j \in left <=> j \in p.held)
      BY <2>1, <2>3, Zenon DEF Atoms
    <3> HIDE DEF left
    <3> QED  BY <1>1, <1>2, <1>5, <2>1, <3>1, <3>2, <3>3 DEF Counted, Count
  <2>6. Holds(r)
    BY <2>1, <2>4, Zenon DEF Holds
  <2>7. ProgramInv(r)
    BY <1>1, <1>5, <1>7, <2>4, <2>5, <2>6, Zenon DEF ProgramInv
  <2> QED  BY <1>1, <2>4, <2>7, Zenon DEF r
<1>8. CASE p.pc = "end"
  <2>1. /\ k \in {"item", "items", "port"} /\ {"port", "list", "iface"} \subseteq p.held
        /\ p.held \subseteq {"item", "items", "port", "list", "iface"}
    BY <1>1, <1>2, <1>8, Zenon DEF Dropping, Holds
  <2>2. p.atoms["config"] = 0 /\ p.atoms["cael"] = 0 /\ p.atoms["caels"] = 0
        /\ p.atoms["list"] = 1 /\ p.atoms["iface"] = 1
    BY <1>2, <2>1, Zenon DEF Counted, Count
  <2>3. r.set \in PortSets /\ p.todo # <<>>
    BY <1>1, <1>5, <1>8, Zenon DEF ProgramInv
  <2>4. CASE k \in {"item", "items"}
    <3>1. ParentOf[k] = "port" /\ p.atoms[k] = 1
      <4>1. ParentOf[k] = "port"  BY <2>4, Zenon DEF ParentOf
      <4>2. p.atoms["items"] = Count("items" \in p.held)
            /\ p.atoms["item"] = Count("item" \in p.held) + Count("cael" \in p.held) + Count("caels" \in p.held)
        BY <1>2, Zenon DEF Counted
      <4>3. Count("cael" \in p.held) = 0 /\ Count("caels" \in p.held) = 0 /\ Count(k \in p.held) = 1
        BY <1>1, <2>1, Zenon DEF Count
      <4>4. CASE k = "items"  BY <4>1, <4>2, <4>3, <4>4, Zenon
      <4>5. CASE k = "item"
        <5>1. Count("item" \in p.held) = 1  BY <4>3, <4>5, Zenon
        <5>2. p.atoms["item"] = 1  BY <4>2, <4>3, <5>1
        <5> QED  BY <4>1, <4>5, <5>2, Zenon
      <4> QED  BY <2>4, <4>4, <4>5, Zenon
    <3>2. \A j \in Atoms : b[j] = IF j = k \/ j = "port" THEN p.atoms[j] - 1 ELSE p.atoms[j]
      BY <1>2, <2>4, <3>1, DecRefParent DEF b
    <3>3. "port" \in left /\ ~next /\ r.pc = "end" /\ r.todo = p.todo /\ r.held = left
      BY <1>5, <1>8, <2>1, <2>4, Zenon
    <3>4. Counted(r)
      <4>1. \A j \in {"config", "list", "iface", "cael", "caels"} :
              b[j] = p.atoms[j] /\ (j \in left <=> j \in p.held)
        BY <2>4, <3>2, Zenon DEF Atoms
      <4>2. b[k] = 0 /\ k \notin left /\ b["port"] = p.atoms["port"] - 1 /\ "port" \in p.held
        <5>1. b[k] = p.atoms[k] - 1 /\ b["port"] = p.atoms["port"] - 1
          BY <2>4, <3>2, Zenon DEF Atoms
        <5>2. k \notin left /\ "port" \in p.held
          BY <2>1, Zenon
        <5> QED  BY <3>1, <5>1, <5>2
      <4>3. \A j \in {"item", "items"} \ {k} : b[j] = p.atoms[j] /\ (j \in left <=> j \in p.held)
        BY <2>4, <3>2 DEF Atoms
      <4> HIDE DEF left, next
      <4>4. /\ \A j \in {"config", "list", "iface", "items", "cael", "caels"} :
                 p.atoms[j] = Count(j \in p.held)
            /\ p.atoms["item"] = Count("item" \in p.held) + Count("cael" \in p.held) + Count("caels" \in p.held)
            /\ p.atoms["port"] = Count("port" \in p.held) + Count("items" \in p.held) + Count("item" \in p.held)
        BY <1>2, Zenon DEF Counted
      <4>5. Count(TRUE) = 1 /\ Count(FALSE) = 0  BY Zenon DEF Count
      <4>6. \A j \in {"config", "list", "iface", "items", "cael", "caels"} : b[j] = Count(j \in left)
        BY <2>4, <4>1, <4>2, <4>3, <4>4, Zenon DEF Count
      <4>7. "cael" \notin p.held /\ "caels" \notin p.held /\ "port" \in left /\ "port" \in p.held
        BY <2>1, <3>3, Zenon
      <4>8. /\ b["item"] = Count("item" \in left) + Count("cael" \in left) + Count("caels" \in left)
            /\ b["port"] = Count("port" \in left) + Count("items" \in left) + Count("item" \in left)
        <5>1. CASE k = "item"
          <6>1. b["item"] = 0 /\ "item" \notin left /\ "item" \in p.held /\ ("items" \in left <=> "items" \in p.held)
            BY <1>1, <4>2, <4>3, <5>1, Zenon
          <6> QED  BY <4>1, <4>2, <4>4, <4>7, <6>1 DEF Count
        <5>2. CASE k = "items"
          <6>1. b["item"] = p.atoms["item"] /\ "items" \notin left /\ "items" \in p.held /\ ("item" \in left <=> "item" \in p.held)
            BY <1>1, <4>2, <4>3, <5>2, Zenon
          <6> QED  BY <4>1, <4>2, <4>4, <4>7, <6>1 DEF Count
        <5> QED  BY <2>4, <5>1, <5>2, Zenon
      <4> QED  BY <1>5, <3>3, <4>6, <4>8, Zenon DEF Counted
    <3>5. Holds(r)
      BY <2>1, <2>4, <3>3, Zenon DEF Holds
    <3>6. ProgramInv(r)
      BY <1>5, <2>3, <3>3, <3>4, <3>5, Zenon DEF ProgramInv
    <3> QED  BY <1>1, <3>3, <3>6, Zenon DEF r
  <2>5. CASE k = "port"
    <3>1. p.held = {"port", "list", "iface"}
      <4>1. \A j \in p.held \cap {"item", "items", "port"} : 2 <= Turn[j]
        BY <1>1, <1>8, <2>5, Zenon DEF Dropping, Turn, Atoms
      <4>2. Turn["item"] = 0 /\ Turn["items"] = 1
        BY Zenon DEF Turn, Atoms
      <4>3. "item" \notin p.held /\ "items" \notin p.held
        BY <4>1, <4>2
      <4> QED  BY <2>1, <4>3, Zenon
    <3>2. left = {"list", "iface"} /\ next
      BY <1>8, <2>5, <3>1, Zenon
    <3>3. \A j \in Atoms : b[j] = IF j = k THEN p.atoms[j] - 1 ELSE p.atoms[j]
      BY <1>2, <2>5, DecRefAlone, Zenon DEF b
    <3>4. r.pc = "iterate" /\ r.held = {"list", "iface"}
      BY <1>5, <3>2, Zenon
    <3>5. Counted(r)
      BY <1>2, <1>5, <2>5, <3>1, <3>3, <3>4 DEF Counted, Count, Atoms
    <3>6. ProgramInv(r)
      BY <1>5, <2>3, <3>4, <3>5, Zenon DEF ProgramInv, Holds
    <3> QED  BY <1>1, <3>4, <3>6, Zenon DEF r
  <2> QED  BY <2>1, <2>4, <2>5, Zenon
<1>9. CASE p.pc = "iterate" /\ p.todo = <<>>
  <2>1. k \in {"list", "iface"} /\ p.held \in {{"list", "iface"}, {"list"}} /\ ~next
    BY <1>1, <1>2, <1>9, Zenon DEF Dropping, Holds
  <2>2. \A j \in Atoms : b[j] = IF j = k THEN p.atoms[j] - 1 ELSE p.atoms[j]
    BY <1>2, <2>1, DecRefAlone, Zenon DEF b
  <2>3. r.set \in PortSets
    BY <1>1, <1>5, <1>9, Zenon DEF ProgramInv
  <2>4. CASE k = "iface"
    <3>1. p.held = {"list", "iface"} /\ left = {"list"}
      BY <1>1, <2>1, <2>4, Zenon
    <3>2. r.pc = "iterate" /\ r.held = {"list"} /\ r.todo = <<>>
      BY <1>5, <1>9, <2>1, <3>1, Zenon
    <3>3. Counted(r)
      BY <1>2, <1>5, <2>2, <2>4, <3>1, <3>2 DEF Counted, Count, Atoms
    <3>4. ProgramInv(r)
      BY <1>5, <2>3, <3>2, <3>3, Zenon DEF ProgramInv, Holds
    <3> QED  BY <1>1, <3>2, <3>4, Zenon DEF r
  <2>5. CASE k = "list"
    <3>1. Turn["list"] = 1 /\ Turn["iface"] = 0
      BY Zenon DEF Turn, Atoms
    <3>2. "iface" \in Dropping(p)
      BY <1>9, Zenon DEF Dropping
    <3>3. p.held = {"list"} /\ left = {}
      BY <1>1, <2>1, <2>5, <3>1, <3>2
    <3>4. r.pc = "idle" /\ r.held = {}
      BY <1>5, <3>3, Zenon
    <3>5. Counted(r)
      BY <1>2, <1>5, <2>2, <2>5, <3>3, <3>4 DEF Counted, Count, Atoms
    <3>6. ProgramInv(r)
      BY <1>5, <3>4, <3>5, Zenon DEF ProgramInv, Holds
    <3> QED  BY <1>1, <3>4, <3>6, Zenon DEF r
  <2> QED  BY <2>1, <2>4, <2>5, Zenon
<1> QED  BY <1>1, <1>2, <1>6, <1>7, <1>8, <1>9, Zenon DEF Dropping

-----------------------------------------------------------------------------
\* The configuration.

\* What the commands ask for.
LEMMA AskType ==
  ASSUME NEW copy, NEW ask \in ConfigCommands(copy)
  PROVE  ask \in [key : Keys, number : BOOLEAN, value : Int]
<1> DEFINE T == [key : Keys, number : BOOLEAN, value : Int]
<1>1. \A key \in Keys : \A V \in SUBSET Int : {Ask(key, v) : v \in V} \subseteq T
  <2> SUFFICES ASSUME NEW key \in Keys, NEW V \in SUBSET Int, NEW v \in V
               PROVE  Ask(key, v) \in T
    BY Zenon
  <2> QED  BY Zenon DEF Ask
<1>2. \A key \in Keys : Numeric(key) \subseteq T
  <2>1. \A key \in Keys : NotANumber(key) \in T
    BY DEF NotANumber
  <2> QED  BY <1>1, <2>1, SettingsAssumption, Zenon DEF Numeric
<1>0. {0, 1} \in SUBSET Int /\ {3, 5} \in SUBSET Int /\ 1 .. 4 \in SUBSET Int
      /\ {0, 1} \ {copy["c_paused"]} \in SUBSET Int
  OBVIOUS
<1> HIDE DEF T
<1>3. cmd_txdelay \subseteq T /\ cmd_txhold \subseteq T
  BY <1>2, Zenon DEF cmd_txdelay, cmd_txhold, Keys
<1>4. cmd_faststart \subseteq T
  <2>1. {Ask("c_enable_fast_start", b) : b \in {0, 1}} \subseteq T
    BY <1>0, <1>1, Zenon DEF Keys
  <2> QED  BY <1>2, <2>1, Zenon DEF cmd_faststart, Keys
<1>5. cmd_portid_type \subseteq T /\ cmd_bondslave_srcmac_type \subseteq T
  BY <1>0, <1>1, Zenon DEF cmd_portid_type, cmd_bondslave_srcmac_type, Keys
<1>6. cmd_iface_pattern \subseteq T /\ cmd_management \subseteq T /\ cmd_hostname \subseteq T
  BY <1>1, SettingsAssumption, Zenon DEF cmd_iface_pattern, cmd_management, cmd_hostname, Keys
<1>7. cmd_system_description \subseteq T
  <2> SUFFICES ASSUME NEW x \in cmd_system_description  PROVE x \in T
    BY Zenon
  <2>1. PICK k \in {"c_description", "c_platform"}, v \in Strings : x = Ask(k, v)
    BY DEF cmd_system_description
  <2> QED  BY <2>1, SettingsAssumption, Zenon DEF Ask, Keys, T
<1>8. cmd_update_descriptions \subseteq T /\ cmd_iface_promisc \subseteq T
  BY <1>0, <1>1, Zenon DEF cmd_update_descriptions, cmd_iface_promisc, Keys
<1>9. cmd_pause_resume(copy) \subseteq T
  BY <1>0, <1>1, Zenon DEF cmd_pause_resume, Keys
<1>10. cmd_update \subseteq T
  BY DEF cmd_update, Ask, Keys, T
<1> QED  BY <1>3, <1>4, <1>5, <1>6, <1>7, <1>8, <1>9, <1>10, Zenon DEF ConfigCommands, T

\* lldpd takes the asked value and no other, and the values of the other keys
\* cause nothing.
ChangesOne(old, config, key, v) ==
  /\ Kicked(old, config).send =
       Count((key = "c_tx_interval" /\ v < 0) \/ (key = "c_paused" /\ v # old["c_paused"]))
  /\ Kicked(old, config).update = Count(key \in Updating /\ Takes(key, v) /\ v # old[key])
  /\ \A k \in Keys : Taken(old, config)[k] = IF k = key /\ Takes(k, v) THEN v ELSE old[k]

\* One change of an up-to-date copy changes one setting.
LEMMA OneChange ==
  ASSUME NEW copy \in [Keys -> Int], NEW old \in [Keys -> Int], NEW key \in Keys, NEW v \in Int,
         NEW config, config = [copy EXCEPT ![key] = v], old["c_tx_interval"] > 0,
         UpToDate(copy, old)
  PROVE  ChangesOne(old, config, key, v)
<1>1. {"c_tx_interval", "c_paused"} \subseteq Keys /\ Updating \subseteq Keys
  BY Zenon DEF Keys, Updating
<1>2. copy["c_tx_interval"] = old["c_tx_interval"] /\ copy["c_paused"] = old["c_paused"]
  BY <1>1, Zenon DEF Takes, UpToDate
<1>3. config["c_tx_interval"] < 0 <=> key = "c_tx_interval" /\ v < 0
  BY <1>1, <1>2
<1>4. config["c_paused"] # old["c_paused"] <=> key = "c_paused" /\ v # old["c_paused"]
  BY <1>1, <1>2, Zenon
<1>5. Kicked(old, config).send = Count(config["c_tx_interval"] < 0) + Count(config["c_paused"] # old["c_paused"])
  BY Zenon DEF Kicked
<1>6. Kicked(old, config).send =
        Count((key = "c_tx_interval" /\ v < 0) \/ (key = "c_paused" /\ v # old["c_paused"]))
  <2> DEFINE asked == key = "c_tx_interval" /\ v < 0
  <2> DEFINE turned == key = "c_paused" /\ v # old["c_paused"]
  <2>1. Count(config["c_tx_interval"] < 0) = IF asked THEN 1 ELSE 0
    BY <1>3, Zenon DEF Count
  <2>2. Count(config["c_paused"] # old["c_paused"]) = IF turned THEN 1 ELSE 0
    BY <1>4, Zenon DEF Count
  <2>3. ~(asked /\ turned)
    BY Zenon
  <2>4. Kicked(old, config).send = IF asked \/ turned THEN 1 ELSE 0
    <3> HIDE DEF asked, turned
    <3> QED  BY <1>5, <2>1, <2>2, <2>3
  <2> QED  BY <2>4, Zenon DEF Count
<1> DEFINE S == {k \in Updating : Taken(old, config)[k] # old[k]}
<1>7. Kicked(old, config).update = Cardinality(S)
  BY Zenon DEF Kicked
<1>8. \A k \in Keys : Taken(old, config)[k] = IF k = key /\ Takes(k, v) THEN v ELSE old[k]
  <2>1. \A k \in Keys : copy[k] = old[k] \/ ~Takes(k, copy[k])
    BY Zenon DEF UpToDate
  <2> QED  BY <2>1, Zenon DEF Taken
<1>9. S = IF key \in Updating /\ Takes(key, v) /\ v # old[key] THEN {key} ELSE {}
  <2> QED  BY <1>1, <1>8, Zenon
<1>10. Cardinality(S) = Count(key \in Updating /\ Takes(key, v) /\ v # old[key])
  <2> HIDE DEF S
  <2> QED  BY <1>9, FS_EmptySet, FS_Singleton, Zenon DEF Count
<1> QED  BY <1>6, <1>7, <1>8, <1>10, Zenon DEF ChangesOne

\* A change of the configuration keeps the invariant, for the program that
\* makes it and for the others, whose copies it may leave behind.
LEMMA AtomSetKeeps ==
  ASSUME SettingsInv, NEW c \in Programs, NEW ask \in ConfigCommands(program[c].copy),
         lldpctl_atom_set(c, ask)
  PROVE  SettingsInv'
<1> DEFINE p == program[c]
<1> DEFINE config == [p.copy EXCEPT ![ask.key] = ask.value]
<1> DEFINE r == [p EXCEPT !.copy = Kept(p.copy, ask)]
<1>1. ask.key \in Keys /\ ask.value \in Int
  BY AskType
<1>2. /\ ProgramInv(p) /\ p \in ProgramType /\ p.copy \in [Keys -> Int] /\ p.pc = "config" /\ CopyInv(p)
      /\ cfg \in [Keys -> Int] /\ cfg["c_tx_interval"] > 0 /\ SetsOne
  BY Zenon DEF SettingsInv, ProgramInv, ProgramType, lldpctl_atom_set
<1>3. /\ cfg' = Taken(cfg, config)
      /\ ttl' = (IF \E k \in {"c_tx_interval", "c_tx_hold"} : cfg'[k] # cfg[k]
                  THEN Ttl(cfg'["c_tx_interval"], cfg'["c_tx_hold"]) ELSE ttl)
      /\ kicks' = [send |-> kicks.send + Kicked(cfg, config).send,
                   update |-> kicks.update + Kicked(cfg, config).update]
  BY Zenon DEF lldpctl_atom_set, client_handle_set_configuration
<1>4. {"c_tx_interval", "c_tx_hold", "c_paused"} \subseteq Keys
  BY Zenon DEF Keys
<1>5. config \in [Keys -> Int]
  BY <1>1, <1>2, Zenon
<1>6. cfg' \in [Keys -> Int] /\ cfg'["c_tx_interval"] > 0
  <2> HIDE DEF config
  <2> QED  BY <1>2, <1>3, <1>4, <1>5, Zenon DEF Taken, Takes
<1>7. ttl' = Ttl(cfg'["c_tx_interval"], cfg'["c_tx_hold"])
  <2>1. CASE \E k \in {"c_tx_interval", "c_tx_hold"} : cfg'[k] # cfg[k]
    BY <1>3, <2>1, Zenon
  <2>2. CASE \A k \in {"c_tx_interval", "c_tx_hold"} : cfg'[k] = cfg[k]
    BY <1>2, <1>3, <2>2, Zenon DEF SetsOne
  <2> QED  BY <2>1, <2>2, Zenon
<1>8. SetsOne'
  <2>1. CASE p.stale
    BY <1>7, <2>1, Zenon DEF lldpctl_atom_set, SetsOne
  <2>2. CASE ~p.stale
    <3>1. UpToDate(p.copy, cfg)
      BY <1>2, <2>2, Zenon DEF CopyInv
    <3>2. ChangesOne(cfg, config, ask.key, ask.value)
      BY <1>1, <1>2, <3>1, OneChange, Zenon
    <3>3. want' = IF Takes(ask.key, ask.value) THEN [want EXCEPT ![ask.key] = ask.value] ELSE want
      BY <2>2, Zenon DEF lldpctl_atom_set
    <3>4. want = cfg /\ kicks = wantKicks
      BY <1>2, Zenon DEF SetsOne
    <3> HIDE DEF config
    <3>5. \A k \in Keys : want'[k] = IF k = ask.key /\ Takes(k, ask.value) THEN ask.value ELSE cfg[k]
      BY <1>1, <1>2, <3>3, <3>4, Zenon
    <3>6. want' \in [Keys -> Int]
      BY <1>1, <1>2, <3>3, <3>4, Zenon
    <3>7. want' = cfg'
      BY <1>3, <1>6, <3>2, <3>5, <3>6 DEF ChangesOne
    <3>8. wantKicks' =
            [send |-> wantKicks.send
               + Count(\/ ask.key = "c_tx_interval" /\ ask.value < 0
                       \/ ask.key = "c_paused" /\ ask.value # want["c_paused"]),
             update |-> wantKicks.update
               + Count(ask.key \in Updating /\ want'[ask.key] # want[ask.key])]
      BY <2>2, Zenon DEF lldpctl_atom_set
    <3>9. Count(ask.key \in Updating /\ want'[ask.key] # want[ask.key])
           = Count(ask.key \in Updating /\ Takes(ask.key, ask.value) /\ ask.value # cfg[ask.key])
      BY <1>1, <3>4, <3>5, Zenon DEF Count
    <3>10. Count(\/ ask.key = "c_tx_interval" /\ ask.value < 0
                 \/ ask.key = "c_paused" /\ ask.value # want["c_paused"])
           = Count((ask.key = "c_tx_interval" /\ ask.value < 0)
                   \/ (ask.key = "c_paused" /\ ask.value # cfg["c_paused"]))
      BY <3>4, Zenon
    <3>11. wantKicks' = kicks'
      <4>1. Kicked(cfg, config).send =
              Count(\/ ask.key = "c_tx_interval" /\ ask.value < 0
                    \/ ask.key = "c_paused" /\ ask.value # want["c_paused"])
        BY <3>2, <3>10, Zenon DEF ChangesOne
      <4>2. Kicked(cfg, config).update =
              Count(ask.key \in Updating /\ want'[ask.key] # want[ask.key])
        BY <3>2, <3>9, Zenon DEF ChangesOne
      <4> DEFINE sends == Kicked(cfg, config).send
      <4> DEFINE updates == Kicked(cfg, config).update
      <4>3. kicks' = [send |-> kicks.send + sends, update |-> kicks.update + updates]
        BY <1>3, Zenon
      <4>4. wantKicks' = [send |-> wantKicks.send + sends, update |-> wantKicks.update + updates]
        BY <3>8, <4>1, <4>2, Zenon
      <4> HIDE DEF sends, updates
      <4> QED  BY <3>4, <4>3, <4>4, Zenon
    <3> QED  BY <1>7, <3>7, <3>11, Zenon DEF SetsOne
  <2> QED  BY <2>1, <2>2, Zenon
<1>9. /\ r \in ProgramType /\ r.pc = "config" /\ r.held = p.held /\ r.atoms = p.atoms
      /\ r.copy = Kept(p.copy, ask) /\ r.stale = p.stale
  <2>1. Kept(p.copy, ask) \in [Keys -> Int]
    BY <1>1, <1>2, Zenon DEF Kept
  <2> QED  BY <1>2, <2>1, Zenon DEF ProgramType
<1>10. ProgramInv(r)
  BY <1>2, <1>9, Zenon DEF ProgramInv, Holds, Counted
<1>11. program' = [d \in Programs |->
          IF d = c THEN r
          ELSE [program[d] EXCEPT !.stale = @ \/ (program[d].pc = "config" /\ cfg' # cfg)]]
  BY Zenon DEF lldpctl_atom_set
<1> HIDE DEF r
<1>12. program'[c] = r
  BY <1>11, Zenon
<1>13. CopyInv(program[c])'
  <2> SUFFICES ASSUME ~p.stale, NEW k \in Keys
               PROVE  \/ r.copy[k] = cfg'[k]
                      \/ ~Takes(k, r.copy[k]) /\ k \notin {"c_tx_interval", "c_tx_hold"}
    BY <1>9, <1>12, Zenon DEF CopyInv, UpToDate
  <2>1. \/ p.copy[k] = cfg[k]
        \/ ~Takes(k, p.copy[k]) /\ k \notin {"c_tx_interval", "c_tx_hold"}
    BY <1>2, Zenon DEF CopyInv, UpToDate
  <2>2. cfg'[k] = IF Takes(k, config[k]) THEN config[k] ELSE cfg[k]
    BY <1>3, Zenon DEF Taken
  <2>3. CASE k # ask.key
    <3>1. config[k] = p.copy[k] /\ r.copy[k] = p.copy[k]
      BY <1>1, <1>2, <1>9, <2>3, Zenon DEF Kept
    <3> HIDE DEF config
    <3> QED  BY <2>1, <2>2, <3>1, Zenon
  <2>4. CASE k = ask.key
    <3>1. config[k] = ask.value
      BY <1>1, <1>2, <2>4, Zenon
    <3> HIDE DEF config
    <3>2. CASE k \in {"c_tx_interval", "c_tx_hold"} /\ ask.value <= 0
      <4>1. ~Takes(k, ask.value) /\ r.copy[k] = p.copy[k]
        BY <1>1, <1>9, <2>4, <3>2 DEF Takes, Kept
      <4> QED  BY <2>1, <2>2, <3>1, <3>2, <4>1, Zenon
    <3>3. CASE ~(k \in {"c_tx_interval", "c_tx_hold"} /\ ask.value <= 0)
      <4>1. r.copy[k] = ask.value
        BY <1>1, <1>2, <1>9, <2>4, <3>3, Zenon DEF Kept
      <4>2. k \in {"c_tx_interval", "c_tx_hold"} => Takes(k, ask.value)
        BY <1>1, <3>3 DEF Takes
      <4> QED  BY <2>2, <3>1, <4>1, <4>2, Zenon
    <3> QED  BY <3>2, <3>3, Zenon
  <2> QED  BY <2>3, <2>4, Zenon
<1>14. ASSUME NEW d \in Programs, d # c
       PROVE  ProgramInv(program'[d]) /\ CopyInv(program[d])'
  <2> DEFINE o == program[d]
  <2> DEFINE q == [o EXCEPT !.stale = @ \/ (o.pc = "config" /\ cfg' # cfg)]
  <2>1. program'[d] = q
    BY <1>11, <1>14, Zenon
  <2>2. o \in ProgramType /\ ProgramInv(o) /\ CopyInv(o)
    BY Zenon DEF SettingsInv, ProgramInv
  <2>3. /\ q \in ProgramType /\ q.pc = o.pc /\ q.held = o.held /\ q.atoms = o.atoms /\ q.copy = o.copy
        /\ q.set = o.set /\ q.todo = o.todo /\ q.error = o.error
        /\ q.stale = (o.stale \/ (o.pc = "config" /\ cfg' # cfg))
    BY <2>2, Zenon DEF ProgramType
  <2> HIDE DEF q
  <2>4. ProgramInv(q)
    BY <2>2, <2>3, Zenon DEF ProgramInv, Holds, Counted
  <2>5. CopyInv(program[d])'
    BY <2>1, <2>2, <2>3, Zenon DEF CopyInv, UpToDate
  <2> QED  BY <2>1, <2>4, <2>5, Zenon
<1>15. program' \in [Programs -> ProgramType]
  <2>1. \A d \in Programs : program'[d] \in ProgramType
    BY <1>9, <1>12, <1>14, Zenon DEF ProgramInv
  <2>2. DOMAIN program' = Programs /\ program' = [d \in Programs |-> program'[d]]
    BY <1>11, Zenon
  <2> QED  BY <2>1, <2>2, Zenon
<1>16. \A d \in Programs : ProgramInv(program'[d]) /\ CopyInv(program[d])'
  BY <1>10, <1>12, <1>13, <1>14, Zenon
<1>17. ports' = ports /\ up' = up
  BY Zenon DEF lldpctl_atom_set
<1>18. PortConsistent'
  BY <1>17, Zenon DEF SettingsInv, PortConsistent
<1> QED  BY <1>6, <1>8, <1>15, <1>16, <1>17, <1>18, Zenon DEF SettingsInv

-----------------------------------------------------------------------------
\* The ports.

\* What PortConsistent says of one port.
PortAnnounces(p) ==
  /\ \A t \in DOMAIN p.policy : p.policy[t].type \in {0, t}
  /\ \A f \in DOMAIN p.location : p.location[f].format \in {0, f}
  /\ "policy" \in p.caps <=> \E t \in DOMAIN p.policy : p.policy[t].type # 0
  /\ "location" \in p.caps <=> \E f \in DOMAIN p.location : p.location[f].format # 0
  /\ ~({"pd", "pse"} \subseteq p.caps)
  /\ p.med_power.devicetype = PD => "pd" \in p.caps
  /\ p.med_power.devicetype = PSE => "pse" \in p.caps

\* PortConsistent, port by port.
LEMMA PortConsistentIff == PortConsistent <=> \A i \in Interfaces : PortAnnounces(ports[i])
BY Zenon DEF PortConsistent, PortAnnounces

\* lldpd_alloc_hardware makes a consistent port.
LEMMA FreshPortFacts == FreshPort \in PortType /\ PortAnnounces(FreshPort)
<1>1. FreshPort \in PortType
  BY Zenon DEF FreshPort, PortType, APPTYPE_LAST, LOCFORMAT_LAST
<1>2. /\ DOMAIN FreshPort.policy = 1 .. APPTYPE_LAST
      /\ \A t \in 1 .. APPTYPE_LAST : FreshPort.policy[t].type = 0
      /\ DOMAIN FreshPort.location = 1 .. LOCFORMAT_LAST
      /\ \A f \in 1 .. LOCFORMAT_LAST : FreshPort.location[f].format = 0
      /\ FreshPort.med_power.devicetype = 0 /\ FreshPort.caps = {"cap", "inventory"}
  BY Zenon DEF FreshPort, NoPolicy, NoLocation, NoPower
<1>3. PD # 0 /\ PSE # 0
  BY DEF PD, PSE
<1> HIDE DEF FreshPort
<1> QED  BY <1>1, <1>2, <1>3, Zenon DEF PortAnnounces

\* client_handle_set_port keeps a port consistent when the library's setters
\* have accepted the settings.
LEMMA PortWithFacts ==
  ASSUME NEW port \in PortType, PortAnnounces(port), NEW set \in PortSets, SettersAccept(set)
  PROVE  PortWith(port, set) \in PortType /\ PortAnnounces(PortWith(port, set))
<1>0. /\ DOMAIN port.policy = 1 .. APPTYPE_LAST /\ DOMAIN port.location = 1 .. LOCFORMAT_LAST
      /\ port.policy \in [1 .. APPTYPE_LAST -> PortSets \cup {NoPolicy}]
      /\ port.location \in [1 .. LOCFORMAT_LAST -> PortSets \cup {NoLocation}]
      /\ port.caps \in SUBSET {"cap", "inventory", "policy", "location", "pd", "pse"}
  BY Zenon DEF PortType
<1>1. CASE set.what = "policy" /\ set.type > 0
  <2> DEFINE r == [port EXCEPT !.policy[set.type] = set, !.caps = @ \cup {"policy"}]
  <2>1. set.type \in 1 .. APPTYPE_LAST
    <3>1. set_med_policy(set)  BY <1>1, Zenon DEF SettersAccept
    <3>2. set.type \in 0 .. APPTYPE_LAST  BY <3>1, Zenon DEF set_med_policy
    <3> QED  BY <1>1, <3>2, SMT DEF APPTYPE_LAST
  <2>2. PortWith(port, set) = r
    BY <1>1, Zenon DEF PortWith
  <2>3. /\ r \in PortType /\ r.caps = port.caps \cup {"policy"} /\ r.location = port.location
        /\ r.med_power = port.med_power /\ r.policy = [port.policy EXCEPT ![set.type] = set]
    BY <1>0, <2>1, Zenon DEF PortType
  <2> HIDE DEF r
  <2>4. /\ DOMAIN r.policy = 1 .. APPTYPE_LAST /\ r.policy[set.type] = set
        /\ \A t \in 1 .. APPTYPE_LAST : t # set.type => r.policy[t] = port.policy[t]
    BY <1>0, <2>1, <2>3, Zenon
  <2>5. set.type # 0
    BY <1>1, <2>1 DEF APPTYPE_LAST
  <2>6. PortAnnounces(r)
    <3>1. \A t \in DOMAIN r.policy : r.policy[t].type \in {0, t}
      BY <1>0, <2>1, <2>4, Zenon DEF PortAnnounces
    <3>2. "policy" \in r.caps /\ \E t \in DOMAIN r.policy : r.policy[t].type # 0
      BY <2>1, <2>3, <2>4, <2>5, Zenon
    <3>3. "location" \in r.caps <=> \E t \in DOMAIN r.location : r.location[t].format # 0
      BY <2>3, Zenon DEF PortAnnounces
    <3>4. ~({"pd", "pse"} \subseteq r.caps)
      BY <2>3, Zenon DEF PortAnnounces
    <3> QED  BY <2>3, <3>1, <3>2, <3>3, <3>4, Zenon DEF PortAnnounces
  <2> QED  BY <2>2, <2>3, <2>6, Zenon
<1>2. CASE set.what = "location" /\ set.format > 0
  <2> DEFINE r == [port EXCEPT !.location[set.format] = set, !.caps = @ \cup {"location"}]
  <2>1. set.format \in 1 .. LOCFORMAT_LAST
    BY <1>2 DEF SettersAccept, set_med_location, LOCFORMAT_LAST
  <2>2. PortWith(port, set) = r
    BY <1>2, Zenon DEF PortWith
  <2>3. /\ r \in PortType /\ r.caps = port.caps \cup {"location"} /\ r.policy = port.policy
        /\ r.med_power = port.med_power /\ r.location = [port.location EXCEPT ![set.format] = set]
    BY <1>0, <2>1, Zenon DEF PortType
  <2> HIDE DEF r
  <2>4. /\ DOMAIN r.location = 1 .. LOCFORMAT_LAST /\ r.location[set.format] = set
        /\ \A t \in 1 .. LOCFORMAT_LAST : t # set.format => r.location[t] = port.location[t]
    BY <1>0, <2>1, <2>3, Zenon
  <2>5. set.format # 0
    BY <1>2, <2>1 DEF LOCFORMAT_LAST
  <2>6. PortAnnounces(r)
    <3>1. \A t \in DOMAIN r.location : r.location[t].format \in {0, t}
      BY <1>0, <2>1, <2>4 DEF PortAnnounces
    <3>2. "location" \in r.caps /\ \E t \in DOMAIN r.location : r.location[t].format # 0
      BY <2>1, <2>3, <2>4, <2>5, Zenon
    <3>3. "policy" \in r.caps <=> \E t \in DOMAIN r.policy : r.policy[t].type # 0
      BY <2>3, Zenon DEF PortAnnounces
    <3>4. ~({"pd", "pse"} \subseteq r.caps)
      BY <2>3, Zenon DEF PortAnnounces
    <3> QED  BY <2>3, <3>1, <3>2, <3>3, <3>4, Zenon DEF PortAnnounces
  <2> QED  BY <2>2, <2>3, <2>6, Zenon
<1>3. CASE set.what = "med_power"
  <2> DEFINE caps == CASE set.devicetype = PD -> (port.caps \cup {"pd"}) \ {"pse"}
                       [] set.devicetype = PSE -> (port.caps \cup {"pse"}) \ {"pd"}
                       [] OTHER -> port.caps
  <2> DEFINE r == [port EXCEPT !.med_power = set, !.caps = caps]
  <2>1. PortWith(port, set) = r
    BY <1>3, Zenon DEF PortWith
  <2>2. PD # PSE
    BY DEF PD, PSE
  <2>3. /\ caps \in SUBSET {"cap", "inventory", "policy", "location", "pd", "pse"}
        /\ "policy" \in caps <=> "policy" \in port.caps
        /\ "location" \in caps <=> "location" \in port.caps
        /\ ~({"pd", "pse"} \subseteq caps)
        /\ set.devicetype = PD => "pd" \in caps
        /\ set.devicetype = PSE => "pse" \in caps
    BY <1>0, <2>2, Zenon DEF PortAnnounces
  <2> HIDE DEF caps
  <2>4. r \in PortType /\ r.caps = caps /\ r.policy = port.policy /\ r.location = port.location /\ r.med_power = set
    BY <2>3, Zenon DEF PortType
  <2>5. PortAnnounces(r)
    BY <2>3, <2>4, Zenon DEF PortAnnounces
  <2> QED  BY <2>1, <2>4, <2>5, Zenon
<1>4. CASE set.what = "dot3_power"
  <2> DEFINE r == [port EXCEPT !.dot3_power = set]
  <2>1. PortWith(port, set) = r
    BY <1>4, Zenon DEF PortWith
  <2>2. /\ r \in PortType /\ r.caps = port.caps /\ r.policy = port.policy /\ r.location = port.location
        /\ r.med_power = port.med_power
    BY Zenon DEF PortType
  <2>3. PortAnnounces(r)
    BY <2>2, Zenon DEF PortAnnounces
  <2> QED  BY <2>1, <2>2, <2>3, Zenon
<1>5. CASE /\ ~(set.what = "policy" /\ set.type > 0) /\ ~(set.what = "location" /\ set.format > 0)
           /\ set.what # "med_power" /\ set.what # "dot3_power"
  BY <1>5, Zenon DEF PortWith
<1> QED  BY <1>1, <1>2, <1>3, <1>4, <1>5, Zenon

\* A change of a port keeps them all consistent.
LEMMA SetPortPorts ==
  ASSUME SettingsInv, NEW c \in Programs, SetPort(c)
  PROVE  ports' \in [Interfaces -> PortType] /\ PortConsistent'
<1> DEFINE q == program[c]
<1> DEFINE p == [q EXCEPT !.pc = "end"]
<1>1. ProgramInv(q) /\ q \in ProgramType /\ q.pc = "fields"
  BY Zenon DEF SettingsInv, ProgramInv, SetPort
<1>2. p.set = q.set /\ p.todo = q.todo /\ p.error = q.error
  BY <1>1, Zenon DEF ProgramType
<1>3. /\ ports \in [Interfaces -> PortType] /\ up \subseteq Interfaces
      /\ \A i \in Interfaces : PortAnnounces(ports[i])
  BY PortConsistentIff, Zenon DEF SettingsInv
<1>4. CASE ports' = ports
  BY <1>4, Zenon DEF SettingsInv, PortConsistent
<1>5. CASE q.error # "bad_value" /\ Head(q.todo) \in up
           /\ ports' = [ports EXCEPT ![Head(q.todo)] = PortWith(@, q.set)]
  <2>1. q.set \in PortSets /\ SettersAccept(q.set)
    BY <1>1, <1>5, Zenon DEF ProgramInv
  <2> DEFINE i == Head(q.todo)
  <2>2. i \in Interfaces /\ ports' = [ports EXCEPT ![i] = PortWith(ports[i], q.set)]
    BY <1>3, <1>5, Zenon
  <2> HIDE DEF i
  <2>3. PortWith(ports[i], q.set) \in PortType /\ PortAnnounces(PortWith(ports[i], q.set))
    BY <1>3, <2>1, <2>2, PortWithFacts, Zenon
  <2>4. /\ ports' \in [Interfaces -> PortType]
        /\ \A j \in Interfaces : PortAnnounces(ports'[j])
    BY <1>3, <2>2, <2>3, Zenon
  <2>5. PortConsistent' <=> \A j \in Interfaces : PortAnnounces(ports'[j])
    BY Zenon DEF PortConsistent, PortAnnounces
  <2> QED  BY <2>4, <2>5, Zenon
<1> QED  BY <1>2, <1>4, <1>5, Zenon DEF SetPort

-----------------------------------------------------------------------------
\* The invariant.

\* lldpd starts with the invariant.
LEMMA SettingsInitInv == SettingsInit => SettingsInv
<1> SUFFICES ASSUME SettingsInit  PROVE SettingsInv
  BY Zenon
<1>1. DefaultConfig \in [Keys -> Int]
  BY DEF DefaultConfig
<1>2. DefaultConfig["c_tx_interval"] = 30 /\ DefaultConfig["c_tx_hold"] = 4
  BY Zenon DEF DefaultConfig, Keys
<1>3. /\ Idle \in ProgramType /\ Idle.pc = "idle" /\ Idle.held = {}
      /\ \A k \in Atoms : Idle.atoms[k] = 0
  BY <1>1 DEF Idle, ProgramType, NoAtoms
<1>4. ProgramInv(Idle)
  <2> HIDE DEF Idle
  <2>1. Counted(Idle)
    BY <1>3 DEF Counted, Count, Atoms
  <2> QED  BY <1>3, <2>1, Zenon DEF ProgramInv, Holds
<1>5. program \in [Programs -> ProgramType] /\ \A c \in Programs : program[c] = Idle
  BY <1>3, Zenon DEF SettingsInit
<1>6. \A c \in Programs : ProgramInv(program[c]) /\ CopyInv(program[c])
  BY <1>3, <1>4, <1>5, Zenon DEF CopyInv
<1>7. SetsOne
  <2>1. Ttl(30, 4) = 120
    BY SMT DEF Ttl
  <2> QED  BY <1>2, <2>1, Zenon DEF SettingsInit, SetsOne
<1>8. ports \in [Interfaces -> PortType] /\ PortConsistent
  BY FreshPortFacts, PortConsistentIff, Zenon DEF SettingsInit
<1> QED  BY <1>1, <1>2, <1>5, <1>6, <1>7, <1>8 DEF SettingsInit, SettingsInv

\* A step of one program that leaves lldpd alone.
LEMMA ProgramStepKeeps ==
  ASSUME SettingsInv, NEW c \in Programs, NEW r, Now(c, r), ProgramInv(r),
         \/ r.pc # "config"
         \/ r.copy = cfg
         \/ program[c].pc = "config" /\ r.copy = program[c].copy /\ r.stale = program[c].stale,
         cfg' = cfg
  PROVE  /\ program' \in [Programs -> ProgramType]
         /\ \A d \in Programs : ProgramInv(program'[d]) /\ CopyInv(program[d])'
<1>1. /\ program' \in [Programs -> ProgramType] /\ program'[c] = r
      /\ \A d \in Programs : d # c => program'[d] = program[d]
  BY NowFacts, Zenon
<1>2. \A d \in Programs : ProgramInv(program[d]) /\ CopyInv(program[d])
  BY Zenon DEF SettingsInv
<1>3. CopyInv(program[c])'
  BY <1>1, <1>2, Zenon DEF CopyInv, UpToDate
<1>4. \A d \in Programs : d # c => CopyInv(program[d])'
  BY <1>1, <1>2, Zenon DEF CopyInv, UpToDate
<1> QED  BY <1>1, <1>2, <1>3, <1>4, Zenon

\* What is left alone stays right.
LEMMA DaemonKeeps ==
  ASSUME SettingsInv, UNCHANGED <<Daemon, History>>
  PROVE  /\ cfg' \in [Keys -> Int] /\ cfg'["c_tx_interval"] > 0
         /\ ports' \in [Interfaces -> PortType] /\ up' \subseteq Interfaces
         /\ SetsOne' /\ PortConsistent' /\ cfg' = cfg
BY Zenon DEF SettingsInv, Daemon, History, SetsOne, PortConsistent

\* An interface that comes or goes has fresh settings.
LEMMA InterfaceMovesKeeps ==
  ASSUME SettingsInv, NEW i \in Interfaces, InterfaceMoves(i)
  PROVE  SettingsInv'
<1>1. /\ ports \in [Interfaces -> PortType] /\ \A j \in Interfaces : PortAnnounces(ports[j])
  BY PortConsistentIff, Zenon DEF SettingsInv
<1>2. /\ ports' \in [Interfaces -> PortType] /\ \A j \in Interfaces : PortAnnounces(ports'[j])
  BY <1>1, FreshPortFacts, Zenon DEF InterfaceMoves
<1>3. PortConsistent'
  BY <1>2, Zenon DEF PortConsistent, PortAnnounces
<1>4. up' \subseteq Interfaces
  BY Zenon DEF InterfaceMoves, SettingsInv
<1>5. cfg' = cfg /\ program' = program /\ SetsOne'
  BY Zenon DEF InterfaceMoves, SettingsInv, SetsOne, History
<1>6. \A d \in Programs : CopyInv(program[d])'
  BY <1>5, Zenon DEF SettingsInv, CopyInv, UpToDate
<1> QED  BY <1>2, <1>3, <1>4, <1>5, <1>6, Zenon DEF SettingsInv

\* Every step keeps the invariant.
LEMMA SettingsNextInv == SettingsInv /\ [SettingsNext]_settingsVars => SettingsInv'
<1> SUFFICES ASSUME SettingsInv, [SettingsNext]_settingsVars  PROVE SettingsInv'
  BY Zenon
<1>1. ASSUME NEW c \in Programs, lldpctl_get_configuration(c)  PROVE SettingsInv'
  <2>1. UNCHANGED <<Daemon, History>>
    BY <1>1, Zenon DEF lldpctl_get_configuration
  <2>2. PICK r : Now(c, r) /\ ProgramInv(r) /\ (r.pc = "config" => r.copy = cfg)
    BY <1>1, GetConfigurationProgram, Zenon
  <2>3. cfg' = cfg
    BY <2>1, DaemonKeeps, Zenon
  <2>4. /\ program' \in [Programs -> ProgramType]
        /\ \A d \in Programs : ProgramInv(program'[d]) /\ CopyInv(program[d])'
    BY <2>2, <2>3, ProgramStepKeeps, Zenon
  <2> QED  BY <2>1, <2>4, DaemonKeeps, Zenon DEF SettingsInv
<1>2. ASSUME NEW c \in Programs, NEW ask \in ConfigCommands(program[c].copy), lldpctl_atom_set(c, ask)
      PROVE  SettingsInv'
  BY <1>2, AtomSetKeeps, Zenon
<1>3. ASSUME NEW c \in Programs, NEW ask, lldpctl_atom_set_str_fails(c, ask)  PROVE SettingsInv'
  <2>1. UNCHANGED <<Daemon, History>> /\ program[c].pc = "config"
    BY <1>3, Zenon DEF lldpctl_atom_set_str_fails
  <2>2. PICK r : /\ Now(c, r) /\ ProgramInv(r)
                 /\ r.copy = program[c].copy /\ r.stale = program[c].stale
    BY <1>3, SetStrFailsProgram, Zenon
  <2>3. cfg' = cfg
    BY <2>1, DaemonKeeps, Zenon
  <2>4. /\ program' \in [Programs -> ProgramType]
        /\ \A d \in Programs : ProgramInv(program'[d]) /\ CopyInv(program[d])'
    BY <2>1, <2>2, <2>3, ProgramStepKeeps, Zenon
  <2> QED  BY <2>1, <2>4, DaemonKeeps, Zenon DEF SettingsInv
<1>4. ASSUME NEW c \in Programs, NEW k \in Atoms, DropRef(c, k)  PROVE SettingsInv'
  <2>1. UNCHANGED <<Daemon, History>>
    BY <1>4, Zenon DEF DropRef
  <2>2. PICK r : Now(c, r) /\ ProgramInv(r) /\ r.pc # "config"
    BY <1>4, DropRefProgram, Zenon
  <2>3. cfg' = cfg
    BY <2>1, DaemonKeeps, Zenon
  <2>4. /\ program' \in [Programs -> ProgramType]
        /\ \A d \in Programs : ProgramInv(program'[d]) /\ CopyInv(program[d])'
    BY <2>2, <2>3, ProgramStepKeeps, Zenon
  <2> QED  BY <2>1, <2>4, DaemonKeeps, Zenon DEF SettingsInv
<1>5. ASSUME NEW c \in Programs, NEW set \in PortCommands, NEW named \in Restrictions, PortCommand(c, set, named)
      PROVE  SettingsInv'
  <2>1. UNCHANGED <<Daemon, History>>
    BY <1>5, Zenon DEF PortCommand
  <2>2. PICK r : Now(c, r) /\ ProgramInv(r) /\ r.pc # "config"
    BY <1>5, PortCommandProgram, Zenon
  <2>3. cfg' = cfg
    BY <2>1, DaemonKeeps, Zenon
  <2>4. /\ program' \in [Programs -> ProgramType]
        /\ \A d \in Programs : ProgramInv(program'[d]) /\ CopyInv(program[d])'
    BY <2>2, <2>3, ProgramStepKeeps, Zenon
  <2> QED  BY <2>1, <2>4, DaemonKeeps, Zenon DEF SettingsInv
<1>6. ASSUME NEW c \in Programs, lldpctl_get_port(c) \/ SetFields(c)  PROVE SettingsInv'
  <2>1. UNCHANGED <<Daemon, History>>
    BY <1>6, Zenon DEF lldpctl_get_port, SetFields
  <2>2. PICK r : Now(c, r) /\ ProgramInv(r) /\ r.pc # "config"
    BY <1>6, GetPortProgram, SetFieldsProgram, Zenon
  <2>3. cfg' = cfg
    BY <2>1, DaemonKeeps, Zenon
  <2>4. /\ program' \in [Programs -> ProgramType]
        /\ \A d \in Programs : ProgramInv(program'[d]) /\ CopyInv(program[d])'
    BY <2>2, <2>3, ProgramStepKeeps, Zenon
  <2> QED  BY <2>1, <2>4, DaemonKeeps, Zenon DEF SettingsInv
<1>7. ASSUME NEW c \in Programs, SetPort(c)  PROVE SettingsInv'
  <2>1. cfg' = cfg /\ up' = up /\ SetsOne'
    BY <1>7, Zenon DEF SetPort, SettingsInv, SetsOne, History
  <2>2. PICK r : Now(c, r) /\ ProgramInv(r) /\ r.pc # "config"
    BY <1>7, SetPortProgram, Zenon
  <2>3. /\ program' \in [Programs -> ProgramType]
        /\ \A d \in Programs : ProgramInv(program'[d]) /\ CopyInv(program[d])'
    BY <2>1, <2>2, ProgramStepKeeps, Zenon
  <2>4. ports' \in [Interfaces -> PortType] /\ PortConsistent'
    BY <1>7, SetPortPorts, Zenon
  <2> QED  BY <2>1, <2>3, <2>4, Zenon DEF SettingsInv
<1>8. ASSUME NEW i \in Interfaces, InterfaceMoves(i)  PROVE SettingsInv'
  BY <1>8, InterfaceMovesKeeps, Zenon
<1>9. CASE UNCHANGED settingsVars
  BY <1>9, Zenon DEF settingsVars, SettingsInv, CopyInv, UpToDate, SetsOne, PortConsistent
<1>10. CASE ConfigNext
  BY <1>1, <1>2, <1>3, <1>4, <1>10, Zenon DEF ConfigNext
<1>11. CASE PortNext
  BY <1>1, <1>4, <1>5, <1>6, <1>7, <1>8, <1>11, Zenon DEF PortNext
<1> QED  BY <1>9, <1>10, <1>11, Zenon DEF SettingsNext

\* How many of two are in a set.
LEMMA MembersOfTwo ==
  ASSUME NEW x, NEW y, x # y, NEW H
  PROVE  Cardinality({j \in {x, y} : j \in H}) = Count(x \in H) + Count(y \in H)
<1> DEFINE S == {j \in {x, y} : j \in H}
<1>1. CASE x \in H /\ y \in H
  <2>1. S = {x} \cup {y}
    BY <1>1, Zenon
  <2>2. IsFiniteSet({x}) /\ Cardinality({x}) = 1
    BY FS_Singleton, Zenon
  <2>3. Cardinality({x} \cup {y}) = 2
    BY <2>2, FS_AddElement
  <2> QED  BY <1>1, <2>1, <2>3 DEF Count
<1>2. CASE x \in H /\ y \notin H
  <2>1. S = {x}
    BY <1>2, Zenon
  <2>2. Cardinality(S) = 1
    BY <2>1, FS_Singleton, Zenon
  <2> QED  BY <1>2, <2>2 DEF Count
<1>3. CASE x \notin H /\ y \in H
  <2>1. S = {y}
    BY <1>3, Zenon
  <2>2. Cardinality(S) = 1
    BY <2>1, FS_Singleton, Zenon
  <2> QED  BY <1>3, <2>2 DEF Count
<1>4. CASE x \notin H /\ y \notin H
  <2>1. S = {}
    BY <1>4, Zenon
  <2>2. Cardinality(S) = 0
    BY <2>1, FS_EmptySet, Zenon
  <2> QED  BY <1>4, <2>2 DEF Count
<1> QED  BY <1>1, <1>2, <1>3, <1>4, Zenon

\* The invariant gives the counts that AtomsExact asks for.
LEMMA SettingsInvAtoms == SettingsInv => AtomsExact
<1> SUFFICES ASSUME SettingsInv, NEW c \in Programs, NEW k \in Atoms \ {"empty"}
             PROVE  program[c].atoms[k] = Count(k \in program[c].held) + Cardinality(
                      {j \in DOMAIN ParentOf : ParentOf[j] = k /\ program[c].atoms[j] > 0})
  BY Zenon DEF AtomsExact
<1> DEFINE p == program[c]
<1> DEFINE S == {j \in DOMAIN ParentOf : ParentOf[j] = k /\ p.atoms[j] > 0}
<1>1. p.atoms \in [Atoms -> Int] /\ Counted(p) /\ Holds(p)
      /\ p.pc \in {"idle", "config", "iterate", "set", "fields", "end"}
  BY Zenon DEF SettingsInv, ProgramInv, ProgramType
<1>2. /\ DOMAIN ParentOf = {"items", "item", "caels", "cael"}
      /\ ParentOf["items"] = "port" /\ ParentOf["item"] = "port"
      /\ ParentOf["caels"] = "item" /\ ParentOf["cael"] = "item"
  BY Zenon DEF ParentOf
<1>3. {"cael", "caels"} \cap p.held # {} => "item" \in p.held
  BY <1>1, Zenon DEF Holds
<1>6. CASE k \notin {"port", "item"}
  <2>1. S = {}
    BY <1>2, <1>6, Zenon
  <2>2. p.atoms[k] = Count(k \in p.held)
    BY <1>1, <1>6, Zenon DEF Counted, Atoms
  <2>3. Count(k \in p.held) \in Int
    BY DEF Count
  <2> QED  BY <2>1, <2>2, <2>3, FS_EmptySet
<1>7. CASE k = "port"
  <2>1. S = {j \in {"items", "item"} : j \in p.held}
    <3>1. p.atoms["items"] > 0 <=> "items" \in p.held
      BY <1>1 DEF Counted, Count
    <3>2. p.atoms["item"] > 0 <=> "item" \in p.held
      BY <1>1, <1>3 DEF Counted, Count
    <3> QED  BY <1>2, <1>7, <3>1, <3>2, Zenon
  <2>2. Cardinality(S) = Count("items" \in p.held) + Count("item" \in p.held)
    <3>1. "items" # "item"
      BY Zenon
    <3> HIDE DEF p
    <3>2. Cardinality({j \in {"items", "item"} : j \in p.held})
            = Count("items" \in p.held) + Count("item" \in p.held)
      BY <3>1, MembersOfTwo, Zenon
    <3> QED  BY <2>1, <3>2, Zenon
  <2> HIDE DEF S
  <2>3. p.atoms["port"] = Count("port" \in p.held) + Cardinality(S)
    BY <1>1, <2>2 DEF Counted, Count
  <2> QED  BY <1>7, <2>3, Zenon DEF S
<1>8. CASE k = "item"
  <2>1. S = {j \in {"cael", "caels"} : j \in p.held}
    <3>1. \A j \in {"cael", "caels"} : p.atoms[j] > 0 <=> j \in p.held
      BY <1>1 DEF Counted, Count
    <3> QED  BY <1>2, <1>8, <3>1, Zenon
  <2>2. Cardinality(S) = Count("cael" \in p.held) + Count("caels" \in p.held)
    <3>1. "cael" # "caels"
      BY Zenon
    <3> HIDE DEF p
    <3>2. Cardinality({j \in {"cael", "caels"} : j \in p.held})
            = Count("cael" \in p.held) + Count("caels" \in p.held)
      BY <3>1, MembersOfTwo, Zenon
    <3> QED  BY <2>1, <3>2, Zenon
  <2> HIDE DEF S
  <2>3. p.atoms["item"] = Count("item" \in p.held) + Cardinality(S)
    BY <1>1, <2>2 DEF Counted, Count
  <2> QED  BY <1>8, <2>3, Zenon DEF S
<1> QED  BY <1>6, <1>7, <1>8, Zenon

\* The invariant holds in every state of every behaviour.
LEMMA SettingsCorrect == SettingsSpec => []SettingsInv
BY SettingsInitInv, SettingsNextInv, PTL DEF SettingsSpec

\* For any programs, numbers and texts, and any number of changes made through any
\* mix of copies, a change of an up-to-date copy changes the one setting it names and
\* causes the rounds it asks for and no others, and the lifetime follows interval and
\* hold (client_handle_set_configuration).
THEOREM ConfigurationSetsOne == SettingsSpec => []SetsOne
<1>1. SettingsInv => SetsOne
  BY Zenon DEF SettingsInv
<1> QED  BY <1>1, SettingsCorrect, PTL

\* For any programs, interfaces and settings asked for, a port announces the
\* capabilities policy and location exactly when it has one, and if it has a role in
\* power supply that role alone (without one it may announce the last), whatever
\* other programs and the interfaces do between two requests of one command (client_handle_set_port behind the setters of the library).
THEOREM PortsConsistent == SettingsSpec => []PortConsistent
<1>1. SettingsInv => PortConsistent
  BY Zenon DEF SettingsInv
<1> QED  BY <1>1, SettingsCorrect, PTL

\* For any programs, interfaces and commands, the count of every atom is the number of
\* its references, from the program and from living children: none is freed too early,
\* and none stays (lldpctl_atom_dec_ref).
THEOREM AtomsCounted == SettingsSpec => []AtomsExact
BY SettingsInvAtoms, SettingsCorrect, PTL
=============================================================================
