-------------------------- MODULE LocalPortsProofs --------------------------
(***************************************************************************)
(* Proofs about what lldpd does at an interface. SmartFilter: the promises *)
(* of the filter, one protocol and one neighbour, for any protocols, limit *)
(* on neighbours and options. TxTimer: with intervals that fit c_ttl, an   *)
(* unobstructed interface refreshes its neighbour in time, and the first   *)
(* PDU after the link came up waits, for every configuration.              *)
(***************************************************************************)
EXTENDS SmartFilter, TxTimer, FiniteSetTheorems, WellFoundedInduction, TLAPS

----------------------------------------------------------------------------
(* The smart filter.                                                       *)

Entry == [id : Ids, mode : Modes, hidden : [Ways -> BOOLEAN]]

FInv == FilterTypeOK /\ OneProto /\ OneNeigh

\* What OneProto and OneNeigh say of a list.
Selected(r) ==
  \A d \in Ways : <<d, "filter">> \in smart =>
    \A j, k \in DOMAIN r : ~r[j].hidden[d] /\ ~r[k].hidden[d] =>
      /\ <<d, "proto">> \in smart => r[j].mode = r[k].mode
      /\ <<d, "neigh">> \in smart => j = k

\* filters[] only holds flags that exist.
LEMMA FiltersType ==
  \A h \in 0 .. 19 : Filters(h) \subseteq Ways \X {"filter", "proto", "neigh"}
BY DEF Filters, SmartFlags, Ways

\* Selected says of the current list what OneProto and OneNeigh say.
LEMMA SelectedIff == Selected(rports) <=> OneProto /\ OneNeigh
<1>1. ASSUME Selected(rports) PROVE OneProto
  BY <1>1, Zenon DEF Selected, OneProto, Visible
<1>2. ASSUME Selected(rports) PROVE OneNeigh
  BY <1>2, Zenon DEF Selected, OneNeigh, Visible
<1>3. ASSUME OneProto, OneNeigh PROVE Selected(rports)
  <2> SUFFICES ASSUME NEW d \in Ways, <<d, "filter">> \in smart,
                      NEW j \in DOMAIN rports, NEW k \in DOMAIN rports,
                      ~rports[j].hidden[d], ~rports[k].hidden[d]
               PROVE  /\ <<d, "proto">> \in smart => rports[j].mode = rports[k].mode
                      /\ <<d, "neigh">> \in smart => j = k
    BY Zenon DEF Selected
  <2>1. j \in Visible(d) /\ k \in Visible(d)
    BY Zenon DEF Visible
  <2> QED  BY <1>3, <2>1, Zenon DEF OneProto, OneNeigh
<1> QED  BY <1>1, <1>2, <1>3, Zenon

\* lldpd_hide_all keeps the entries and touches their flags only.
LEMMA HideAllType ==
  ASSUME NEW r \in Seq(Entry)
  PROVE  /\ HideAll(r) \in Seq(Entry)
         /\ DOMAIN HideAll(r) = DOMAIN r
         /\ \A k \in DOMAIN r :
              /\ HideAll(r)[k].mode = r[k].mode
              /\ \A d \in Ways : <<d, "filter">> \in smart =>
                   HideAll(r)[k].hidden[d] = Hidden(r, d, k)
<1> DEFINE flags(k) == [d \in Ways |-> IF <<d, "filter">> \in smart
                                       THEN Hidden(r, d, k) ELSE r[k].hidden[d]]
           entry(k) == [r[k] EXCEPT !.hidden = flags(k)]
<1>1. HideAll(r) = [k \in 1 .. Len(r) |-> entry(k)]
  BY DEF HideAll
<1>2. ASSUME NEW k \in 1 .. Len(r)
      PROVE  entry(k) \in Entry /\ entry(k).mode = r[k].mode /\ entry(k).hidden = flags(k)
  <2>1. r[k] \in Entry
    OBVIOUS
  <2>2. \A d \in Ways : Hidden(r, d, k) \in BOOLEAN
    BY Zenon DEF Hidden
  <2>3. flags(k) \in [Ways -> BOOLEAN]
    BY <2>1, <2>2, Zenon DEF Entry
  <2> HIDE DEF flags
  <2> QED BY <2>1, <2>3, Zenon DEF Entry
<1> HIDE DEF entry
<1>3. HideAll(r) \in [1 .. Len(r) -> Entry] /\ Len(r) \in Nat
  <2>1. \A k \in 1 .. Len(r) : entry(k) \in Entry
    BY <1>2, Zenon
  <2>2. Len(r) \in Nat
    OBVIOUS
  <2> HIDE DEF HideAll, Entry
  <2> QED BY <1>1, <2>1, <2>2, Zenon
<1>4. HideAll(r) \in Seq(Entry) /\ Len(HideAll(r)) = Len(r)
  BY <1>3
<1> QED BY <1>1, <1>2, <1>4 DEF entry

\* lldpd_hide_all leaves at most one protocol, or one neighbour, where the
\* flags ask for it: two protocols that are both the first of the least used
\* ones are equal, and of two neighbours one has an earlier one before it.
LEMMA HideAllSelects ==
  ASSUME NEW r \in Seq(Entry)
  PROVE  Selected(HideAll(r))
<1> SUFFICES ASSUME NEW d \in Ways, <<d, "filter">> \in smart,
                    NEW j \in DOMAIN r, NEW k \in DOMAIN r,
                    ~HideAll(r)[j].hidden[d], ~HideAll(r)[k].hidden[d]
             PROVE  /\ <<d, "proto">> \in smart => r[j].mode = r[k].mode
                    /\ <<d, "neigh">> \in smart => j = k
  BY HideAllType DEF Selected
<1>1. ~Hidden(r, d, j) /\ ~Hidden(r, d, k)
  BY HideAllType, Zenon
<1>2. r[j].mode \in Kept(r, d) /\ r[k].mode \in Kept(r, d)
  BY <1>1, Zenon DEF Hidden
<1>3. r[j].mode \in Nat /\ r[k].mode \in Nat
  <2>1. r[j] \in Entry /\ r[k] \in Entry
    OBVIOUS
  <2> QED BY <2>1, ModesAssumption, Zenon DEF Entry
<1>4. <<d, "proto">> \in smart => r[j].mode = r[k].mode
  BY <1>2, <1>3 DEF Kept
<1>5. j \in Nat /\ k \in Nat
  OBVIOUS
<1>6. <<d, "neigh">> \in smart => j = k
  BY <1>1, <1>2, <1>5 DEF Hidden
<1> QED BY <1>4, <1>6, Zenon

\* A decoded neighbour enters the list shown in both directions (lldpd_decode).
LEMMA NewType == \A id \in Ids, m \in Modes : New(id, m) \in Entry
BY Zenon DEF New, Entry, Ways

\* Unlinking an entry leaves a list.
LEMMA WithoutType ==
  ASSUME NEW r \in Seq(Entry), NEW k \in DOMAIN r
  PROVE  Without(r, k) \in Seq(Entry)
<1>1. Len(r) - 1 \in Nat /\ k \in 1 .. Len(r)
  OBVIOUS
<1>2. \A i \in 1 .. Len(r) - 1 : i \in 1 .. Len(r) /\ i + 1 \in 1 .. Len(r)
  BY <1>1
<1>3. \A i \in 1 .. Len(r) - 1 : (IF i < k THEN r[i] ELSE r[i + 1]) \in Entry
  BY <1>2
<1> QED BY <1>1, <1>3 DEF Without

\* A list from which entries expired is a list, and what was selected before
\* still satisfies the flags.
LEMMA SurvivorsStep ==
  ASSUME NEW r \in Seq(Entry), Selected(r), NEW f \in Survivors(r)
  PROVE  /\ [i \in DOMAIN f |-> r[f[i]]] \in Seq(Entry)
         /\ Selected([i \in DOMAIN f |-> r[f[i]]])
<1>1. PICK n \in 0 .. Len(r) - 1 : f \in [1 .. n -> DOMAIN r]
  BY Zenon DEF Survivors
<1>2. DOMAIN f = 1 .. n /\ n \in Nat /\ \A i \in 1 .. n : f[i] \in DOMAIN r /\ r[f[i]] \in Entry
  BY <1>1
<1>3. [i \in DOMAIN f |-> r[f[i]]] \in Seq(Entry)
  BY <1>2
<1>4. \A i, j \in DOMAIN f : f[i] = f[j] => i = j
  BY <1>2 DEF Survivors
<1> QED BY <1>2, <1>3, <1>4 DEF Selected

\* The list lldpd_main starts with is empty.
LEMMA InitFInv == FilterInit => FInv
<1> SUFFICES ASSUME FilterInit PROVE FInv
  BY Zenon
<1>1. smart \subseteq Ways \X {"filter", "proto", "neigh"}
  BY FiltersType, ModesAssumption, Zenon DEF FilterInit
<1>2. FilterTypeOK
  BY <1>1, ModesAssumption DEF FilterInit, FilterTypeOK
<1> QED BY <1>2 DEF FilterInit, FInv, OneProto, OneNeigh, Visible

\* Every step that changes the list ends in one that satisfies the flags.
LEMMA ListStep ==
  ASSUME FilterTypeOK, OneProto, OneNeigh, FilterNext
  PROVE  rports' \in Seq(Entry) /\ Selected(rports')
<1> USE SelectedIff
<1>0. rports \in Seq(Entry) /\ Selected(rports)
  BY Zenon DEF FilterTypeOK, Entry
<1>1. ASSUME NEW id \in Ids, NEW m \in Modes, RecvNew(id, m)
      PROVE  rports' \in Seq(Entry) /\ Selected(rports')
  <2>1. Append(rports, New(id, m)) \in Seq(Entry)
    BY <1>0, NewType
  <2> QED BY <1>1, <2>1, HideAllType, HideAllSelects, Zenon DEF RecvNew
<1>2. ASSUME NEW k \in DOMAIN rports, RecvChanged(k)
      PROVE  rports' \in Seq(Entry) /\ Selected(rports')
  <2>1. rports[k] \in Entry
    BY <1>0
  <2>2. New(rports[k].id, rports[k].mode) \in Entry
    BY <2>1, NewType, Zenon DEF Entry
  <2>3. Append(Without(rports, k), New(rports[k].id, rports[k].mode)) \in Seq(Entry)
    BY <1>0, <2>2, WithoutType
  <2> QED BY <1>2, <2>3, HideAllType, HideAllSelects, Zenon DEF RecvChanged
<1>3. CASE RecvOther
  BY <1>0, <1>3, HideAllType, HideAllSelects, Zenon DEF RecvOther
<1>4. CASE Expire
  BY <1>0, <1>4, SurvivorsStep, Zenon DEF Expire
<1>5. CASE Send
  BY <1>0, <1>5, Zenon DEF Send
<1>6. ASSUME NEW level \in {0, 1}, SetLldp(level)
      PROVE  rports' \in Seq(Entry) /\ Selected(rports')
  BY <1>6 DEF SetLldp, Selected
<1> QED BY <1>1, <1>2, <1>3, <1>4, <1>5, <1>6, Zenon DEF FilterNext

\* Receptions, expiries, transmissions and switching LLDP keep the promises.
LEMMA FStep == FInv /\ [FilterNext]_filterVars => FInv'
<1> SUFFICES ASSUME FInv, [FilterNext]_filterVars PROVE FInv'
  BY Zenon
<1>1. CASE UNCHANGED filterVars
  BY <1>1 DEF filterVars, FInv, FilterTypeOK, OneProto, OneNeigh, Visible
<1>2. CASE FilterNext
  <2>1. rports' \in Seq(Entry) /\ Selected(rports') /\ smart' = smart
    <3>1. smart' = smart
      BY <1>2, Zenon DEF FilterNext, RecvNew, RecvChanged, RecvOther, Expire, Send, SetLldp
    <3> QED BY <1>2, <3>1, ListStep, Zenon DEF FInv
  <2>2. enabled' \in [Modes -> 0 .. 2]
    BY <1>2, ModesAssumption DEF FilterNext, RecvNew, RecvChanged, RecvOther, Expire, Send, SetLldp, FInv, FilterTypeOK
  <2>3. sent' \subseteq Modes
    BY <1>2, Zenon DEF FilterNext, RecvNew, RecvChanged, RecvOther, Expire, Send, SetLldp, FInv, FilterTypeOK,
                SpokenTo, Forced, Wanted, Fallback
  <2>4. FilterTypeOK'
    BY <2>1, <2>2, <2>3, Zenon DEF FilterTypeOK, Entry, FInv
  <2>5. OneProto' /\ OneNeigh'
    BY <2>1, Zenon DEF Selected, OneProto, OneNeigh, Visible
  <2> QED BY <2>4, <2>5, Zenon DEF FInv
<1> QED BY <1>1, <1>2, Zenon DEF filterVars

\* What lldpd_hide_ports promises of the list it left holds at every moment,
\* also between two of its runs.
THEOREM FilterInvariant == FilterSpec => []FInv
BY InitFInv, FStep, PTL DEF FilterSpec

\* FilterTypeOK, OneProto and OneNeigh hold whatever arrives and expires.
THEOREM FilterKeepsPromises == FilterSpec => [](FilterTypeOK /\ OneProto /\ OneNeigh)
BY FilterInvariant, PTL DEF FInv

-----------------------------------------------------------------------------
\* What lldpd_send may do with what the filter left.

\* No value of -H keeps one protocol or one neighbour without filtering.
FlagsNeedFilter ==
  \A d \in Ways : <<d, "proto">> \in smart \/ <<d, "neigh">> \in smart => <<d, "filter">> \in smart

\* In filters[] the flags for protocol and neighbour come with a filter flag.
LEMMA FiltersFilter ==
  \A h \in 0 .. 19, d \in Ways :
    <<d, "proto">> \in Filters(h) \/ <<d, "neigh">> \in Filters(h) => <<d, "filter">> \in Filters(h)
BY DEF Filters, SmartFlags, Ways

\* c_smart is set once, by lldpd_main.
LEMMA FlagsInvariant == FilterSpec => []FlagsNeedFilter
<1>1. FilterInit => FlagsNeedFilter
  BY FiltersFilter, ModesAssumption, Zenon DEF FilterInit, FlagsNeedFilter
<1>2. FlagsNeedFilter /\ [FilterNext]_filterVars => FlagsNeedFilter'
  BY Zenon DEF FlagsNeedFilter, filterVars, FilterNext, RecvNew, RecvChanged, RecvOther, Expire, Send, SetLldp
<1> QED BY <1>1, <1>2, PTL DEF FilterSpec

\* A set whose members are all equal has at most one.
LEMMA AtMostOne ==
  ASSUME NEW S, \A x, y \in S : x = y
  PROVE  Cardinality(S) <= 1
<1>1. S = {} \/ \E x : S = {x}
  OBVIOUS
<1>2. CASE S = {}
  <2>1. Cardinality(S) = 0
    BY <1>2, FS_EmptySet, Zenon
  <2> QED BY <2>1
<1>3. CASE \E x : S = {x}
  <2>1. Cardinality(S) = 1
    BY <1>3, FS_Singleton, Zenon
  <2> QED BY <2>1
<1> QED BY <1>1, <1>2, <1>3, Zenon

\* A set of natural numbers has a least element.
LEMMA LeastMode ==
  ASSUME NEW S \in SUBSET Nat, S # {}
  PROVE  \E m \in S : \A n \in S : m <= n
<1>1. \E m \in S : \A n \in S : ~ (<<n, m>> \in OpToRel(<, Nat))
  BY WFMin, NatLessThanWellFounded, Zenon
<1>2. PICK m \in S : \A n \in S : <<n, m>> \notin OpToRel(<, Nat)
  BY <1>1, Zenon
<1>3. \A n \in S : ~(n < m)
  BY <1>2, Zenon DEF OpToRel
<1> QED BY <1>3

\* OneSpoken: the neighbours that are not hidden for transmission speak one
\* protocol, and the fallback is one protocol.
THEOREM OneProtocolSpoken == FilterSpec => OneSpoken
<1>1. FInv /\ FlagsNeedFilter /\ [FilterNext]_filterVars =>
        [Send => \/ Cardinality(sent') <= 1
                 \/ \E m \in Modes : enabled[m] > 1
                 \/ smart \cap {<<"out", "proto">>, <<"out", "neigh">>} = {}]_filterVars
  <2> SUFFICES ASSUME FInv, FlagsNeedFilter, Send,
                      ~ \E m \in Modes : enabled[m] > 1,
                      <<"out", "proto">> \in smart \/ <<"out", "neigh">> \in smart
               PROVE  Cardinality(sent') <= 1
    BY Zenon
  <2>1. <<"out", "filter">> \in smart
    BY Zenon DEF FlagsNeedFilter, Ways
  <2>2. \A j, k \in Visible("out") : rports[j].mode = rports[k].mode
    BY <2>1, Zenon DEF FInv, OneProto, OneNeigh, Ways
  <2>3. \A m, n \in SpokenTo : m = n
    BY <2>2, Zenon DEF SpokenTo, Forced, Wanted, Visible
  <2>4. \A m, n \in Fallback : m = n
    BY ModesAssumption DEF Fallback
  <2> QED BY <2>3, <2>4, AtMostOne, Zenon DEF Send
<1> QED BY <1>1, FilterInvariant, FlagsInvariant, PTL DEF FilterSpec, OneSpoken

\* NeverSilent: the first protocol that is on is there to fall back to.
THEOREM SendNeverSilent == FilterSpec => NeverSilent
<1>1. FInv /\ [FilterNext]_filterVars => [Send => sent' # {} \/ \A m \in Modes : enabled[m] = 0]_filterVars
  <2> SUFFICES ASSUME FInv, Send, NEW m \in Modes, enabled[m] # 0
               PROVE  sent' # {}
    BY Zenon
  <2> DEFINE On == {n \in Modes : enabled[n] > 0}
  <2>1. m \in On /\ On \in SUBSET Nat
    <3>1. enabled[m] \in 0 .. 2
      BY Zenon DEF FInv, FilterTypeOK
    <3>2. enabled[m] > 0
      BY <3>1
    <3> QED BY <3>2, ModesAssumption, Zenon
  <2>2. PICK first \in On : \A n \in On : first <= n
    BY <2>1, LeastMode, Zenon
  <2>3. first \in Fallback
    BY <2>2, Zenon DEF Fallback
  <2> QED BY <2>3, Zenon DEF Send
<1> QED BY <1>1, FilterInvariant, PTL DEF FilterSpec, NeverSilent

----------------------------------------------------------------------------
(* The transmission timer.                                                 *)

\* What clients ask for does not overflow c_ttl.
Fitting == \A p \in ClientTx : p[1] * p[2] < Width

\* The inductive invariant. Besides the two properties: the lifetime covers
\* the interval, and a pending delay or an obstacle is never combined with an
\* unbroken series of PDUs.
IInv ==
  /\ TxTypeOK
  /\ KeptAlive
  /\ FastStops
  /\ interval <= ttl
  /\ steady => blocked = {} /\ reinit = 0

\* A product of positive numbers is at least its first factor.
LEMMA ProductCovers ==
  ASSUME NEW i \in Nat \ {0}, NEW h \in Nat \ {0}
  PROVE  i * h \in Nat /\ i <= i * h
<1>1. PICK k \in Nat : h = k + 1
  <2>1. h - 1 \in Nat /\ h = (h - 1) + 1  OBVIOUS
  <2>2. QED  BY <2>1, Zenon
<1>2. i * h = i * k + i  BY <1>1
<1>3. i * k \in Nat  BY <1>1
<1>4. QED  BY <1>2, <1>3

\* The clamped product still covers an interval that fits (DbTtl).
LEMMA DbTtlCovers ==
  ASSUME NEW i \in Intervals, NEW h \in Holds
  PROVE  DbTtl(i, h) \in 0 .. Width - 1 /\ i <= DbTtl(i, h)
<1>1. i \in 1 .. Width - 1 /\ h \in Nat \ {0} /\ Width \in Nat \ {0}
  BY TxAssumption, Zenon
<1>2. i * h \in Nat /\ i <= i * h  BY <1>1, ProductCovers
<1> DEFINE p == i * h
<1>3. p \in Nat /\ i <= p  BY <1>2, Zenon
<1> HIDE DEF p
<1>4. MinOf(Width - 1, p) \in 0 .. Width - 1 /\ i <= MinOf(Width - 1, p)
  BY <1>1, <1>3 DEF MinOf
<1>5. QED  BY <1>4, Zenon DEF DbTtl, p

\* A product that fits is not changed by the width of c_ttl (ClientTtl).
LEMMA ClientTtlCovers ==
  ASSUME Fitting, NEW p \in ClientTx
  PROVE  ClientTtl(p[1], p[2]) \in 0 .. Width - 1 /\ p[1] <= ClientTtl(p[1], p[2])
<1>1. p[1] \in Nat \ {0} /\ p[2] \in Nat \ {0} /\ Width \in Nat \ {0}
  BY TxAssumption, Zenon
<1>2. p[1] * p[2] \in Nat /\ p[1] <= p[1] * p[2]  BY <1>1, ProductCovers, Zenon
<1>3. p[1] * p[2] < Width  BY Zenon DEF Fitting
<1> DEFINE q == p[1] * p[2]
<1>4. q \in Nat /\ p[1] <= q /\ q < Width  BY <1>2, <1>3, Zenon
<1> HIDE DEF q
<1>5. q % Width = q  BY <1>1, <1>4
<1>6. QED  BY <1>1, <1>4, <1>5 DEF ClientTtl, q

\* A new hardware has no neighbour to keep (lldpd_reset_timer).
LEMMA InitIInv == ASSUME Fitting, TxInit PROVE IInv
<1>1. interval \in Intervals /\ hold \in Holds /\ ttl = DbTtl(interval, hold)
  BY Zenon DEF TxInit
<1>2. ttl \in 0 .. Width - 1 /\ interval <= ttl  BY <1>1, DbTtlCovers, Zenon
<1>4. TxTypeOK
  <2>1. interval \in Nat \ {0} /\ hold \in Nat \ {0}  BY <1>1, TxAssumption
  <2>2. blocked \subseteq Reasons  BY Zenon DEF TxInit
  <2>3. fast \in 0 .. FastInit  BY TxAssumption DEF TxInit
  <2>4. QED  BY <1>2, <2>1, <2>2, <2>3, Zenon DEF TxInit, TxTypeOK
<1>5. QED  BY <1>2, <1>4 DEF TxInit, IInv, KeptAlive, FastStops

\* Every step keeps the invariant, one step of the proof per action.
LEMMA StepIInv == ASSUME Fitting, IInv, [TxNext]_txVars PROVE IInv'
<1> USE TxAssumption
<1>u. TxTypeOK /\ KeptAlive /\ FastStops  BY Zenon DEF IInv
<1>1. CASE UNCHANGED txVars
  BY <1>1, Zenon DEF IInv, txVars, config, history, TxTypeOK, KeptAlive, FastStops
<1>2. CASE SendPdu
  <2>1. CASE reinit > 0 /\ Delay
    BY <2>1, <1>u DEF IInv, Delay, config, history, TxTypeOK, KeptAlive, FastStops
  <2>2. CASE reinit = 0 /\ LldpdSend /\ Rearm /\ UNCHANGED <<reinit, config, blocked, wait>>
    <3>1. UNCHANGED <<reinit, interval, hold, ttl, fastIvl, blocked, wait>>
      BY <2>2, Zenon DEF config
    <3>2. /\ fast' \in 0 .. FastInit /\ timer' \in Nat /\ slow' \in BOOLEAN
          /\ timer' <= ttl \/ (slow' /\ fast' > 0)
      <4>1. fast' \in 0 .. FastInit  BY <2>2, <1>u DEF Rearm, TxTypeOK
      <4>2. slow' \in BOOLEAN /\ (slow' <=> fast' > 0 /\ fastIvl > ttl)  BY <2>2, Zenon DEF Rearm
      <4>3. timer' = (IF fast' > 0 THEN fastIvl ELSE interval) /\ interval <= ttl
        BY <2>2, Zenon DEF Rearm, IInv
      <4>4. fastIvl \in Nat /\ interval \in Nat /\ ttl \in Nat  BY <1>u DEF TxTypeOK
      <4>5. timer' \in Nat /\ (timer' <= ttl \/ (fast' > 0 /\ fastIvl > ttl))  BY <4>3, <4>4
      <4>6. QED  BY <4>1, <4>2, <4>5, Zenon
    <3>3. /\ left' \in Nat /\ fastSent' \in Nat /\ steady' \in BOOLEAN
          /\ steady' => blocked = {}
          /\ steady' => timer' <= left' \/ (slow' /\ fast' > 0)
          /\ fast' > 0 => fastSent' + fast' <= FastInit
      <4>1. CASE CanSend
        BY <4>1, <2>2, <3>2, <1>u DEF LldpdSend, Rearm, CanSend, TxTypeOK, FastStops
      <4>2. CASE ~CanSend
        BY <4>2, <2>2, <3>2, <1>u DEF LldpdSend, Rearm, CanSend, TxTypeOK, FastStops, IInv
      <4>3. QED  BY <4>1, <4>2, Zenon
    <3>4. TxTypeOK'  BY <3>1, <3>2, <3>3, <1>u, Zenon DEF TxTypeOK
    <3>5. QED  BY <2>2, <3>1, <3>3, <3>4, Zenon DEF IInv, KeptAlive, FastStops
  <2>3. QED  BY <1>2, <2>1, <2>2, Zenon DEF SendPdu
<1>3. CASE Tick
  BY <1>3, <1>u DEF Tick, IInv, config, TxTypeOK, KeptAlive, FastStops
<1>4. CASE LinkUp
  <2>1. PICK r \in Reinits : reinit' = r /\ wait' = IF r > 0 THEN r - 1 ELSE 0
    BY <1>4, Zenon DEF LinkUp
  <2>2. reinit' \in Nat /\ wait' \in Nat  BY <2>1
  <2>3. "link" \in blocked /\ steady' = steady /\ ~steady
    BY <1>4, Zenon DEF LinkUp, Unblock, IInv
  <2>4. QED
    BY <1>4, <2>2, <2>3, <1>u
    DEF LinkUp, Unblock, SchedulePdu, IInv, config, TxTypeOK, KeptAlive, FastStops
<1>5. CASE LinkDown
  BY <1>5, <1>u, Zenon
  DEF LinkDown, Block, SchedulePdu, IInv, config, TxTypeOK, KeptAlive, FastStops, Reasons
<1>6. CASE SendNow
  BY <1>6, <1>u DEF SendNow, Ask, SchedulePdu, IInv, config, TxTypeOK, KeptAlive, FastStops
<1>7. CASE UpdatePorts
  <2>1. /\ UNCHANGED <<reinit, fast, interval, hold, ttl, fastIvl, left, fastSent, slow>>
        /\ (timer' = 0 /\ wait' = 0) \/ UNCHANGED <<timer, wait>>
        /\ blocked' \subseteq Reasons /\ steady' \in BOOLEAN
        /\ steady' => steady /\ blocked' = {}
    <3>1. UNCHANGED <<reinit, fast, interval, hold, ttl, fastIvl, left, fastSent, slow>>
      BY <1>7, Zenon DEF UpdatePorts, config
    <3>2. (timer' = 0 /\ wait' = 0) \/ UNCHANGED <<timer, wait>>  BY <1>7, Zenon DEF UpdatePorts, Ask, SchedulePdu
    <3>3. CASE Block("running")  BY <3>1, <3>2, <3>3, <1>u, Zenon DEF Block, TxTypeOK, Reasons
    <3>4. CASE Unblock("running")
      BY <3>1, <3>2, <3>4, <1>u, Zenon DEF Unblock, TxTypeOK, IInv
    <3>5. QED  BY <1>7, <3>3, <3>4, Zenon DEF UpdatePorts
  <2>2. QED  BY <2>1, <1>u DEF IInv, TxTypeOK, KeptAlive, FastStops
<1>8. ASSUME NEW r \in {"paused", "dir"}, Toggle(r) PROVE IInv'
  <2>1. /\ UNCHANGED <<reinit, fast, interval, hold, ttl, fastIvl, left, fastSent, slow>>
        /\ timer' = 0 /\ wait' = 0
        /\ blocked' \subseteq Reasons /\ steady' \in BOOLEAN
        /\ steady' => steady /\ blocked' = {}
    BY <1>8, <1>u, Zenon DEF Toggle, Ask, SchedulePdu, Block, Unblock, config, TxTypeOK, IInv, Reasons
  <2>2. QED  BY <2>1, <1>u DEF IInv, TxTypeOK, KeptAlive, FastStops
<1>9. CASE MedNeighbor
  BY <1>9, <1>u DEF MedNeighbor, Ask, SchedulePdu, IInv, config, TxTypeOK, KeptAlive, FastStops
<1>10. CASE DbConfig
  <2>1. interval' \in Intervals /\ hold' \in Holds /\ ttl' = DbTtl(interval', hold')
    BY <1>10, Zenon DEF DbConfig
  <2>2. ttl' \in 0 .. Width - 1 /\ interval' <= ttl'  BY <2>1, DbTtlCovers, Zenon
  <2>4. interval' \in Nat \ {0} /\ hold' \in Nat \ {0}  BY <2>1
  <2>5. QED
    BY <1>10, <2>2, <2>4, <1>u
    DEF DbConfig, Ask, SchedulePdu, IInv, TxTypeOK, KeptAlive, FastStops
<1>11. CASE ClientConfig
  <2>1. PICK p \in ClientTx : interval' = p[1] /\ hold' = p[2]
    BY <1>11, Zenon DEF ClientConfig
  <2>2. ttl' = ClientTtl(p[1], p[2])  BY <1>11, <2>1, Zenon DEF ClientConfig
  <2>3. ttl' \in 0 .. Width - 1 /\ interval' <= ttl'
    BY <2>1, <2>2, ClientTtlCovers, Zenon
  <2>5. interval' \in Nat \ {0} /\ hold' \in Nat \ {0}  BY <2>1, Zenon
  <2>6. QED
    BY <1>11, <2>3, <2>5, <1>u, Zenon
    DEF ClientConfig, IInv, history, TxTypeOK, KeptAlive, FastStops
<1>12. CASE ClientFast
  BY <1>12, <1>u, Zenon DEF ClientFast, IInv, history, TxTypeOK, KeptAlive, FastStops
<1>13. QED
  BY <1>1, <1>2, <1>3, <1>4, <1>5, <1>6, <1>7, <1>8, <1>9, <1>10, <1>11, <1>12, Zenon DEF TxNext

\* For every width, interval, hold and delay: the timer of an unobstructed
\* interface runs before its neighbour forgets the last PDU, unless it runs a
\* fast interval that a client set above the lifetime, and fast start is worth
\* at most c_tx_fast_init PDUs (levent_send_pdu).
THEOREM NeighborKeptAlive == ASSUME Fitting PROVE TxSpec => [](TxTypeOK /\ KeptAlive /\ FastStops)
<1>1. TxInit => IInv  BY InitIInv, Zenon
<1>2. IInv /\ [TxNext]_txVars => IInv'  BY StepIInv, Zenon
<1>3. IInv => TxTypeOK /\ KeptAlive /\ FastStops  BY Zenon DEF IInv
<1>4. QED  BY <1>1, <1>2, <1>3, PTL DEF TxSpec

----------------------------------------------------------------------------
\* The reinit delay, for every configuration.

\* The inductive invariant behind QuietAfterUp: what is left of the delay is
\* either still stored in h_reinit_delay or already on the timer, unless the link
\* went down again, after which LinkUp starts a delay of its own.
DelayInv ==
  /\ timer \in Nat /\ reinit \in Nat /\ wait \in Nat
  /\ interval \in Nat /\ fastIvl \in Nat
  /\ "link" \in blocked \/ wait <= timer \/ wait < reinit

\* Every step keeps it, and a series of PDUs begins only when the delay is over.
LEMMA StepDelay ==
  ASSUME DelayInv, [TxNext]_txVars
  PROVE  DelayInv' /\ (~steady /\ steady' => wait = 0)
<1> USE TxAssumption DEF DelayInv
<1>1. CASE UNCHANGED txVars
  BY <1>1, Zenon DEF txVars, config, history
<1>2. CASE SendPdu
  <2>1. CASE reinit > 0 /\ Delay
    BY <1>2, <2>1 DEF SendPdu, Delay, config, history
  <2>2. CASE reinit = 0 /\ LldpdSend /\ Rearm /\ UNCHANGED <<reinit, config, blocked, wait>>
    <3>1. timer = 0 /\ ("link" \in blocked \/ wait = 0)
      BY <1>2, <2>2 DEF SendPdu
    <3>2. timer' \in Nat /\ UNCHANGED <<reinit, interval, fastIvl, blocked, wait>>
      BY <2>2, Zenon DEF Rearm, config
    <3>3. ~steady /\ steady' => wait = 0
      BY <2>2, <3>1, Zenon DEF LldpdSend, CanSend
    <3>4. QED  BY <3>1, <3>2, <3>3
  <2>3. QED  BY <1>2, <2>1, <2>2, Zenon DEF SendPdu
<1>3. CASE Tick
  BY <1>3 DEF Tick, config
<1>4. CASE LinkUp
  <2>1. PICK r \in Reinits : reinit' = r /\ wait' = IF r > 0 THEN r - 1 ELSE 0
    BY <1>4, Zenon DEF LinkUp
  <2>2. timer' = 0 /\ UNCHANGED <<interval, fastIvl, steady>>
    BY <1>4, Zenon DEF LinkUp, Unblock, SchedulePdu, config
  <2>3. QED  BY <2>1, <2>2
<1>5. CASE LinkDown
  BY <1>5, Zenon DEF LinkDown, Block, SchedulePdu, config
<1>6. CASE SendNow
  BY <1>6 DEF SendNow, Ask, SchedulePdu, config
<1>7. CASE UpdatePorts
  <2>1. /\ "link" \in blocked => "link" \in blocked'
        /\ ~(~steady /\ steady')
    BY <1>7 DEF UpdatePorts, Block, Unblock
  <2>2. /\ (timer' = 0 /\ wait' = 0) \/ UNCHANGED <<timer, wait>>
        /\ UNCHANGED <<reinit, interval, fastIvl>>
    BY <1>7, Zenon DEF UpdatePorts, Ask, SchedulePdu, config
  <2>3. QED  BY <2>1, <2>2
<1>8. ASSUME NEW r \in {"paused", "dir"}, Toggle(r)
      PROVE  DelayInv' /\ (~steady /\ steady' => wait = 0)
  BY <1>8 DEF Toggle, Ask, SchedulePdu, Block, Unblock, config
<1>9. CASE MedNeighbor
  BY <1>9 DEF MedNeighbor, Ask, SchedulePdu, config
<1>10. CASE DbConfig
  BY <1>10 DEF DbConfig, Ask, SchedulePdu
<1>11. CASE ClientConfig
  <2>1. interval' \in Nat
    BY <1>11, Zenon DEF ClientConfig
  <2>2. QED  BY <1>11, <2>1, Zenon DEF ClientConfig, history
<1>12. CASE ClientFast
  BY <1>12, Zenon DEF ClientFast, history
<1>13. QED
  BY <1>1, <1>2, <1>3, <1>4, <1>5, <1>6, <1>7, <1>8, <1>9, <1>10, <1>11, <1>12, Zenon DEF TxNext

\* The step predicate of QuietAfterUp.
BeginsQuietly == ~steady /\ steady' => wait = 0

\* After a link came up nothing is transmitted before the reinit delay is over,
\* unless something else than a link asks for it; however links flap, and for
\* every interval, hold and delay (h_reinit_delay in levent_send_pdu).
THEOREM DelayRespected == TxSpec => QuietAfterUp
<1>1. TxInit => DelayInv  BY TxAssumption DEF TxInit, DelayInv
<1>2. DelayInv /\ [TxNext]_txVars => DelayInv'  BY StepDelay, Zenon
<1>3. DelayInv /\ [TxNext]_txVars => [BeginsQuietly]_txVars
  BY StepDelay, Zenon DEF BeginsQuietly
<1>4. TxSpec => [][BeginsQuietly]_txVars  BY <1>1, <1>2, <1>3, PTL DEF TxSpec
<1>5. QED  BY <1>4, PTL DEF QuietAfterUp, BeginsQuietly
=============================================================================
