---------------------------- MODULE OvsdbProofs ----------------------------
(***************************************************************************)
(* Proofs about what the daemon and the SNMP plug-in make of the database. *)
(*                                                                         *)
(* OvsdbIfaces, the hash all_interfaces, for any number of interfaces,     *)
(* directions, kernel indices and changes: the counters in the database    *)
(* never go back, the hash is exact and the configuration of the rows is   *)
(* that of the hardware. What a step does to one interface is a function   *)
(* of its entry, hardware, row and index, so the lemmas are about those.   *)
(*                                                                         *)
(* SnmpTables, for any interfaces, cache time, writes and receivers: what  *)
(* a manager is told was so in the replica at most the time of the cache   *)
(* ago, and when a round of notifications is over every receiver that did  *)
(* not fail by itself was sent it. What the rows of a table are does not   *)
(* matter: the argument is about when a table is loaded, kept, emptied and *)
(* asked.                                                                  *)
(***************************************************************************)
EXTENDS OvsdbIfaces, SnmpTables, TLAPS

PortStates == [itf : Itfs, hw : Hws]

Txns ==
  [status : {"none", "sent", "done"}, values : UNION {[S -> Nat] : S \in SUBSET Ifs}]

IfacesTypes ==
  /\ db \in [Ifs -> Rows] /\ idl \in [Ifs -> Rows]
  /\ kern \in [Ifs -> Indices \cup {0}]
  /\ itf \in [Ifs -> Itfs] /\ hw \in [Ifs -> Hws]
  /\ txn \in Txns /\ aging \in SUBSET Ifs

\* The constants of the module have their types.
LEMMA Blank ==
  /\ NoRow \in Rows /\ FirstRow \in Rows /\ NoHw \in Hws /\ NoItf \in Itfs /\ NoTxn \in Txns
<1>1. Default \in Dirs /\ (CHOOSE d \in Dirs : d # Default) \in Dirs
  BY IfacesAssumption, Zenon
<1>2. NoRow \in Rows  BY <1>1, Zenon DEF NoRow, Rows
<1>3. FirstRow \in Rows  BY <1>1, <1>2, Zenon DEF FirstRow, NoRow, Rows
<1>4. NoHw \in Hws /\ NoItf \in Itfs  BY <1>1, Zenon DEF NoHw, Hws, NoItf, Itfs
<1>5. NoTxn \in Txns
  <2>1. [i \in {} |-> 0] \in [{} -> Nat]  BY Zenon
  <2>2. {} \in SUBSET Ifs  BY Zenon
  <2> QED  BY <2>1, <2>2, Zenon DEF NoTxn, Txns
<1> QED  BY <1>2, <1>3, <1>4, <1>5, Zenon

\* What follows from one entry: lldpd_update_localports keeps the link to the
\* row, never marks an entry synchronized, and a hardware keeps its counter
\* unless it is another one afterwards.
LEMMA LocalportsKeeps ==
  ASSUME NEW p \in PortStates, NEW r \in Rows, NEW index \in Indices \cup {0}, NEW ok \in BOOLEAN
  PROVE  LET q == Localports(p, r, index, ok) IN
         /\ q \in PortStates
         /\ q.itf.row = p.itf.row
         /\ q.itf.synced => p.itf.synced
         /\ q.hw.index = p.hw.index => q.hw = p.hw
         /\ q.hw.index \in {0, index}
<1> DEFINE k == IF ok \/ p.hw.index = index THEN index ELSE 0
           fresh == k # 0 /\ p.hw.index # k
           gone == p.hw.index # 0 /\ p.hw.index # k
           added == IF fresh THEN WithHw(p.itf, k) ELSE p.itf
           ti == IF gone THEN WithoutHw(added) ELSE added
           h == IF fresh THEN NewHw(p.itf, r, k) ELSE IF gone THEN NoHw ELSE p.hw
<1>1. p.itf \in Itfs /\ p.hw \in Hws /\ p = [itf |-> p.itf, hw |-> p.hw]  BY Zenon DEF PortStates
<1>2. added \in Itfs /\ added.row = p.itf.row /\ added.synced = p.itf.synced
  BY <1>1, Zenon DEF WithHw, Itfs
<1>3. ti \in Itfs /\ ti.row = added.row /\ (ti.synced => added.synced)
  BY <1>2, Blank, Zenon DEF WithoutHw, Itfs, NoItf
<1>4. NewHw(p.itf, r, k) \in Hws /\ NewHw(p.itf, r, k).index = k /\ k \in {0, index}
  BY <1>1, IfacesAssumption, Zenon DEF NewHw, Hws, Itfs, Rows
<1>5. h \in Hws /\ (h.index = p.hw.index => h = p.hw) /\ h.index \in {0, index}
  BY <1>1, <1>4, Blank, Zenon DEF NoHw
<1>6. Localports(p, r, index, ok) = [itf |-> ti, hw |-> h]
  BY Zenon DEF Localports, Pair
<1> HIDE DEF ti, h
<1> QED  BY <1>2, <1>3, <1>5, <1>6 DEF PortStates

-----------------------------------------------------------------------------
\* The counters.

\* The daemon's steps keep the types.
LEMMA ConfiguredKeeps ==
  ASSUME NEW p \in PortStates, NEW r \in Rows
  PROVE  /\ Configured(p, r) \in PortStates
         /\ Configured(p, r).itf = p.itf /\ Configured(p, r).hw.index = p.hw.index
         /\ p.itf.hw # 0 =>
              Configured(p, r).hw.dir = r.dir /\ Configured(p, r).hw.link = r.link
BY Zenon DEF Configured, PortStates, Hws, Rows

\* lldpd_reset of a hardware keeps the link to the row and marks nothing.
LEMMA ResetKeeps ==
  ASSUME NEW p \in PortStates
  PROVE  /\ Reset(p) \in PortStates
         /\ Reset(p).itf.row = p.itf.row
         /\ Reset(p).itf.synced => p.itf.synced
         /\ Reset(p).hw = NoHw
<1>1. p.itf \in Itfs  BY Zenon DEF PortStates
<1>2. /\ WithoutHw(p.itf) \in Itfs /\ WithoutHw(p.itf).row = p.itf.row
      /\ WithoutHw(p.itf).synced => p.itf.synced
  BY <1>1, Blank, Zenon DEF WithoutHw, Itfs, NoItf
<1> QED  BY <1>2, Blank, Zenon DEF Reset, Pair, PortStates

\* Linking the rows makes the entry follow the database.
LEMMA LinkedKeeps ==
  ASSUME IfacesTypes, NEW i \in Ifs
  PROVE  /\ Linked(i) \in PortStates
         /\ Linked(i).itf.row = db[i].here
         /\ Linked(i).itf.synced => itf[i].synced
         /\ Linked(i).hw = hw[i]
<1>1. itf[i] \in Itfs /\ hw[i] \in Hws /\ db[i].here \in BOOLEAN
  BY Zenon DEF IfacesTypes, Rows
<1>2. /\ WithRow(itf[i]) \in Itfs /\ WithRow(itf[i]).row = TRUE
      /\ WithRow(itf[i]).synced = itf[i].synced
  BY <1>1, Zenon DEF WithRow, Itfs
<1>3. /\ WithoutRow(itf[i]) \in Itfs /\ WithoutRow(itf[i]).row = FALSE
      /\ WithoutRow(itf[i]).synced => itf[i].synced
  BY <1>1, Blank, Zenon DEF WithoutRow, NoItf, Itfs
<1> QED  BY <1>1, <1>2, <1>3, Zenon DEF Linked, Pair, PortStates

\* handle_interfaces_config_mods, for one interface.
LEMMA AppliedKeeps ==
  ASSUME IfacesTypes, NEW i \in Ifs, NEW first, NEW ok \in BOOLEAN
  PROVE  /\ Applied(i, first, ok) \in PortStates
         /\ Applied(i, first, ok).itf.row = db[i].here
         /\ Applied(i, first, ok).itf.synced => itf[i].synced
         /\ Applied(i, first, ok).hw.index \in {0, hw[i].index, kern[i]}
<1> DEFINE p == Linked(i)
           updated == Localports(p, db[i], kern[i], ok)
           Fine(q) == /\ q \in PortStates
                      /\ q.itf.row = db[i].here
                      /\ q.itf.synced => itf[i].synced
                      /\ q.hw.index \in {0, hw[i].index, kern[i]}
<1>0. db[i] \in Rows /\ kern[i] \in Indices \cup {0}  BY Zenon DEF IfacesTypes
<1>1. Fine(p)
  BY LinkedKeeps, Zenon
<1> HIDE DEF p
<1>2. Fine(updated)
  <2>1. /\ updated \in PortStates /\ updated.itf.row = p.itf.row
        /\ updated.itf.synced => p.itf.synced
        /\ updated.hw.index \in {0, kern[i]}
    BY <1>0, <1>1, LocalportsKeeps
  <2> QED  BY <1>1, <2>1, Zenon
<1> HIDE DEF updated
<1>3. ASSUME NEW q \in {p, updated} PROVE Fine(Configured(q, db[i]))
  <2>1. Fine(q)  BY <1>1, <1>2, Zenon
  <2>2. /\ Configured(q, db[i]) \in PortStates /\ Configured(q, db[i]).itf = q.itf
        /\ Configured(q, db[i]).hw.index = q.hw.index
    BY <1>0, <2>1, ConfiguredKeeps, Zenon
  <2> QED  BY <2>1, <2>2, Zenon
<1>4. ASSUME NEW q \in {p, updated}
      PROVE  Fine(Localports(Reset(q), db[i], kern[i], ok))
  <2>1. Reset(q) \in PortStates /\ Reset(q).itf.row = db[i].here /\ (Reset(q).itf.synced => itf[i].synced)
    BY <1>1, <1>2, ResetKeeps, Zenon
  <2>2. LET l == Localports(Reset(q), db[i], kern[i], ok) IN
        /\ l \in PortStates /\ l.itf.row = Reset(q).itf.row
        /\ l.itf.synced => Reset(q).itf.synced
        /\ l.hw.index \in {0, kern[i]}
    BY <1>0, <2>1, LocalportsKeeps
  <2> QED  BY <2>1, <2>2, Zenon
<1>5. Applied(i, first, ok) \in
        {p, updated} \cup {Configured(q, db[i]) : q \in {p, updated}}
          \cup {Localports(Reset(q), db[i], kern[i], ok) : q \in {p, updated}}
  BY Zenon DEF Applied, p, updated
<1> QED  BY <1>1, <1>2, <1>3, <1>4, <1>5, Zenon

\* A call of lldpd_run marks an entry synchronized only when it starts a
\* transaction, after adding the counter of the row, and the transaction
\* carries the counters as they are then.
LEMMA RunCounts ==
  ASSUME IfacesTypes, NEW stats \in BOOLEAN, Run(stats)
  PROVE  /\ itf' \in [Ifs -> Itfs] /\ hw' \in [Ifs -> Hws] /\ txn' \in Txns
         /\ db' = db /\ kern' = kern /\ idl' = db
         /\ lost' = lost \cup SetBack(itf', hw')
         /\ aging' = aging \/ aging' \subseteq {i \in Ifs : db[i].here /\ db[i].nbr}
         /\ \A i \in Ifs : hw'[i].index \in {0, hw[i].index, kern[i]}
         /\ \A i \in Ifs : itf'[i].synced /\ ~itf[i].synced =>
              txn = NoTxn /\ db[i].stats <= hw'[i].cnt
         /\ \/ txn' = txn /\ \A i \in Ifs : itf'[i].synced => itf[i].synced
            \/ txn' = NoTxn
            \/ /\ txn'.status = "sent"
               /\ \A i \in DOMAIN txn'.values :
                    i \in Ifs /\ itf'[i].synced /\ txn'.values[i] = hw'[i].cnt
<1>0. PICK first \in Firsts : \E bad \in Failures(first), old \in SUBSET WithNbr :
        RunWith(stats, first, bad, old)
  BY Zenon DEF Run
<1>1. PICK bad \in Failures(first), old \in SUBSET WithNbr : RunWith(stats, first, bad, old)
  BY <1>0, Zenon
<1> DEFINE after == [i \in Ifs |-> Applied(i, first, i \notin bad)]
           start == stats /\ txn = NoTxn
           sync(i) == start /\ Reported(after[i]) /\ ~after[i].itf.synced
           reported == {j \in Ifs : Reported(after[j])}
<1>2. ASSUME NEW i \in Ifs
      PROVE  /\ after[i].itf \in Itfs /\ after[i].hw \in Hws
             /\ after[i].itf.synced => itf[i].synced
             /\ after[i].hw.index \in {0, hw[i].index, kern[i]}
             /\ db[i].stats \in Nat
  BY AppliedKeeps, Zenon DEF PortStates, IfacesTypes, Rows
<1>3. ASSUME NEW i \in Ifs
      PROVE  /\ itf'[i] = IF sync(i) THEN [after[i].itf EXCEPT !.synced = TRUE] ELSE after[i].itf
             /\ hw'[i] = IF sync(i) THEN Synced(after[i].hw, db[i]) ELSE after[i].hw
  BY <1>1, Zenon DEF RunWith
<1>4. DOMAIN itf' = Ifs /\ DOMAIN hw' = Ifs
      /\ itf' = [i \in Ifs |-> itf'[i]] /\ hw' = [i \in Ifs |-> hw'[i]]
  BY <1>1, Zenon DEF RunWith
<1>5. /\ db' = db /\ kern' = kern /\ idl' = db /\ lost' = lost \cup SetBack(itf', hw')
      /\ aging' = aging \/ aging' \subseteq {i \in Ifs : db[i].here /\ db[i].nbr}
      /\ start => txn' = [status |-> "sent", values |-> [i \in reported |-> hw'[i].cnt]]
      /\ ~start => txn' \in {txn, PutAway(txn)}
  BY <1>1, Zenon DEF RunWith, WithNbr
<1> HIDE DEF after
<1>6. ASSUME NEW i \in Ifs
      PROVE  /\ itf'[i] \in Itfs /\ hw'[i] \in Hws
             /\ hw'[i].index \in {0, hw[i].index, kern[i]}
             /\ sync(i) => db[i].stats <= hw'[i].cnt
             /\ itf'[i].synced => sync(i) \/ itf[i].synced
             /\ start /\ i \in reported => itf'[i].synced
  <2>1. CASE sync(i)
    <3>1. /\ Synced(after[i].hw, db[i]) \in Hws /\ db[i].stats <= Synced(after[i].hw, db[i]).cnt
          /\ Synced(after[i].hw, db[i]).index = after[i].hw.index
      BY <1>2 DEF Synced, Hws
    <3>2. /\ [after[i].itf EXCEPT !.synced = TRUE] \in Itfs
          /\ [after[i].itf EXCEPT !.synced = TRUE].synced
      BY <1>2, Zenon DEF Itfs
    <3> QED  BY <1>2, <1>3, <2>1, <3>1, <3>2, Zenon
  <2>2. CASE ~sync(i)
    BY <1>2, <1>3, <2>2, Zenon
  <2> QED  BY <2>1, <2>2, Zenon
<1>7. /\ itf' \in [Ifs -> Itfs] /\ hw' \in [Ifs -> Hws]
      /\ \A i \in Ifs : hw'[i].index \in {0, hw[i].index, kern[i]}
  BY <1>4, <1>6, Zenon
<1>8. \A i \in Ifs : itf'[i].synced /\ ~itf[i].synced => start /\ db[i].stats <= hw'[i].cnt
  BY <1>6, Zenon
<1>9. CASE start
  <2>1. [i \in reported |-> hw'[i].cnt] \in [reported -> Nat]
    BY <1>7, Zenon DEF Hws
  <2>2. reported \in SUBSET Ifs  BY Zenon
  <2>3. txn' \in Txns
    BY <1>5, <1>9, <2>1, <2>2 DEF Txns
  <2>4. /\ txn'.status = "sent"
        /\ \A i \in DOMAIN txn'.values :
             i \in Ifs /\ itf'[i].synced /\ txn'.values[i] = hw'[i].cnt
    BY <1>5, <1>6, <1>9
  <2> QED  BY <1>5, <1>7, <1>8, <1>9, <2>3, <2>4, Zenon
<1>10. CASE ~start
  <2>1. txn' = txn \/ txn' = NoTxn
    BY <1>5, <1>10, Zenon DEF PutAway
  <2>2. txn' \in Txns
    BY <2>1, Blank, Zenon DEF IfacesTypes
  <2> QED  BY <1>5, <1>7, <1>8, <1>10, <2>1, <2>2, Zenon
<1> QED  BY <1>9, <1>10, Zenon

\* lldpd_update_localports marks no entry synchronized.
LEMMA UpdateCounts ==
  ASSUME IfacesTypes, UpdateLocalports
  PROVE  /\ itf' \in [Ifs -> Itfs] /\ hw' \in [Ifs -> Hws]
         /\ \A i \in Ifs : itf'[i].synced => itf[i].synced
         /\ \A i \in Ifs : hw'[i].index \in {0, kern[i]}
         /\ lost' = lost \cup SetBack(itf', hw')
         /\ UNCHANGED <<db, kern, idl, txn, aging>>
<1>0. PICK bad :
        LET after == [i \in Ifs |-> Localports(Pair(itf[i], hw[i]), idl[i], kern[i], i \notin bad)]
        IN /\ itf' = [i \in Ifs |-> after[i].itf]
           /\ hw' = [i \in Ifs |-> after[i].hw]
           /\ lost' = lost \cup SetBack(itf', hw')
           /\ UNCHANGED <<db, kern, idl, txn, aging>>
  BY Zenon DEF UpdateLocalports
<1> DEFINE after(i) == Localports(Pair(itf[i], hw[i]), idl[i], kern[i], i \notin bad)
<1>1. itf' = [i \in Ifs |-> after(i).itf] /\ hw' = [i \in Ifs |-> after(i).hw]
  BY <1>0, Zenon
<1>2. ASSUME NEW i \in Ifs
      PROVE  /\ after(i).itf \in Itfs /\ after(i).hw \in Hws
             /\ after(i).itf.synced => itf[i].synced
             /\ after(i).hw.index \in {0, kern[i]}
  <2>1. Pair(itf[i], hw[i]) \in PortStates /\ Pair(itf[i], hw[i]).itf = itf[i]
    BY Zenon DEF IfacesTypes, Pair, PortStates
  <2>2. idl[i] \in Rows /\ kern[i] \in Indices \cup {0} /\ (i \notin bad) \in BOOLEAN
    BY Zenon DEF IfacesTypes
  <2>3. /\ after(i) \in PortStates /\ (after(i).itf.synced => itf[i].synced)
        /\ after(i).hw.index \in {0, kern[i]}
    BY <2>1, <2>2, LocalportsKeeps, ZenonT(40)
  <2> QED  BY <2>3, Zenon DEF PortStates
<1> HIDE DEF after
<1> QED  BY <1>0, <1>1, <1>2, Zenon

\* What the server makes of a transaction: a row that is there gets the value
\* the transaction carries for it, and nothing else changes.
LEMMA WrittenRows ==
  ASSUME IfacesTypes
  PROVE  /\ Written(txn) \in [Ifs -> Rows]
         /\ \A i \in Ifs :
              /\ Written(txn)[i].here = db[i].here /\ Written(txn)[i].nbr = db[i].nbr
              /\ \/ Written(txn)[i].stats = db[i].stats
                 \/ /\ txn.status = "sent" /\ i \in DOMAIN txn.values
                    /\ Written(txn)[i].stats = txn.values[i]
<1>1. ASSUME NEW i \in Ifs
      PROVE  /\ Written(txn)[i] \in Rows
             /\ Written(txn)[i].here = db[i].here /\ Written(txn)[i].nbr = db[i].nbr
             /\ \/ Written(txn)[i].stats = db[i].stats
                \/ /\ txn.status = "sent" /\ i \in DOMAIN txn.values
                   /\ Written(txn)[i].stats = txn.values[i]
  <2>1. db[i] \in Rows  BY Zenon DEF IfacesTypes
  <2>2. i \in DOMAIN txn.values => txn.values[i] \in Nat  BY DEF IfacesTypes, Txns
  <2> QED  BY <2>1, <2>2, Zenon DEF Written, Rows
<1> QED  BY <1>1, Zenon DEF Written

\* What the server makes of the transaction of the ageing pass.
LEMMA AgedRows ==
  ASSUME IfacesTypes
  PROVE  /\ Aged(aging) \in [Ifs -> Rows]
         /\ \A i \in Ifs :
              /\ Aged(aging)[i].here = db[i].here
              /\ i \notin aging => Aged(aging)[i] = db[i]
              /\ i \in aging => Aged(aging)[i].stats = 0 /\ ~Aged(aging)[i].nbr
<1>1. ASSUME NEW i \in Ifs
      PROVE  /\ [db[i] EXCEPT !.nbr = FALSE, !.stats = 0] \in Rows
             /\ [db[i] EXCEPT !.nbr = FALSE, !.stats = 0].here = db[i].here
             /\ [db[i] EXCEPT !.nbr = FALSE, !.stats = 0].stats = 0
             /\ [db[i] EXCEPT !.nbr = FALSE, !.stats = 0].nbr = FALSE
             /\ db[i] \in Rows
  BY Blank, Zenon DEF IfacesTypes, Rows
<1> QED  BY <1>1, Zenon DEF Aged

\* A row that is deleted takes its value out of the transaction and leaves the
\* others.
LEMMA DeletedTxn ==
  ASSUME IfacesTypes, NEW i \in Ifs, DbDelete(i)
  PROVE  /\ txn' \in Txns /\ txn'.status = txn.status
         /\ \A j \in Ifs : j \in DOMAIN txn'.values =>
              j # i /\ j \in DOMAIN txn.values /\ txn'.values[j] = txn.values[j]
<1> DEFINE D == DOMAIN txn.values
           rest == [j \in D \ {i} |-> txn.values[j]]
<1>1. PICK S \in SUBSET Ifs : txn.values \in [S -> Nat]  BY Zenon DEF IfacesTypes, Txns
<1>2. D = S  BY <1>1, Zenon
<1>3. rest \in [S \ {i} -> Nat] /\ S \ {i} \in SUBSET Ifs  BY <1>1, <1>2, Zenon
<1>4. txn' = [txn EXCEPT !.values = rest]  BY Zenon DEF DbDelete
<1>5. DOMAIN rest = D \ {i} /\ \A j \in D \ {i} : rest[j] = txn.values[j]  BY Zenon
<1> HIDE DEF rest, D
<1>6. rest \in UNION {[T -> Nat] : T \in SUBSET Ifs}  BY <1>3, Zenon
<1>7. txn' \in Txns /\ txn'.status = txn.status /\ txn'.values = rest
  BY <1>4, <1>6, Zenon DEF IfacesTypes, Txns
<1> QED  BY <1>5, <1>7, Zenon DEF D

\* Every step keeps the types.
LEMMA TypesStep ==
  IfacesTypes /\ [IfacesNext]_ifaceVars => IfacesTypes'
<1> SUFFICES ASSUME IfacesTypes, [IfacesNext]_ifaceVars PROVE IfacesTypes'
  BY Zenon
<1>0. 0 \in Nat /\ NoRow \in Rows /\ NoHw \in Hws /\ NoItf \in Itfs /\ NoTxn \in Txns  BY Blank, Zenon
<1>1. ASSUME NEW i \in Ifs, DbInsert(i) PROVE IfacesTypes'
  <2>1. PICK d \in Dirs, l \in BOOLEAN :
          db' = [db EXCEPT ![i] = [NoRow EXCEPT !.here = TRUE, !.dir = d, !.link = l]]
    BY <1>1, Zenon DEF DbInsert
  <2>2. [NoRow EXCEPT !.here = TRUE, !.dir = d, !.link = l] \in Rows
    BY <1>0, Zenon DEF NoRow, Rows
  <2> QED  BY <1>1, <2>1, <2>2, Zenon DEF DbInsert, daemon, IfacesTypes
<1>2. ASSUME NEW i \in Ifs, DbModify(i) PROVE IfacesTypes'
  <2>1. PICK d \in Dirs, l \in BOOLEAN : db' = [db EXCEPT ![i].dir = d, ![i].link = l]
    BY <1>2, Zenon DEF DbModify
  <2>2. db[i] \in Rows  BY Zenon DEF IfacesTypes
  <2>3. [[db[i] EXCEPT !.dir = d] EXCEPT !.link = l] \in Rows  BY <2>2, Zenon DEF Rows
  <2>4. db' \in [Ifs -> Rows]  BY <2>1, <2>3, Zenon DEF IfacesTypes
  <2> QED  BY <1>2, <2>4, Zenon DEF DbModify, daemon, IfacesTypes
<1>3. ASSUME NEW i \in Ifs, DbDelete(i) PROVE IfacesTypes'
  <2>1. txn' \in Txns  BY <1>3, DeletedTxn, Zenon
  <2>2. db' \in [Ifs -> Rows] /\ aging' \in SUBSET Ifs
    BY <1>0, <1>3, Zenon DEF DbDelete, IfacesTypes
  <2> QED  BY <1>3, <2>1, <2>2, Zenon DEF DbDelete, IfacesTypes
<1>4. ASSUME NEW i \in Ifs, Kernel(i) PROVE IfacesTypes'
  BY <1>4, Zenon DEF Kernel, daemon, IfacesTypes
<1>5. ASSUME NEW i \in Ifs, Count(i) PROVE IfacesTypes'
  BY <1>5 DEF Count, IfacesTypes, Hws
<1>6. CASE TxnSucceeds
  <2>1. txn' \in Txns  BY <1>6, Zenon DEF TxnSucceeds, IfacesTypes, Txns
  <2> QED  BY <1>6, <2>1, WrittenRows, Zenon DEF TxnSucceeds, IfacesTypes
<1>7. CASE TxnFails
  BY <1>7, Zenon DEF TxnFails, IfacesTypes, Txns
<1>8. CASE UpdateLocalports
  BY <1>8, UpdateCounts, Zenon DEF IfacesTypes
<1>9. CASE ClearCounters
  <2>1. ASSUME NEW i \in Ifs PROVE [hw[i] EXCEPT !.cnt = 0] \in Hws
    BY <1>0, Zenon DEF IfacesTypes, Hws
  <2>2. hw' = [i \in Ifs |-> [hw[i] EXCEPT !.cnt = 0]]  BY <1>9, Zenon DEF ClearCounters
  <2>3. hw' \in [Ifs -> Hws]  BY <2>1, <2>2, Zenon
  <2> QED  BY <1>9, <2>3, Zenon DEF ClearCounters, IfacesTypes
<1>10. CASE Restart
  BY <1>0, <1>10, WrittenRows, AgedRows, Zenon DEF Restart, IfacesTypes
<1>11. ASSUME NEW stats \in BOOLEAN, Run(stats) PROVE IfacesTypes'
  BY <1>11, RunCounts, Zenon DEF IfacesTypes
<1>12. CASE UNCHANGED ifaceVars
  BY <1>12, Zenon DEF ifaceVars, daemon, IfacesTypes
<1>13. CASE AgingSucceeds
  BY <1>13, AgedRows, Zenon DEF AgingSucceeds, IfacesTypes
<1>14. CASE AgingFails
  BY <1>14, Zenon DEF AgingFails, IfacesTypes
<1>15. ASSUME NEW i \in Ifs, NbrWritten(i) PROVE IfacesTypes'
  <2>1. [db[i] EXCEPT !.nbr = ~@] \in Rows  BY Zenon DEF IfacesTypes, Rows
  <2> QED  BY <1>15, <2>1, Zenon DEF NbrWritten, daemon, IfacesTypes
<1> QED
  BY <1>1, <1>2, <1>3, <1>4, <1>5, <1>6, <1>7, <1>8, <1>9, <1>10, <1>11, <1>12, <1>13, <1>14, <1>15,
     Zenon DEF IfacesNext

\* The types hold in the beginning.
LEMMA TypesInit ==
  IfacesInit => IfacesTypes
<1> SUFFICES ASSUME IfacesInit PROVE IfacesTypes
  BY Zenon
<1>1. (CHOOSE k \in Indices : TRUE) \in Indices  BY IfacesAssumption, Zenon
<1>2. kern \in [Ifs -> Indices \cup {0}]  BY <1>1, Zenon DEF IfacesInit
<1> QED  BY <1>2, Blank, Zenon DEF IfacesInit, IfacesTypes

\* As long as this process has not set the counter of an interface back, the
\* row is never ahead of a transaction on its way, and neither is ahead of the
\* hardware once it has been synchronized (sync_lldp_counters_from_db,
\* lldpd_stats_analyze). CountersKept alone is not inductive: it says nothing
\* about the values a transaction brings.
Carried(i) == txn.status = "sent" /\ i \in DOMAIN txn.values

CountersInv ==
  \A i \in Ifs \ lost :
    /\ db[i].here /\ Carried(i) => db[i].stats <= txn.values[i]
    /\ itf[i].synced /\ db[i].here => db[i].stats <= hw[i].cnt
    /\ itf[i].synced /\ Carried(i) => txn.values[i] <= hw[i].cnt

\* Rows named by the ageing transaction have an entry until it arrives: nothing
\* else writes neighbour entries meanwhile.
AgingInv == \A i \in aging : db[i].here /\ db[i].nbr

RowsKept ==
  \A i \in Ifs \ lost : db[i].here /\ db'[i].here => db[i].stats <= db'[i].stats \/ AgedAway(i)

\* A step that leaves rows and transaction alone keeps the relation when it
\* notes what it sets back.
LEMMA SetBackNoted ==
  ASSUME IfacesTypes, IfacesTypes', CountersInv,
         UNCHANGED <<db, txn>>, lost' = lost \cup SetBack(itf', hw'),
         \A i \in Ifs : itf'[i].synced => itf[i].synced
  PROVE  CountersInv'
<1> SUFFICES ASSUME NEW i \in Ifs \ lost'
             PROVE  /\ (db[i].here /\ Carried(i) => db[i].stats <= txn.values[i])'
                    /\ (itf[i].synced /\ db[i].here => db[i].stats <= hw[i].cnt)'
                    /\ (itf[i].synced /\ Carried(i) => txn.values[i] <= hw[i].cnt)'
  BY Zenon DEF CountersInv
<1>1. i \in Ifs \ lost  BY Zenon
<1>2. itf'[i].synced => itf[i].synced /\ hw[i].cnt <= hw'[i].cnt
  BY DEF SetBack, IfacesTypes, Hws
<1>3. Carried(i)' = Carried(i)  BY Zenon DEF Carried
<1>4. hw[i].cnt \in Nat /\ hw'[i].cnt \in Nat /\ db[i].stats \in Nat
  BY Zenon DEF IfacesTypes, Hws, Rows
<1>5. Carried(i) => txn.values[i] \in Nat
  BY DEF IfacesTypes, Txns, Carried
<1> QED  BY <1>1, <1>2, <1>3, <1>4, <1>5 DEF CountersInv

\* A change of rows from outside that adds no row with a counter.
LEMMA RowsFromOutside ==
  ASSUME IfacesTypes, IfacesTypes', CountersInv, UNCHANGED daemon,
         \A i \in Ifs : db'[i].here => (db[i].here /\ db'[i].stats = db[i].stats) \/ db'[i].stats = 0
  PROVE  CountersInv'
<1> SUFFICES ASSUME NEW i \in Ifs \ lost
             PROVE  /\ (db[i].here /\ Carried(i) => db[i].stats <= txn.values[i])'
                    /\ (itf[i].synced /\ db[i].here => db[i].stats <= hw[i].cnt)'
                    /\ (itf[i].synced /\ Carried(i) => txn.values[i] <= hw[i].cnt)'
  BY Zenon DEF CountersInv, daemon
<1>1. Carried(i)' = Carried(i) /\ txn' = txn /\ itf' = itf /\ hw' = hw  BY Zenon DEF Carried, daemon
<1>2. hw[i].cnt \in Nat  BY Zenon DEF IfacesTypes, Hws
<1>3. Carried(i) => txn.values[i] \in Nat  BY DEF IfacesTypes, Txns, Carried
<1> QED  BY <1>1, <1>2, <1>3 DEF CountersInv

\* A call of lldpd_run keeps the relation: what it synchronizes is at least
\* what the row says, and what it sends is what the hardware says.
LEMMA RunKeepsCounters ==
  ASSUME IfacesTypes, IfacesTypes', CountersInv, NEW stats \in BOOLEAN, Run(stats)
  PROVE  CountersInv'
<1>1. /\ db' = db
      /\ lost' = lost \cup SetBack(itf', hw')
      /\ \A i \in Ifs : itf'[i].synced /\ ~itf[i].synced =>
           txn = NoTxn /\ db[i].stats <= hw'[i].cnt
      /\ \/ txn' = txn /\ \A i \in Ifs : itf'[i].synced => itf[i].synced
         \/ txn' = NoTxn
         \/ /\ txn'.status = "sent"
            /\ \A i \in DOMAIN txn'.values :
                 i \in Ifs /\ itf'[i].synced /\ txn'.values[i] = hw'[i].cnt
  BY RunCounts, Zenon
<1>2. CASE txn' = txn /\ \A i \in Ifs : itf'[i].synced => itf[i].synced
  BY <1>1, <1>2, SetBackNoted, Zenon
<1>3. ASSUME NEW i \in Ifs \ lost', itf'[i].synced, db[i].here
      PROVE  db[i].stats <= hw'[i].cnt
  <2>1. CASE ~itf[i].synced
    BY <1>1, <1>3, <2>1, Zenon
  <2>2. CASE itf[i].synced
    <3>1. i \in Ifs \ lost  BY <1>1, Zenon
    <3>2. hw[i].cnt <= hw'[i].cnt  BY <1>1, <1>3, <2>2 DEF SetBack, IfacesTypes, Hws
    <3>3. db[i].stats <= hw[i].cnt  BY <1>3, <2>2, <3>1, Zenon DEF CountersInv
    <3>4. hw[i].cnt \in Nat /\ hw'[i].cnt \in Nat /\ db[i].stats \in Nat
      BY Zenon DEF IfacesTypes, Hws, Rows
    <3> QED  BY <3>2, <3>3, <3>4
  <2> QED  BY <2>1, <2>2, Zenon
<1>4. CASE txn' = NoTxn
  <2>1. \A i \in Ifs : ~Carried(i)'  BY <1>4, Zenon DEF Carried, NoTxn
  <2> QED  BY <1>1, <1>3, <2>1, Zenon DEF CountersInv
<1>5. CASE \A i \in DOMAIN txn'.values :
             i \in Ifs /\ itf'[i].synced /\ txn'.values[i] = hw'[i].cnt
  <2>1. \A i \in Ifs : Carried(i)' => itf'[i].synced /\ txn'.values[i] = hw'[i].cnt
    BY <1>5, Zenon DEF Carried
  <2>2. \A i \in Ifs : hw'[i].cnt \in Nat  BY Zenon DEF IfacesTypes, Hws
  <2> QED  BY <1>1, <1>3, <2>1, <2>2 DEF CountersInv
<1> QED  BY <1>1, <1>2, <1>4, <1>5, Zenon

\* Every step keeps the relation of row, transaction and hardware.
LEMMA CountersStep ==
  IfacesTypes /\ IfacesTypes' /\ CountersInv /\ [IfacesNext]_ifaceVars => CountersInv'
<1> SUFFICES ASSUME IfacesTypes, IfacesTypes', CountersInv, [IfacesNext]_ifaceVars
             PROVE  CountersInv'
  BY Zenon
<1>1. ASSUME NEW i \in Ifs, DbInsert(i) \/ DbModify(i) \/ NbrWritten(i) \/ Kernel(i)
      PROVE  CountersInv'
  <2>1. UNCHANGED daemon  BY <1>1, Zenon DEF DbInsert, DbModify, NbrWritten, Kernel
  <2>2. ASSUME NEW j \in Ifs, db'[j].here
        PROVE  (db[j].here /\ db'[j].stats = db[j].stats) \/ db'[j].stats = 0
    <3>1. CASE DbInsert(i)
      <4>1. PICK d \in Dirs, l \in BOOLEAN :
              db' = [db EXCEPT ![i] = [NoRow EXCEPT !.here = TRUE, !.dir = d, !.link = l]]
        BY <3>1, Zenon DEF DbInsert
      <4>2. [NoRow EXCEPT !.here = TRUE, !.dir = d, !.link = l].stats = 0  BY Zenon DEF NoRow
      <4> QED  BY <2>2, <4>1, <4>2, Zenon DEF IfacesTypes
    <3>2. CASE DbModify(i)
      <4>1. PICK d \in Dirs, l \in BOOLEAN : db' = [db EXCEPT ![i].dir = d, ![i].link = l]
        BY <3>2, Zenon DEF DbModify
      <4>2. db[i] \in Rows /\ db[j] \in Rows  BY Zenon DEF IfacesTypes
      <4>3. db'[j].stats = db[j].stats /\ db'[j].here = db[j].here
        BY <4>1, <4>2, Zenon DEF IfacesTypes, Rows
      <4> QED  BY <2>2, <4>3, Zenon
    <3>3. CASE NbrWritten(i)
      <4>1. db[i] \in Rows /\ db[j] \in Rows  BY Zenon DEF IfacesTypes
      <4>2. db'[j].stats = db[j].stats /\ db'[j].here = db[j].here
        BY <3>3, <4>1, Zenon DEF NbrWritten, IfacesTypes, Rows
      <4> QED  BY <2>2, <4>2, Zenon
    <3>4. CASE Kernel(i)  BY <2>2, <3>4, Zenon DEF Kernel
    <3> QED  BY <1>1, <3>1, <3>2, <3>3, <3>4, Zenon
  <2> QED  BY <2>1, <2>2, RowsFromOutside, Zenon
<1>2. ASSUME NEW i \in Ifs, Count(i) PROVE CountersInv'
  <2>1. \A j \in Ifs : hw[j].cnt \in Nat /\ hw[j].cnt <= hw'[j].cnt /\ hw'[j].cnt \in Nat
    BY <1>2 DEF Count, IfacesTypes, Hws
  <2>2. \A j \in Ifs : db[j].stats \in Nat /\ (Carried(j) => txn.values[j] \in Nat)
    BY DEF IfacesTypes, Rows, Txns, Carried
  <2>3. UNCHANGED <<db, itf, txn, lost>>  BY <1>2, Zenon DEF Count
  <2>4. \A j \in Ifs : Carried(j)' = Carried(j)  BY <2>3, Zenon DEF Carried
  <2> QED  BY <2>1, <2>2, <2>3, <2>4 DEF CountersInv
<1>3. CASE TxnSucceeds
  <2>1. \A j \in Ifs : ~Carried(j)'  BY <1>3, Zenon DEF TxnSucceeds, Carried, IfacesTypes, Txns
  <2>2. UNCHANGED <<itf, hw, lost>> /\ db' = Written(txn)  BY <1>3, Zenon DEF TxnSucceeds
  <2>3. ASSUME NEW j \in Ifs \ lost, itf[j].synced, db'[j].here
        PROVE  db'[j].stats <= hw[j].cnt
    BY <2>2, <2>3, WrittenRows, Zenon DEF CountersInv, Carried
  <2> QED  BY <2>1, <2>2, <2>3, Zenon DEF CountersInv
<1>4. CASE TxnFails
  <2>1. \A j \in Ifs : ~Carried(j)'  BY <1>4, Zenon DEF TxnFails, Carried, IfacesTypes, Txns
  <2>2. UNCHANGED <<db, itf, hw, lost>>  BY <1>4, Zenon DEF TxnFails
  <2> QED  BY <2>1, <2>2, Zenon DEF CountersInv
<1>5. CASE UpdateLocalports
  BY <1>5, UpdateCounts, SetBackNoted, Zenon
<1>6. CASE ClearCounters
  <2>1. UNCHANGED <<db, txn>> /\ itf' = itf /\ lost' = lost \cup SetBack(itf', hw')
    BY <1>6, Zenon DEF ClearCounters
  <2> QED  BY <2>1, SetBackNoted, Zenon
<1>7. CASE Restart
  <2>1. \A j \in Ifs : ~Carried(j)' /\ ~itf'[j].synced
    BY <1>7, Zenon DEF Restart, Carried, NoTxn, NoItf
  <2> QED  BY <2>1, Zenon DEF CountersInv
<1>8. ASSUME NEW stats \in BOOLEAN, Run(stats) PROVE CountersInv'
  BY <1>8, RunKeepsCounters, Zenon
<1>9. CASE UNCHANGED ifaceVars
  BY <1>9, Zenon DEF ifaceVars, daemon, CountersInv, Carried
<1>10. ASSUME NEW i \in Ifs, DbDelete(i) PROVE CountersInv'
  <2>1. UNCHANGED <<itf, hw, lost>> /\ ~db'[i].here /\ \A j \in Ifs \ {i} : db'[j] = db[j]
    BY <1>10, Zenon DEF DbDelete, IfacesTypes, NoRow
  <2>2. \A j \in Ifs : Carried(j)' => j # i /\ Carried(j) /\ txn'.values[j] = txn.values[j]
    BY <1>10, DeletedTxn, Zenon DEF Carried
  <2> QED  BY <2>1, <2>2, Zenon DEF CountersInv
<1>11. CASE AgingSucceeds
  <2>1. UNCHANGED <<itf, hw, txn, lost>> /\ db' = Aged(aging)  BY <1>11, Zenon DEF AgingSucceeds
  <2>2. \A j \in Ifs : db'[j].here = db[j].here /\ (db'[j].stats = db[j].stats \/ db'[j].stats = 0)
    BY <2>1, AgedRows, Zenon
  <2>3. \A j \in Ifs : hw[j].cnt \in Nat /\ (Carried(j) => txn.values[j] \in Nat)
    BY DEF IfacesTypes, Hws, Txns, Carried
  <2>4. \A j \in Ifs : Carried(j)' = Carried(j)  BY <2>1, Zenon DEF Carried
  <2> QED  BY <2>1, <2>2, <2>3, <2>4 DEF CountersInv
<1>12. CASE AgingFails
  BY <1>12, Zenon DEF AgingFails, CountersInv, Carried
<1> QED
  BY <1>1, <1>2, <1>3, <1>4, <1>5, <1>6, <1>7, <1>8, <1>9, <1>10, <1>11, <1>12, Zenon DEF IfacesNext

\* Every step keeps the entries of the rows that are being aged.
LEMMA AgingStep ==
  IfacesTypes /\ AgingInv /\ [IfacesNext]_ifaceVars => AgingInv'
<1> SUFFICES ASSUME IfacesTypes, AgingInv, [IfacesNext]_ifaceVars PROVE AgingInv'
  BY Zenon
<1>0. aging \in SUBSET Ifs  BY Zenon DEF IfacesTypes
<1>1. ASSUME aging' \subseteq aging,
             \A i \in aging' : db'[i].here = db[i].here /\ db'[i].nbr = db[i].nbr
      PROVE  AgingInv'
  BY <1>1, Zenon DEF AgingInv
<1>2. ASSUME NEW i \in Ifs, DbInsert(i) PROVE AgingInv'
  <2>1. aging' = aging /\ ~db[i].here /\ \A j \in Ifs \ {i} : db'[j] = db[j]
    BY <1>2, Zenon DEF DbInsert, daemon, IfacesTypes
  <2>2. i \notin aging  BY <2>1, Zenon DEF AgingInv
  <2> QED  BY <1>0, <1>1, <2>1, <2>2, Zenon
<1>3. ASSUME NEW i \in Ifs, DbModify(i) PROVE AgingInv'
  <2>1. PICK d \in Dirs, l \in BOOLEAN : db' = [db EXCEPT ![i].dir = d, ![i].link = l]
    BY <1>3, Zenon DEF DbModify
  <2>2. \A j \in Ifs : db[j] \in Rows  BY Zenon DEF IfacesTypes
  <2>3. \A j \in Ifs : db'[j].here = db[j].here /\ db'[j].nbr = db[j].nbr
    BY <2>1, <2>2, Zenon DEF IfacesTypes, Rows
  <2>4. aging' = aging  BY <1>3, Zenon DEF DbModify, daemon
  <2> QED  BY <1>0, <1>1, <2>3, <2>4, Zenon
<1>4. ASSUME NEW i \in Ifs, DbDelete(i) PROVE AgingInv'
  <2>1. aging' = aging \ {i} /\ \A j \in Ifs \ {i} : db'[j] = db[j]
    BY <1>4, Zenon DEF DbDelete, IfacesTypes
  <2> QED  BY <1>0, <1>1, <2>1, Zenon
<1>5. ASSUME NEW i \in Ifs, NbrWritten(i) PROVE AgingInv'
  BY <1>5, Zenon DEF NbrWritten, daemon, AgingInv
<1>6. ASSUME aging' = {} PROVE AgingInv'
  BY <1>6, Zenon DEF AgingInv
<1>7. CASE TxnSucceeds
  BY <1>0, <1>1, <1>7, WrittenRows, Zenon DEF TxnSucceeds
<1>8. ASSUME db' = db, aging' = aging \/ aging' \subseteq {i \in Ifs : db[i].here /\ db[i].nbr}
      PROVE  AgingInv'
  BY <1>8, Zenon DEF AgingInv
<1>9. ASSUME NEW stats \in BOOLEAN, Run(stats) PROVE AgingInv'
  BY <1>8, <1>9, RunCounts, Zenon
<1>10. CASE UpdateLocalports
  BY <1>8, <1>10, UpdateCounts, Zenon
<1>11. ASSUME NEW i \in Ifs, Kernel(i) \/ Count(i) PROVE AgingInv'
  BY <1>8, <1>11, Zenon DEF Kernel, Count, daemon
<1>12. CASE TxnFails \/ ClearCounters \/ UNCHANGED ifaceVars
  BY <1>8, <1>12, Zenon DEF TxnFails, ClearCounters, ifaceVars, daemon
<1>13. CASE AgingSucceeds \/ AgingFails \/ Restart
  BY <1>6, <1>13, Zenon DEF AgingSucceeds, AgingFails, Restart
<1> QED
  BY <1>2, <1>3, <1>4, <1>5, <1>7, <1>9, <1>10, <1>11, <1>12, <1>13, Zenon DEF IfacesNext


\* No step takes the counter of a row back.
LEMMA RowsStep ==
  IfacesTypes /\ CountersInv /\ AgingInv /\ [IfacesNext]_ifaceVars => [RowsKept]_ifaceVars
<1> SUFFICES ASSUME IfacesTypes, CountersInv, AgingInv, IfacesNext PROVE RowsKept
  BY Zenon
<1>0. \A i \in Ifs : db[i].stats \in Nat  BY Zenon DEF IfacesTypes, Rows
<1>1. ASSUME NEW i \in Ifs, DbInsert(i) \/ DbDelete(i) PROVE RowsKept
  <2>1. ~db[i].here \/ ~db'[i].here
    <3>1. CASE DbInsert(i)  BY <3>1, Zenon DEF DbInsert
    <3>2. CASE DbDelete(i)
      <4>1. db' = [db EXCEPT ![i] = NoRow] /\ ~NoRow.here  BY <3>2, Zenon DEF DbDelete, NoRow
      <4> QED  BY <4>1, Zenon DEF IfacesTypes
    <3> QED  BY <1>1, <3>1, <3>2, Zenon
  <2>2. \A j \in Ifs \ {i} : db'[j] = db[j]
    BY <1>1, Zenon DEF DbInsert, DbDelete, IfacesTypes
  <2> QED  BY <1>0, <2>1, <2>2 DEF RowsKept
<1>2. ASSUME NEW i \in Ifs, DbModify(i) PROVE RowsKept
  <2>1. PICK d \in Dirs, l \in BOOLEAN : db' = [db EXCEPT ![i].dir = d, ![i].link = l]
    BY <1>2, Zenon DEF DbModify
  <2>2. \A j \in Ifs : db[j] \in Rows  BY Zenon DEF IfacesTypes
  <2>3. \A j \in Ifs : db'[j].stats = db[j].stats
    BY <2>1, <2>2, Zenon DEF IfacesTypes, Rows
  <2> QED  BY <1>0, <2>3 DEF RowsKept
<1>3. ASSUME db' = Written(txn) PROVE RowsKept
  BY <1>0, <1>3, WrittenRows DEF RowsKept, CountersInv, Carried
<1>4. ASSUME \A i \in Ifs : db'[i].stats = db[i].stats PROVE RowsKept
  BY <1>0, <1>4 DEF RowsKept
<1>5. ASSUME NEW i \in Ifs, Kernel(i) \/ Count(i) PROVE RowsKept
  BY <1>4, <1>5, Zenon DEF Kernel, Count
<1>8. ASSUME db' = Aged(aging) PROVE RowsKept
  <2>1. ASSUME NEW i \in Ifs, i \in aging PROVE AgedAway(i)
    BY <1>8, <2>1, AgedRows, Zenon DEF AgingInv, AgedAway
  <2>2. ASSUME NEW i \in Ifs, i \notin aging PROVE db'[i].stats = db[i].stats
    BY <1>8, <2>2, AgedRows, Zenon
  <2> QED  BY <1>0, <2>1, <2>2 DEF RowsKept
<1>6. CASE TxnSucceeds \/ TxnFails \/ AgingSucceeds \/ AgingFails \/ ClearCounters \/ Restart
  BY <1>3, <1>4, <1>6, <1>8, Zenon
     DEF TxnSucceeds, TxnFails, AgingSucceeds, AgingFails, ClearCounters, Restart
<1>9. ASSUME NEW i \in Ifs, NbrWritten(i) PROVE RowsKept
  <2>1. \A j \in Ifs : db'[j].stats = db[j].stats
    BY <1>9, Zenon DEF NbrWritten, IfacesTypes, Rows
  <2> QED  BY <1>4, <2>1, Zenon
<1>10. CASE UpdateLocalports
  BY <1>4, <1>10, UpdateCounts, Zenon
<1>7. ASSUME NEW stats \in BOOLEAN, Run(stats) PROVE RowsKept
  BY <1>4, <1>7, RunCounts, Zenon
<1> QED  BY <1>1, <1>2, <1>5, <1>6, <1>7, <1>9, <1>10, Zenon DEF IfacesNext

\* For any number of interfaces, indices, changes, failures and restarts, the
\* counters in the database never go back, except to zero with a neighbour entry
\* that ages out, unless this process set them back itself
\* (sync_lldp_counters_from_db, lldpd_stats_analyze, lldpd_ovsdb_nbrs_run).
THEOREM CountersNeverBack == IfacesSpec => CountersKept
<1>1. IfacesInit => IfacesTypes /\ CountersInv /\ AgingInv
  <2>1. IfacesInit => CountersInv /\ AgingInv
    BY DEF IfacesInit, CountersInv, AgingInv, Carried, NoItf, NoTxn
  <2> QED  BY <2>1, TypesInit, Zenon
<1>2. IfacesTypes /\ CountersInv /\ AgingInv /\ [IfacesNext]_ifaceVars
        => (IfacesTypes /\ CountersInv /\ AgingInv)'
  BY TypesStep, CountersStep, AgingStep, Zenon
<1>3. IfacesSpec => [][RowsKept]_ifaceVars
  BY <1>1, <1>2, RowsStep, PTL DEF IfacesSpec
<1> QED  BY <1>3, PTL DEF CountersKept, RowsKept

-----------------------------------------------------------------------------
\* The hash and the configuration.

\* An interface comes back with another index only after the daemon has seen
\* that it was gone. Without it the two properties do not hold:
\* lldpd_update_localports then adds the new hardware before it removes the old
\* one, and the removal takes the entry of the new one away.
Noticed == \A i \in Ifs : kern[i] # 0 /\ hw[i].index # 0 => kern[i] = hw[i].index

Exact(p) == (p.itf.here <=> p.itf.row \/ p.itf.hw # 0) /\ p.itf.hw = p.hw.index

Bears(p, r) == p.itf.row /\ p.hw.index # 0 => p.hw.dir = r.dir /\ p.hw.link = r.link

\* lldpd_update_localports keeps an exact entry exact and configured.
LEMMA LocalportsExact ==
  ASSUME NEW p \in PortStates, NEW r \in Rows, NEW index \in Indices \cup {0},
         NEW ok \in BOOLEAN, Exact(p), index # 0 /\ p.hw.index # 0 => index = p.hw.index
  PROVE  LET q == Localports(p, r, index, ok) IN
         Exact(q) /\ (Bears(p, r) => Bears(q, r))
<1> DEFINE k == IF ok \/ p.hw.index = index THEN index ELSE 0
<1>0. k \in {0, index} /\ (k # 0 /\ p.hw.index # 0 => k = p.hw.index)  BY Zenon
<1>1. p.itf \in Itfs /\ p.hw \in Hws  BY Zenon DEF PortStates
<1>2. CASE p.hw.index = k
  BY <1>2, Zenon DEF Localports, Pair, Exact, Bears
<1>3. CASE p.hw.index = 0 /\ k # 0
  <2>1. Localports(p, r, index, ok) = [itf |-> WithHw(p.itf, k), hw |-> NewHw(p.itf, r, k)]
    BY <1>3, Zenon DEF Localports, Pair
  <2>2. /\ WithHw(p.itf, k).here /\ WithHw(p.itf, k).hw = k
        /\ WithHw(p.itf, k).row = p.itf.row
    BY <1>1, Zenon DEF WithHw, Itfs
  <2>3. NewHw(p.itf, r, k).index = k  BY Zenon DEF NewHw
  <2>4. p.itf.row => NewHw(p.itf, r, k).dir = r.dir /\ NewHw(p.itf, r, k).link = r.link
    BY Zenon DEF NewHw, Rows
  <2> QED  BY <1>3, <2>1, <2>2, <2>3, <2>4 DEF Exact, Bears
<1>4. CASE p.hw.index # 0 /\ k = 0
  <2>1. Localports(p, r, index, ok) = [itf |-> WithoutHw(p.itf), hw |-> NoHw]
    BY <1>4, Zenon DEF Localports, Pair
  <2>2. /\ WithoutHw(p.itf).here <=> WithoutHw(p.itf).row
        /\ WithoutHw(p.itf).hw = 0
    BY <1>1, <1>4, Zenon DEF WithoutHw, Itfs, NoItf, Exact
  <2> QED  BY <1>4, <2>1, <2>2 DEF Exact, Bears, NoHw
<1> QED  BY <1>0, <1>2, <1>3, <1>4, Zenon

\* lldpd_reset leaves an exact entry without hardware.
LEMMA ResetExact ==
  ASSUME NEW p \in PortStates, Exact(p)
  PROVE  Exact(Reset(p)) /\ Reset(p).hw.index = 0
<1>1. p.itf \in Itfs  BY Zenon DEF PortStates
<1>2. (WithoutHw(p.itf).here <=> WithoutHw(p.itf).row) /\ WithoutHw(p.itf).hw = 0
  BY <1>1, Zenon DEF WithoutHw, Itfs, NoItf, Exact
<1> QED  BY <1>2, Zenon DEF Reset, Pair, Exact, NoHw

\* Linking the rows keeps the entries exact.
LEMMA LinkedExact ==
  ASSUME IfacesTypes, NEW i \in Ifs, Exact(Pair(itf[i], hw[i]))
  PROVE  Exact(Linked(i)) /\ Linked(i).hw = hw[i] /\ Linked(i).itf.hw = itf[i].hw
<1>1. itf[i] \in Itfs /\ db[i].here \in BOOLEAN  BY Zenon DEF IfacesTypes, Rows
<1>2. itf[i].hw = hw[i].index /\ (itf[i].here <=> itf[i].row \/ itf[i].hw # 0)
  BY Zenon DEF Exact, Pair
<1>3. WithRow(itf[i]).here /\ WithRow(itf[i]).row /\ WithRow(itf[i]).hw = itf[i].hw
  BY <1>1, Zenon DEF WithRow, Itfs
<1>4. /\ WithoutRow(itf[i]).here <=> itf[i].hw # 0
      /\ ~WithoutRow(itf[i]).row /\ WithoutRow(itf[i]).hw = itf[i].hw
  BY <1>1, <1>2, Zenon DEF WithoutRow, Itfs, NoItf
<1> QED  BY <1>1, <1>2, <1>3, <1>4, Zenon DEF Linked, Pair, Exact

HashInv == IfacesTypes /\ HashExact /\ ConfigApplied

\* After handle_interfaces_config_mods an entry is exact, and its hardware has
\* the configuration of the row, in whatever order the interfaces are visited.
LEMMA AppliedExact ==
  ASSUME HashInv, Noticed, NEW i \in Ifs, NEW first, NEW ok \in BOOLEAN
  PROVE  Exact(Applied(i, first, ok)) /\ Bears(Applied(i, first, ok), db[i])
<1> DEFINE p == Linked(i)
           updated == Localports(p, db[i], kern[i], ok)
<1>0. IfacesTypes  BY Zenon DEF HashInv
<1>1. db[i] \in Rows /\ idl[i] \in Rows /\ kern[i] \in Indices \cup {0} /\ hw[i] \in Hws
  BY <1>0, Zenon DEF IfacesTypes
<1>2. Exact(Pair(itf[i], hw[i]))  BY Zenon DEF HashInv, HashExact, Exact, Pair
<1>3. /\ p \in PortStates /\ p.itf.row = db[i].here
      /\ Exact(p) /\ p.hw = hw[i] /\ p.itf.hw = itf[i].hw
  BY <1>0, <1>2, LinkedExact, LinkedKeeps, Zenon
<1>4. ~Modified(i) => Bears(p, db[i])
  <2> SUFFICES ASSUME ~Modified(i), db[i].here, hw[i].index # 0
               PROVE  hw[i].dir = db[i].dir /\ hw[i].link = db[i].link
    BY <1>3, Zenon DEF Bears
  <2>1. db[i].here = idl[i].here /\ db[i].dir = idl[i].dir /\ db[i].link = idl[i].link
    BY Zenon DEF Modified
  <2> QED  BY <2>1, Zenon DEF HashInv, ConfigApplied
<1>5. kern[i] # 0 /\ p.hw.index # 0 => kern[i] = p.hw.index
  BY <1>3, Zenon DEF Noticed
<1> HIDE DEF p
<1>6. /\ updated \in PortStates /\ updated.itf.row = p.itf.row
      /\ Exact(updated)
      /\ Bears(p, db[i]) => Bears(updated, db[i])
  BY <1>1, <1>3, <1>5, LocalportsKeeps, LocalportsExact
<1> HIDE DEF updated
<1>7. ASSUME NEW q \in {p, updated}
      PROVE  Exact(Configured(q, db[i])) /\ Bears(Configured(q, db[i]), db[i])
  <2>1. q \in PortStates /\ Exact(q)  BY <1>3, <1>6, Zenon
  <2> QED  BY <1>1, <2>1, ConfiguredKeeps, Zenon DEF Exact, Bears
<1>8. ASSUME NEW q \in {p, updated}
      PROVE  /\ Exact(Localports(Reset(q), db[i], kern[i], ok))
             /\ Bears(Localports(Reset(q), db[i], kern[i], ok), db[i])
  <2>1. q \in PortStates /\ Exact(q)  BY <1>3, <1>6, Zenon
  <2>2. Reset(q) \in PortStates /\ Exact(Reset(q)) /\ Reset(q).hw.index = 0
    BY <2>1, ResetKeeps, ResetExact, Zenon
  <2>3. Bears(Reset(q), db[i])  BY <2>2, Zenon DEF Bears
  <2> QED  BY <1>1, <2>2, <2>3, LocalportsExact, Zenon
<1>9. \/ ~Modified(i) /\ Applied(i, first, ok) \in {p, updated}
      \/ Applied(i, first, ok) \in {Configured(q, db[i]) : q \in {p, updated}}
      \/ Applied(i, first, ok) \in {Localports(Reset(q), db[i], kern[i], ok) : q \in {p, updated}}
  BY Zenon DEF Applied, p, updated
<1> QED  BY <1>3, <1>4, <1>6, <1>7, <1>8, <1>9, Zenon

\* lldpd_run leaves every entry exact and every hardware configured.
LEMMA RunExact ==
  ASSUME HashInv, Noticed, NEW stats \in BOOLEAN, Run(stats)
  PROVE  HashExact' /\ ConfigApplied'
<1>0. PICK first \in Firsts : \E bad \in Failures(first), old \in SUBSET WithNbr :
        RunWith(stats, first, bad, old)
  BY Zenon DEF Run
<1>1. PICK bad \in Failures(first), old \in SUBSET WithNbr : RunWith(stats, first, bad, old)
  BY <1>0, Zenon
<1> SUFFICES ASSUME NEW i \in Ifs
             PROVE  /\ itf'[i].here <=> itf'[i].row \/ itf'[i].hw # 0
                    /\ itf'[i].row <=> idl'[i].here
                    /\ itf'[i].hw = hw'[i].index
                    /\ idl'[i].here /\ hw'[i].index # 0 =>
                         hw'[i].dir = idl'[i].dir /\ hw'[i].link = idl'[i].link
  BY Zenon DEF HashExact, ConfigApplied
<1> DEFINE a == Applied(i, first, i \notin bad)
<1>2. a \in PortStates /\ a.itf.row = db[i].here
  BY AppliedKeeps, Zenon DEF HashInv
<1>3. Exact(a) /\ Bears(a, db[i])  BY AppliedExact, Zenon
<1>4. /\ itf'[i] = a.itf \/ itf'[i] = [a.itf EXCEPT !.synced = TRUE]
      /\ hw'[i] = a.hw \/ hw'[i] = Synced(a.hw, db[i])
      /\ idl'[i] = db[i]
  BY <1>1, Zenon DEF RunWith
<1> HIDE DEF a
<1>5. a.itf \in Itfs /\ a.hw \in Hws  BY <1>2, Zenon DEF PortStates
<1>6. itf'[i].here = a.itf.here /\ itf'[i].row = a.itf.row /\ itf'[i].hw = a.itf.hw
  BY <1>4, <1>5, Zenon DEF Itfs
<1>7. hw'[i].index = a.hw.index /\ hw'[i].dir = a.hw.dir /\ hw'[i].link = a.hw.link
  BY <1>4, <1>5, Zenon DEF Hws, Synced
<1> QED  BY <1>2, <1>3, <1>4, <1>6, <1>7, Zenon DEF Exact, Bears

\* Every step from a state in which no new index is unnoticed keeps the hash
\* exact and the hardware configured.
LEMMA HashStep ==
  HashInv /\ Noticed /\ [IfacesNext]_ifaceVars => HashExact' /\ ConfigApplied'
<1> SUFFICES ASSUME HashInv, Noticed, [IfacesNext]_ifaceVars
             PROVE  HashExact' /\ ConfigApplied'
  BY Zenon
<1>1. ASSUME UNCHANGED <<idl, itf, hw>> PROVE HashExact' /\ ConfigApplied'
  BY <1>1, Zenon DEF HashInv, HashExact, ConfigApplied
<1>2. ASSUME NEW i \in Ifs, DbInsert(i) \/ DbModify(i) \/ DbDelete(i) \/ NbrWritten(i) \/ Kernel(i)
      PROVE  HashExact' /\ ConfigApplied'
  BY <1>1, <1>2, Zenon DEF DbInsert, DbModify, DbDelete, NbrWritten, Kernel, daemon
<1>3. CASE TxnSucceeds \/ TxnFails \/ AgingSucceeds \/ AgingFails
  BY <1>1, <1>3, Zenon DEF TxnSucceeds, TxnFails, AgingSucceeds, AgingFails
<1>4. ASSUME UNCHANGED <<idl, itf>>,
             \A j \in Ifs : hw'[j].index = hw[j].index /\ hw'[j].dir = hw[j].dir /\ hw'[j].link = hw[j].link
      PROVE  HashExact' /\ ConfigApplied'
  BY <1>4, Zenon DEF HashInv, HashExact, ConfigApplied
<1>5. ASSUME NEW i \in Ifs, Count(i) PROVE HashExact' /\ ConfigApplied'
  <2>1. \A j \in Ifs : hw'[j].index = hw[j].index /\ hw'[j].dir = hw[j].dir /\ hw'[j].link = hw[j].link
    BY <1>5, Zenon DEF Count, HashInv, IfacesTypes, Hws
  <2> QED  BY <1>4, <1>5, <2>1, Zenon DEF Count
<1>6. CASE ClearCounters
  <2>1. \A j \in Ifs : hw'[j].index = hw[j].index /\ hw'[j].dir = hw[j].dir /\ hw'[j].link = hw[j].link
    BY <1>6, Zenon DEF ClearCounters, HashInv, IfacesTypes, Hws
  <2> QED  BY <1>4, <1>6, <2>1, Zenon DEF ClearCounters
<1>7. CASE UpdateLocalports
  <2> SUFFICES ASSUME NEW i \in Ifs
               PROVE  /\ itf'[i].here <=> itf'[i].row \/ itf'[i].hw # 0
                      /\ itf'[i].row <=> idl'[i].here
                      /\ itf'[i].hw = hw'[i].index
                      /\ idl'[i].here /\ hw'[i].index # 0 =>
                           hw'[i].dir = idl'[i].dir /\ hw'[i].link = idl'[i].link
    BY Zenon DEF HashExact, ConfigApplied
  <2>0. PICK bad :
          LET after == [j \in Ifs |-> Localports(Pair(itf[j], hw[j]), idl[j], kern[j], j \notin bad)]
          IN /\ itf' = [j \in Ifs |-> after[j].itf]
             /\ hw' = [j \in Ifs |-> after[j].hw]
             /\ idl' = idl
    BY <1>7, Zenon DEF UpdateLocalports
  <2> DEFINE p == Pair(itf[i], hw[i])
             ok == i \notin bad
             q == Localports(p, idl[i], kern[i], ok)
  <2>1. /\ p \in PortStates /\ p.itf = itf[i] /\ p.hw = hw[i]
        /\ idl[i] \in Rows /\ kern[i] \in Indices \cup {0}
    BY Zenon DEF HashInv, IfacesTypes, Pair, PortStates
  <2>2. itf'[i] = q.itf /\ hw'[i] = q.hw /\ idl' = idl /\ ok \in BOOLEAN
    BY <2>0, Zenon
  <2> HIDE DEF ok
  <2> HIDE DEF p
  <2>3. Exact(p) /\ Bears(p, idl[i])
    BY <2>1, Zenon DEF HashInv, HashExact, ConfigApplied, Exact, Bears
  <2>4. kern[i] # 0 /\ p.hw.index # 0 => kern[i] = p.hw.index
    BY <2>1, Zenon DEF Noticed
  <2>5. Exact(q) /\ Bears(q, idl[i]) /\ q.itf.row = p.itf.row
    BY <2>1, <2>2, <2>3, <2>4, LocalportsExact, LocalportsKeeps
  <2>6. itf[i].row <=> idl[i].here  BY Zenon DEF HashInv, HashExact
  <2> HIDE DEF q
  <2> QED  BY <2>1, <2>2, <2>5, <2>6, Zenon DEF Exact, Bears
<1>8. CASE Restart
  BY <1>8, Zenon DEF Restart, HashExact, ConfigApplied, NoItf, NoHw, NoRow
<1>9. ASSUME NEW stats \in BOOLEAN, Run(stats) PROVE HashExact' /\ ConfigApplied'
  BY <1>9, RunExact, Zenon
<1>10. CASE UNCHANGED ifaceVars
  BY <1>1, <1>10, Zenon DEF ifaceVars, daemon
<1> QED  BY <1>2, <1>3, <1>5, <1>6, <1>7, <1>8, <1>9, <1>10, Zenon DEF IfacesNext

\* The two properties hold together: the hardware is configured through the
\* entry that leads to it.
LEMMA HashAlways == IfacesSpec /\ []Noticed => []HashInv
<1>1. IfacesInit => HashInv
  <2>1. IfacesInit => HashExact /\ ConfigApplied
    BY DEF IfacesInit, HashExact, ConfigApplied, NoItf, NoHw, NoRow
  <2> QED  BY <2>1, TypesInit, Zenon DEF HashInv
<1>2. HashInv /\ Noticed /\ [IfacesNext]_ifaceVars => HashInv'
  BY HashStep, TypesStep, Zenon DEF HashInv
<1> QED  BY <1>1, <1>2, PTL DEF IfacesSpec

\* For any number of interfaces and any order in which rows and interfaces come
\* and go, an entry of all_interfaces exists exactly as long as its row or its
\* hardware does and leads to exactly those, as long as no interface comes back
\* under another index before the daemon has noticed that it was gone
\* (del_old_db_interface, del_lldpd_hardware_interface).
THEOREM HashStaysExact == IfacesSpec /\ []Noticed => []HashExact
BY HashAlways, PTL DEF HashInv

\* Under the same condition a hardware with a row always has the configuration
\* of the row, whichever of them was there first and whatever was reset in
\* between (handle_interfaces_config_mods, add_lldpd_hardware_interface).
THEOREM ConfigStaysApplied == IfacesSpec /\ []Noticed => []ConfigApplied
BY HashAlways, PTL DEF HashInv

\* The condition is met when every interface that comes back has the index it
\* had before, whatever the indices of the others: a hardware only ever has an
\* index the kernel gave its interface (interfaces_helper_physical).
THEOREM KeptIndexNoticed ==
  ASSUME NEW own \in [Ifs -> Indices]
  PROVE  IfacesSpec /\ [](\A i \in Ifs : kern[i] \in {0, own[i]}) => []Noticed
<1> DEFINE Kept == \A i \in Ifs : kern[i] \in {0, own[i]}
           Had == \A i \in Ifs : hw[i].index \in {0, own[i]}
<1>1. IfacesInit => IfacesTypes /\ Had
  <2>1. NoHw.index = 0  BY Zenon DEF NoHw
  <2> QED  BY <2>1, TypesInit, Zenon DEF IfacesInit
<1>2. ASSUME IfacesTypes, Had, Kept, [IfacesNext]_ifaceVars PROVE Had'
  <2>1. ASSUME \A i \in Ifs : hw'[i].index \in {0, hw[i].index, kern[i]} PROVE Had'
    BY <1>2, <2>1, Zenon
  <2>2. ASSUME \A i \in Ifs : hw'[i].index = hw[i].index PROVE Had'
    BY <1>2, <2>2, Zenon
  <2>3. ASSUME NEW i \in Ifs,
               \/ DbInsert(i) \/ DbModify(i) \/ DbDelete(i) \/ NbrWritten(i) \/ Kernel(i)
        PROVE  Had'
    BY <2>2, <2>3, Zenon DEF DbInsert, DbModify, DbDelete, NbrWritten, Kernel, daemon
  <2>4. CASE TxnSucceeds \/ TxnFails \/ AgingSucceeds \/ AgingFails
    BY <2>2, <2>4, Zenon DEF TxnSucceeds, TxnFails, AgingSucceeds, AgingFails
  <2>5. ASSUME NEW i \in Ifs, Count(i) PROVE Had'
    <3>1. \A j \in Ifs : hw'[j].index = hw[j].index
      BY <1>2, <2>5, Zenon DEF Count, IfacesTypes, Hws
    <3> QED  BY <2>2, <3>1, Zenon
  <2>6. CASE ClearCounters
    <3>1. \A j \in Ifs : hw'[j].index = hw[j].index
      BY <1>2, <2>6, Zenon DEF ClearCounters, IfacesTypes, Hws
    <3> QED  BY <2>2, <3>1, Zenon
  <2>7. CASE UpdateLocalports
    BY <1>2, <2>1, <2>7, UpdateCounts, Zenon
  <2>8. CASE Restart
    BY <2>8, Zenon DEF Restart, NoHw
  <2>9. ASSUME NEW stats \in BOOLEAN, Run(stats) PROVE Had'
    BY <1>2, <2>1, <2>9, RunCounts, Zenon
  <2>10. CASE UNCHANGED ifaceVars
    BY <2>2, <2>10, Zenon DEF ifaceVars, daemon
  <2> QED
    BY <1>2, <2>3, <2>4, <2>5, <2>6, <2>7, <2>8, <2>9, <2>10, Zenon DEF IfacesNext
<1>3. Had /\ Kept => Noticed
  BY Zenon DEF Noticed
<1>4. IfacesTypes /\ Had /\ Kept /\ [IfacesNext]_ifaceVars => (IfacesTypes /\ Had)'
  BY <1>2, TypesStep, Zenon
<1> QED  BY <1>1, <1>3, <1>4, PTL DEF IfacesSpec

-----------------------------------------------------------------------------
(* The plug-in of the SNMP daemon.                                         *)

IsFunction(f) == f = [x \in DOMAIN f |-> f[x]]

\* The rows in a valid cache are what one load gave at the time the cache holds,
\* and the past has the replica of then as well as the present one. MibRecent
\* alone says nothing about a cache nobody asks.
CacheInv ==
  /\ table \in Tables
  /\ clock \in Nat /\ cache.at \in Nat
  /\ <<clock, replica>> \in past
  /\ \A p \in past : p[1] \in Nat /\ p[1] <= clock
  /\ cache.valid => \E p \in past : p[1] = cache.at /\ cache.rows \in Loads(table, p[2])
  /\ MibRecent

----------------------------------------------------------------------------
(* Containers.                                                             *)

\* Loading an empty container, the one _cache_free leaves, gives what is loaded.
LEMMA LoadIntoEmpty ==
  ASSUME NEW new, IsFunction(new)
  PROVE  Inserted(NoRows, new) = new
BY Zenon DEF IsFunction, NoRows, Inserted

\* container_load of every table makes a function from indexes to rows.
LEMMA LoadsFunctions ==
  \A r, t : t \in Tables => \A rows \in Loads(t, r) : IsFunction(rows)
<1> SUFFICES ASSUME NEW r, NEW t \in Tables, NEW rows \in Loads(t, r)
             PROVE  IsFunction(rows)
  BY Zenon
<1>1. CASE t = "Rem"
  <2>1. rows \in RemTable(r)
    BY <1>1, Zenon DEF Loads
  <2> QED  BY <2>1, Zenon DEF RemTable, IfLoad, IsFunction
<1>2. CASE t = "RemUnknownTLV"
  <2>1. rows \in RemUnknownTLVTable(r)
    BY <1>2, Zenon DEF Loads
  <2> QED  BY <2>1, Zenon DEF RemUnknownTLVTable, IfLoad, IsFunction
<1>3. CASE t = "RemManAddr"
  <2>1. rows \in RemManAddrTable(r)
    BY <1>3, Zenon DEF Loads
  <2> QED  BY <2>1, Zenon DEF RemManAddrTable, IfLoad, IsFunction
<1>4. CASE t = "RemOrgDefInfo"
  <2>1. rows \in RemOrgDefInfoTable(r)
    BY <1>4, Zenon DEF Loads
  <2> QED  BY <2>1, Zenon DEF RemOrgDefInfoTable, IfLoad, IsFunction
<1>5. CASE t = "LocPort"
  <2>1. rows \in LocPortTable(r)
    BY <1>5, Zenon DEF Loads
  <2> QED  BY <2>1, Zenon DEF LocPortTable, IfLoad, IsFunction
<1>6. CASE t = "StatsTxPort"
  <2>1. rows \in StatsTxPortTable(r)
    BY <1>6, Zenon DEF Loads
  <2> QED  BY <2>1, Zenon DEF StatsTxPortTable, IfLoad, IsFunction
<1>7. CASE t = "StatsRxPort"
  <2>1. rows \in StatsRxPortTable(r)
    BY <1>7, Zenon DEF Loads
  <2> QED  BY <2>1, Zenon DEF StatsRxPortTable, IfLoad, IsFunction
<1>8. CASE t = "LocManAddr"
  <2>1. rows \in LocManAddrTable(r)
    BY <1>8, Zenon DEF Loads
  <2> QED  BY <2>1, Zenon DEF LocManAddrTable, SystemLoad, IsFunction
<1>9. CASE t = "ConfigManAddr"
  <2>1. rows \in ConfigManAddrTable(r)
    BY <1>9, Zenon DEF Loads
  <2> QED  BY <2>1, Zenon DEF ConfigManAddrTable, SystemLoad, IsFunction
<1>10. CASE t = "PortConfig"
  <2>1. rows \in PortConfigTable(r)
    BY <1>10, Zenon DEF Loads
  <2> QED  BY <2>1, Zenon DEF PortConfigTable, IsFunction
<1> QED  BY <1>1, <1>2, <1>3, <1>4, <1>5, <1>6, <1>7, <1>8, <1>9, <1>10, Zenon DEF Tables

----------------------------------------------------------------------------
(* Requests.                                                               *)

\* The cache a request meets: valid, it holds one load of a replica that is young
\* enough; not valid, the table cannot be loaded now and nothing is left in it.
LEMMA RefreshedCache ==
  ASSUME CacheInv, NEW c \in Refreshed
  PROVE  /\ c.at \in Nat
         /\ \/ /\ c.valid
               /\ \E p \in past : /\ p[1] = c.at /\ clock - CacheTimeout < p[1]
                                  /\ c.rows \in Loads(table, p[2])
            \/ ~c.valid /\ c.rows = NoRows /\ Loads(table, replica) = {}
<1>1. CASE Fresh
  <2>1. c = cache
    BY <1>1, Zenon DEF Refreshed
  <2>2. PICK p \in past : p[1] = cache.at /\ cache.rows \in Loads(table, p[2])
    BY <1>1, Zenon DEF CacheInv, Fresh
  <2>3. clock - CacheTimeout < cache.at
    BY <1>1, SnmpAssumption DEF CacheInv, Fresh
  <2> QED  BY <1>1, <2>1, <2>2, <2>3, Zenon DEF CacheInv, Fresh
<1>2. CASE ~Fresh /\ Loads(table, replica) = {}
  <2>1. c = [rows |-> NoRows, at |-> clock, valid |-> FALSE]
    BY <1>2, Zenon DEF Refreshed, CacheFree
  <2> QED  BY <1>2, <2>1, Zenon DEF CacheInv
<1>3. CASE ~Fresh /\ Loads(table, replica) # {}
  <2>1. PICK new \in Loads(table, replica) : c = [rows |-> Inserted(NoRows, new), at |-> clock, valid |-> TRUE]
    BY <1>3, Zenon DEF Refreshed, CacheFree
  <2>2. Inserted(NoRows, new) = new
    BY LoadsFunctions, LoadIntoEmpty, Zenon DEF CacheInv
  <2>3. clock - CacheTimeout < clock
    BY SnmpAssumption DEF CacheInv
  <2>4. /\ <<clock, replica>> \in past
        /\ <<clock, replica>>[1] = clock /\ <<clock, replica>>[2] = replica
    BY Zenon DEF CacheInv
  <2> QED  BY <2>1, <2>2, <2>3, <2>4, Zenon DEF CacheInv
<1> QED  BY <1>1, <1>2, <1>3, Zenon

\* A request answers from the cache it left, and that cache is recent.
LEMMA GetKeeps ==
  ASSUME CacheInv, NEW x, Get(x)
  PROVE  CacheInv'
<1>1. PICK c \in Refreshed :
        /\ cache' = c
        /\ answer' = [table |-> table, index |-> x, row |-> Lookup(table, c.rows, x)]
  BY Zenon DEF Get
<1>2. UNCHANGED <<replica, table, clock, past>>
  BY Zenon DEF Get
<1>3. /\ answer'.table = table /\ answer'.index = x
      /\ answer'.row = Lookup(table, c.rows, x)
  BY <1>1, Zenon
<1>4. CASE c.valid
  <2>1. PICK p \in past : /\ p[1] = c.at /\ clock - CacheTimeout < p[1]
                          /\ c.rows \in Loads(table, p[2])
    BY <1>4, RefreshedCache, Zenon
  <2>2. p[1] <= clock
    BY Zenon DEF CacheInv
  <2>3. MibRecent'
    BY <1>2, <1>3, <2>1, <2>2, Zenon DEF MibRecent
  <2>4. c.at \in Nat
    BY RefreshedCache, Zenon
  <2> QED  BY <1>1, <1>2, <2>1, <2>3, <2>4, Zenon DEF CacheInv
<1>5. CASE ~c.valid
  <2>1. c.rows = NoRows /\ Loads(table, replica) = {} /\ c.at \in Nat
    BY <1>5, RefreshedCache, Zenon
  <2>2. answer'.row = Absent
    BY <1>3, <2>1, Zenon DEF Lookup, NoRows
  <2>3. clock - CacheTimeout < clock /\ clock <= clock
    BY SnmpAssumption DEF CacheInv
  <2>4. /\ <<clock, replica>> \in past
        /\ <<clock, replica>>[1] = clock /\ <<clock, replica>>[2] = replica
    BY Zenon DEF CacheInv
  <2>5. MibRecent'
    BY <1>2, <1>3, <2>1, <2>2, <2>3, <2>4, Zenon DEF MibRecent
  <2> QED  BY <1>1, <1>2, <1>5, <2>1, <2>5, Zenon DEF CacheInv
<1> QED  BY <1>4, <1>5, Zenon

\* A step that gives no answer from a table may only add to the past.
LEMMA QuietKeeps ==
  ASSUME CacheInv, UNCHANGED <<table, cache>>,
         answer' = Absent \/ answer'.table \notin Tables,
         past \subseteq past', <<clock, replica>>' \in past',
         clock' \in Nat, clock <= clock',
         \A p \in past' : p \in past \/ p = <<clock, replica>>'
  PROVE  CacheInv'
<1>1. MibRecent'
  BY Zenon DEF MibRecent
<1>2. \A p \in past' : p[1] \in Nat /\ p[1] <= clock'
  <2> SUFFICES ASSUME NEW p \in past'
               PROVE  p[1] \in Nat /\ p[1] <= clock'
    BY Zenon
  <2>1. CASE p \in past
    BY <2>1 DEF CacheInv
  <2>2. CASE p = <<clock, replica>>'
    BY <2>2
  <2> QED  BY <2>1, <2>2, Zenon
<1>3. (cache.valid => \E p \in past : p[1] = cache.at /\ cache.rows \in Loads(table, p[2]))'
  BY Zenon DEF CacheInv
<1> QED  BY <1>1, <1>2, <1>3, Zenon DEF CacheInv

LEMMA CacheStep == CacheInv /\ [TablesNext]_tableVars => CacheInv'
<1> SUFFICES ASSUME CacheInv, [TablesNext]_tableVars
             PROVE  CacheInv'
  BY Zenon
<1>1. CASE Writes
  <2>1. answer' = Absent /\ UNCHANGED <<replica, table, cache, clock, past>>
    BY <1>1, Zenon DEF Writes, Write
  <2> QED  BY <2>1, QuietKeeps, Zenon DEF CacheInv
<1>2. CASE IdlRun
  BY <1>2, QuietKeeps, Zenon DEF IdlRun, CacheInv
<1>3. CASE Tick
  BY <1>3, QuietKeeps DEF Tick, CacheInv
<1>4. CASE \E x \in Indexes : Get(x)
  BY <1>4, GetKeeps, Zenon
<1>5. CASE \E k \in ScalarKeys : GetScalar(k)
  <2>1. answer'.table = "scalars" /\ UNCHANGED <<replica, table, cache, clock, past>>
    BY <1>5 DEF GetScalar
  <2>2. answer'.table \notin Tables
    BY <2>1, Zenon DEF Tables
  <2> QED  BY <2>1, <2>2, QuietKeeps, Zenon DEF CacheInv
<1>6. CASE UNCHANGED tableVars
  BY <1>6, Zenon DEF tableVars, CacheInv, MibRecent
<1> QED  BY <1>1, <1>2, <1>3, <1>4, <1>5, <1>6, Zenon DEF TablesNext

\* What the plug-in of the SNMP daemon answers for a table is what loading it from
\* the replica gave less than the time of the cache ago, for every table, time of
\* the cache and sequence of writes, although loads fail and rows come and go.
THEOREM AnswersRecent == TablesSpec => []MibRecent
<1>1. TablesInit => CacheInv
  <2> SUFFICES ASSUME TablesInit PROVE CacheInv
    BY Zenon
  <2>1. MibRecent
    BY Zenon DEF TablesInit, MibRecent
  <2>2. /\ table \in Tables /\ clock = 0 /\ cache.at = 0 /\ ~cache.valid
        /\ past = {<<0, replica>>}
    BY Zenon DEF TablesInit
  <2> QED  BY <2>1, <2>2 DEF CacheInv
<1>2. CacheInv => MibRecent
  BY Zenon DEF CacheInv
<1> QED  BY <1>1, <1>2, CacheStep, PTL DEF TablesSpec

----------------------------------------------------------------------------
(* Notifications.                                                          *)

\* A receiver that has had its turn.
Served(k) ==
  /\ fate[k].failed # "waiting"
  /\ fate[k].failed = "no" <=> told[k] = round
  /\ fate[k].leaked => \/ Receivers[k].version = "v1" /\ fate[k].failed = "version"
                       \/ Receivers[k].type = "inform" /\ fate[k].failed = "variables"

\* What the local variables say when a turn ends.
EndOK ==
  /\ turn.failed # "waiting"
  /\ turn.failed = "no" <=> told[turn.row] = round
  /\ turn.failed = "no" => ~turn.pdu
  /\ turn.pdu /\ turn.status = 0 => Receivers[turn.row].version = "v1" /\ turn.failed = "version"
  /\ turn.pdu /\ turn.inform => Receivers[turn.row].type = "inform" /\ turn.failed = "variables"

\* Where a turn stands: the receiver is told nothing before it is sent.
TurnOK ==
  /\ turn.at # "cleanup" => /\ turn.failed = "no" /\ turn.status = 0 /\ told[turn.row] < round
                            /\ turn.inform => Receivers[turn.row].type = "inform"
                            /\ turn.at = "version" => ~turn.inform
  /\ turn.at = "cleanup" => EndOK

TurnSet ==
  [row : 0..Len(Receivers), at : {"version", "variables", "send", "cleanup"}, pdu : BOOLEAN, status : {-1, 0, 1},
   inform : BOOLEAN, failed : {"no", "version", "variables", "send"}]

FateSet == [failed : {"waiting", "no", "version", "variables", "send"}, leaked : BOOLEAN]

\* The receivers before the turn are served, those after it know less.
TrapInv ==
  /\ round \in Nat
  /\ turn \in TurnSet
  /\ told \in [1..Len(Receivers) -> Nat]
  /\ fate \in [1..Len(Receivers) -> FateSet]
  /\ \A k \in 1..Len(Receivers) : told[k] <= round
  /\ turn.row > 0 => TurnOK
  /\ turn.row > 0 => \A k \in 1..Len(Receivers) : k < turn.row => Served(k)
  /\ turn.row > 0 => \A k \in 1..Len(Receivers) : k > turn.row => told[k] < round
  /\ (turn.row = 0 /\ round > 0) => \A k \in 1..Len(Receivers) : Served(k)

LEMMA ReceiversSeq == Len(Receivers) \in Nat /\ DOMAIN Receivers = 1..Len(Receivers)
  BY ReceiversAssumption, SMT

\* A step of the turn that sends nothing: it is enough to look at the turn.
LEMMA TurnStep ==
  ASSUME TrapInv, UNCHANGED <<round, told, fate>>, turn.row > 0,
         turn' \in TurnSet,
         turn'.row = turn.row, TurnOK'
  PROVE  TrapInv'
<1> USE ReceiversSeq
<1>1. \A k \in 1..Len(Receivers) : Served(k)' <=> Served(k)
  BY Zenon DEF Served
<1> QED  BY <1>1, SMTT(30) DEF TrapInv

LEMMA TrapStep == TrapInv /\ [TrapNext]_trapVars => TrapInv'
<1> SUFFICES ASSUME TrapInv, [TrapNext]_trapVars PROVE TrapInv'
  BY Zenon
<1> USE ReceiversSeq
<1>1. CASE NeighborChange
  <2>1. turn' = Locals(1) /\ round' = round + 1 /\ told' = told /\ turn.row = 0 /\ Len(Receivers) > 0
    BY <1>1, Zenon DEF NeighborChange
  <2>2. fate' = [k \in 1..Len(Receivers) |-> Waiting]
    BY <1>1, Zenon DEF NeighborChange
  <2>3. fate' \in [1..Len(Receivers) -> FateSet]
    BY <2>2, SMT DEF Waiting, FateSet
  <2>4. /\ turn' \in TurnSet
        /\ turn'.row = 1 /\ turn'.at = "version" /\ turn'.failed = "no" /\ turn'.status = 0 /\ ~turn'.inform
    BY <2>1, SMT DEF Locals, TurnSet
  <2>5. \A k \in 1..Len(Receivers) : told'[k] < round'
    BY <2>1, SMT DEF TrapInv
  <2>6. TurnOK'
    <3>1. told'[turn'.row] < round'
      BY <2>1, <2>4, <2>5, SMT
    <3> QED  BY <2>4, <3>1, Zenon DEF TurnOK
  <2> QED  BY <2>1, <2>3, <2>4, <2>5, <2>6, SMTT(30) DEF TrapInv
<1>2. CASE Version
  <2>1. /\ turn.row \in 1..Len(Receivers) /\ turn.at = "version" /\ turn.failed = "no" /\ turn.status = 0
        /\ ~turn.inform /\ told[turn.row] < round /\ UNCHANGED <<round, told, fate>>
    BY <1>2, SMT DEF Version, TrapInv, TurnOK, TurnSet
  <2> DEFINE row == Receivers[turn.row]
  <2>2. CASE turn' = [turn EXCEPT !.at = "variables", !.pdu = TRUE,
                                  !.inform = row.version # "v1" /\ row.type = "inform"]
    <3>1. turn' \in TurnSet
      BY <2>2, Zenon DEF TrapInv, TurnSet
    <3>2. /\ turn'.row = turn.row /\ turn'.at = "variables" /\ turn'.failed = "no" /\ turn'.status = 0
          /\ turn'.inform => row.type = "inform"
      BY <2>1, <2>2, SMT DEF TrapInv, TurnSet
    <3>3. TurnOK'
      BY <2>1, <3>2, SMT DEF TurnOK
    <3> QED  BY <2>1, <3>1, <3>2, <3>3, TurnStep, SMT
  <2>3. CASE turn' = [turn EXCEPT !.at = "cleanup", !.pdu = row.version = "v1", !.failed = "version"]
    <3>1. turn' \in TurnSet
      BY <2>3, Zenon DEF TrapInv, TurnSet
    <3>2. /\ turn'.row = turn.row /\ turn'.at = "cleanup" /\ turn'.failed = "version" /\ turn'.status = 0
          /\ ~turn'.inform /\ (turn'.pdu => row.version = "v1")
      BY <2>1, <2>3, SMT DEF TrapInv, TurnSet
    <3>3. told'[turn'.row] # round'
      BY <2>1, <3>2, SMT DEF TrapInv
    <3>4. TurnOK'
      BY <2>1, <3>2, <3>3, SMT DEF TurnOK, EndOK
    <3> QED  BY <2>1, <3>1, <3>2, <3>4, TurnStep, SMT
  <2> QED  BY <1>2, <2>2, <2>3, SMT DEF Version
<1>3. CASE AddVars
  <2>1. /\ turn.row \in 1..Len(Receivers) /\ turn.at = "variables" /\ turn.failed = "no" /\ turn.status = 0
        /\ turn.inform => Receivers[turn.row].type = "inform"
        /\ told[turn.row] < round /\ UNCHANGED <<round, told, fate>>
    BY <1>3, SMT DEF AddVars, TrapInv, TurnOK, TurnSet
  <2>2. CASE turn' = [turn EXCEPT !.at = "send"]
    <3>1. turn' \in TurnSet
      BY <2>2, SMT DEF TrapInv, TurnSet
    <3>2. /\ turn'.row = turn.row /\ turn'.at = "send" /\ turn'.failed = "no" /\ turn'.status = 0
          /\ turn'.inform = turn.inform
      BY <2>1, <2>2, SMT DEF TrapInv, TurnSet
    <3>3. TurnOK'
      BY <2>1, <3>2, SMT DEF TurnOK
    <3> QED  BY <2>1, <3>1, <3>2, <3>3, TurnStep, SMT
  <2>3. CASE turn' = [turn EXCEPT !.at = "cleanup", !.status = 1, !.failed = "variables"]
    <3>1. turn' \in TurnSet
      BY <2>3, Zenon DEF TrapInv, TurnSet
    <3>2. /\ turn'.row = turn.row /\ turn'.at = "cleanup" /\ turn'.failed = "variables" /\ turn'.status = 1
          /\ turn'.inform = turn.inform
      BY <2>1, <2>3, SMT DEF TrapInv, TurnSet
    <3>3. told'[turn'.row] # round'
      BY <2>1, <3>2, SMT DEF TrapInv
    <3>4. TurnOK'
      BY <2>1, <3>2, <3>3, SMT DEF TurnOK, EndOK
    <3> QED  BY <2>1, <3>1, <3>2, <3>4, TurnStep, SMT
  <2> QED  BY <1>3, <2>2, <2>3, SMT DEF AddVars
<1>4. CASE SendTrap
  <2>1. /\ turn.row \in 1..Len(Receivers) /\ turn.at = "send" /\ turn.failed = "no" /\ turn.status = 0
        /\ turn.inform => Receivers[turn.row].type = "inform"
        /\ told[turn.row] < round /\ UNCHANGED <<round, fate>>
    BY <1>4, SMT DEF SendTrap, TrapInv, TurnOK, TurnSet
  <2>2. CASE told' = [told EXCEPT ![turn.row] = round] /\ turn' = [turn EXCEPT !.at = "cleanup", !.pdu = FALSE]
    <3>1. turn' \in TurnSet
      BY <2>2, Zenon DEF TrapInv, TurnSet
    <3>2. turn'.row = turn.row /\ turn'.at = "cleanup" /\ turn'.failed = "no" /\ ~turn'.pdu
      BY <2>1, <2>2, SMT DEF TrapInv, TurnSet
    <3>3. /\ told' \in [1..Len(Receivers) -> Nat] /\ told'[turn.row] = round
          /\ \A k \in 1..Len(Receivers) : k # turn.row => told'[k] = told[k]
      BY <2>1, <2>2, SMT DEF TrapInv
    <3>4. TurnOK'
      BY <2>1, <3>2, <3>3, SMT DEF TurnOK, EndOK
    <3>5. \A k \in 1..Len(Receivers) : k # turn.row => (Served(k)' <=> Served(k))
      BY <2>1, <3>3, Zenon DEF Served
    <3>6. \A k \in 1..Len(Receivers) : k < turn.row => Served(k)'
      BY <2>1, <3>5, SMT DEF TrapInv
    <3>7. \A k \in 1..Len(Receivers) : /\ told'[k] <= round
                                       /\ k > turn.row => told'[k] < round
      BY <2>1, <3>3, SMT DEF TrapInv
    <3> QED  BY <2>1, <3>1, <3>2, <3>3, <3>4, <3>6, <3>7, SMTT(30) DEF TrapInv
  <2>3. CASE /\ turn' = [turn EXCEPT !.at = "cleanup", !.status = -1, !.pdu = ~turn.inform, !.failed = "send"]
             /\ UNCHANGED told
    <3>1. turn' \in TurnSet
      BY <2>3, Zenon DEF TrapInv, TurnSet
    <3>2. /\ turn'.row = turn.row /\ turn'.at = "cleanup" /\ turn'.failed = "send" /\ turn'.status = -1
          /\ ~(turn'.pdu /\ turn'.inform)
      BY <2>1, <2>3, Zenon DEF TrapInv, TurnSet
    <3>3. told'[turn'.row] # round'
      BY <2>1, <2>3, <3>2, SMT DEF TrapInv
    <3>4. TurnOK'
      BY <2>1, <2>3, <3>2, <3>3, SMT DEF TurnOK, EndOK
    <3> QED  BY <2>1, <2>3, <3>1, <3>2, <3>4, TurnStep, SMT
  <2> QED  BY <1>4, <2>2, <2>3, SMT DEF SendTrap
<1>5. CASE LoopCleanup
  <2> DEFINE leaked == turn.pdu /\ ~(turn.status # 0 /\ ~turn.inform)
  <2>1. /\ turn.row \in 1..Len(Receivers) /\ EndOK /\ UNCHANGED <<round, told>>
        /\ fate' = [fate EXCEPT ![turn.row] = [failed |-> turn.failed, leaked |-> leaked]]
        /\ turn' = NextRow(turn)
    BY <1>5, SMT DEF LoopCleanup, TrapInv, TurnOK, TurnSet
  <2>2. [failed |-> turn.failed, leaked |-> leaked] \in FateSet
    BY SMT DEF TrapInv, TurnSet, FateSet
  <2>3. /\ fate' \in [1..Len(Receivers) -> FateSet]
        /\ fate'[turn.row].failed = turn.failed /\ fate'[turn.row].leaked = leaked
        /\ \A k \in 1..Len(Receivers) : k # turn.row => fate'[k] = fate[k]
    <3> HIDE DEF leaked
    <3> QED  BY <2>1, <2>2, SMT DEF TrapInv
  <2>4. leaked => \/ Receivers[turn.row].version = "v1" /\ turn.failed = "version"
                  \/ Receivers[turn.row].type = "inform" /\ turn.failed = "variables"
    BY <2>1, Zenon DEF EndOK
  <2>5. PICK r \in 1..Len(Receivers) : r = turn.row
    BY <2>1, Zenon
  <2>6. Served(r)'
    <3> HIDE DEF leaked
    <3> QED  BY <2>1, <2>3, <2>4, <2>5, Zenon DEF Served, EndOK
  <2>7. \A k \in 1..Len(Receivers) : k < turn.row + 1 => Served(k)'
    <3>1. \A k \in 1..Len(Receivers) : k # r => (Served(k)' <=> Served(k))
      BY <2>1, <2>3, <2>5, Zenon DEF Served
    <3> QED  BY <2>1, <2>5, <2>6, <3>1, SMT DEF TrapInv
  <2>8. CASE turn.row = Len(Receivers)
    <3>1. turn' \in TurnSet /\ turn'.row = 0
      BY <2>1, <2>8, SMT DEF NextRow, Locals, TurnSet
    <3>2. \A k \in 1..Len(Receivers) : Served(k)'
      BY <2>7, <2>8, SMT
    <3> QED  BY <2>1, <2>3, <3>1, <3>2, SMTT(30) DEF TrapInv
  <2>9. CASE turn.row # Len(Receivers)
    <3>1. /\ turn' \in TurnSet /\ turn'.row = turn.row + 1 /\ turn'.at = "version"
          /\ turn'.failed = "no" /\ turn'.status = 0 /\ ~turn'.inform
      BY <2>1, <2>9, SMT DEF NextRow, Locals, TurnSet
    <3>2. \A k \in 1..Len(Receivers) : k > turn.row => told'[k] < round'
      BY <2>1, SMT DEF TrapInv
    <3>3. TurnOK'
      <4>1. told'[turn'.row] < round'
        BY <2>1, <2>9, <3>1, <3>2, SMT
      <4> QED  BY <3>1, <4>1, Zenon DEF TurnOK
    <3> QED  BY <2>1, <2>3, <2>7, <3>1, <3>2, <3>3, SMTT(30) DEF TrapInv
  <2> QED  BY <2>8, <2>9, Zenon
<1>6. CASE UNCHANGED trapVars
  BY <1>6, Zenon DEF trapVars, TrapInv, TurnOK, EndOK, Served
<1> QED  BY <1>1, <1>2, <1>3, <1>4, <1>5, <1>6, Zenon DEF TrapNext

\* When a round of send_lldpRemTablesChange is over, every receiver that did not
\* fail by itself was sent its values, and no PDU leaked but on the two error
\* paths that leak one: for any list of receivers and any failures among them.
THEOREM ReceiversServed == TrapSpec => []RoundServed
<1>1. TrapInit => TrapInv
  <2> SUFFICES ASSUME TrapInit PROVE TrapInv
    BY Zenon
  <2>1. turn \in TurnSet /\ turn.row = 0 /\ round = 0
    BY ReceiversSeq, SMT DEF TrapInit, Locals, TurnSet
  <2>2. told \in [1..Len(Receivers) -> Nat] /\ \A k \in 1..Len(Receivers) : told[k] = 0
    BY ReceiversSeq, SMT DEF TrapInit
  <2>3. fate \in [1..Len(Receivers) -> FateSet]
    BY ReceiversSeq, SMT DEF TrapInit, Waiting, FateSet
  <2> QED  BY <2>1, <2>2, <2>3, SMT DEF TrapInv
<1>2. TrapInv => RoundServed
  BY ReceiversSeq, Zenon DEF TrapInv, RoundServed, Served
<1> QED  BY <1>1, <1>2, TrapStep, PTL DEF TrapSpec
=============================================================================
