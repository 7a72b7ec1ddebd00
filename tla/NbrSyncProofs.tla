--------------------------- MODULE NbrSyncProofs ---------------------------
(***************************************************************************)
(* Proof that the lldp_neighbor_info column follows the table of the       *)
(* daemon, for any interfaces, neighbours, lifetime and number of events   *)
(* and failures, where each link has one neighbour at a time, every frame  *)
(* decodes, and a transaction that does not succeed is tried again.        *)
(*                                                                         *)
(* InSync is about an interface with nothing left to do. The invariant     *)
(* follows it through what is left: a request that lldpd_ovsdb_nbrs_run    *)
(* will turn into a write of everything, one that only stamps an entry     *)
(* and must find the right one, and a transaction on its way.              *)
(***************************************************************************)
EXTENDS NbrSync, FiniteSetTheorems, TLAPS

\* What lldpd_decode, lldpd_run and the server are taken to do here.
OnePerLink == MaxNbrs = 1 /\ ~AllowGarbage /\ ~AllowError

Column == Nbr \cup {None}

Lists == {<<>>} \cup {<<n>> : n \in Nbr}

Transactions ==
  [status : {"sent", "SUCCESS", "TRY_AGAIN"}, writes : UNION {[D -> Column] : D \in SUBSET Ifs},
   clears : BOOLEAN]

SyncTypes ==
  /\ up \subseteq Ifs /\ enabled \in BOOLEAN /\ tryAgain \in BOOLEAN
  /\ rports \in [Ifs -> Lists]
  /\ op \in [Ifs -> {"NOOP", "ADD", "MOD", "UPD", "DEL"}]
  /\ db \in [Ifs -> Column]
  /\ txn = NoTxn \/ txn \in Transactions

\* Everything is going to be written again.
Resync == (txn = NoTxn /\ tryAgain) \/ txn.status = "TRY_AGAIN"

\* What the column of an interface holds once the transaction has succeeded.
Target(i) == IF txn.status = "sent" /\ i \in DOMAIN txn.writes THEN txn.writes[i] ELSE db[i]

\* Entry m can be stamped for neighbour n, or is not there.
Stampable(n, m) == m = None \/ (m \in Nbr /\ m.id = n.id /\ m.info = n.info)

\* Entry m is neighbour n, or n is so old that its entry was removed.
Shown(n, m) == m = n \/ (m = None /\ n.age > Ttl + Slack)

Followed(i, n) ==
  \/ Resync
  \/ op[i] \in {"ADD", "MOD"}
  \/ op[i] = "UPD" /\ Stampable(n, Target(i))
  \/ op[i] = "NOOP" /\ Shown(n, Target(i))

SyncInv ==
  /\ SyncTypes
  /\ \A i \in Ifs : i \notin up \/ ~enabled => rports[i] = <<>>
  /\ \A i \in Ifs : \A n \in Nbr : rports[i] = <<n>> => Followed(i, n)

-----------------------------------------------------------------------------
\* Lists and entries.

\* An empty column is no neighbour.
LEMMA NoneNoNbr == None \notin Nbr
<1>1. DOMAIN None = {"id"}  BY Zenon DEF None
<1>2. \A n \in Nbr : "age" \in DOMAIN n  BY Zenon DEF Nbr
<1> QED  BY <1>1, <1>2, Zenon

\* A list with one neighbour is not empty, and that one is its head.
LEMMA OneListed ==
  ASSUME NEW n
  PROVE  <<n>> # <<>> /\ Head(<<n>>) = n /\ Len(<<n>>) = 1 /\ DOMAIN <<n>> = {1} /\ <<n>>[1] = n
         /\ \A m : <<m>> = <<n>> => m = n
OBVIOUS

\* lldpd_cleanup keeps a list of one neighbour or empties it.
LEMMA RemainingOne ==
  ASSUME NEW s \in Lists
  PROVE  Remaining(s) \in {<<>>, s}
<1> DEFINE left == {k \in DOMAIN s : Alive(s[k])}
           nth(n) == CHOOSE k \in left : Cardinality({j \in left : j <= k}) = n
<1>1. Remaining(s) = [n \in 1 .. Cardinality(left) |-> s[nth(n)]]  BY Zenon DEF Remaining
<1>2. CASE left = {}
  <2>1. Cardinality(left) = 0  BY <1>2, FS_EmptySet, Zenon
  <2>2. 1 .. Cardinality(left) = {}  BY <2>1
  <2> QED  BY <1>1, <2>2
<1>3. CASE left # {}
  <2>1. PICK n \in Nbr : s = <<n>>
    <3>1. s # <<>>  BY <1>3
    <3> QED  BY <3>1, Zenon DEF Lists
  <2>2. left = {1}  BY <1>3, <2>1, OneListed
  <2>3. Cardinality({1}) = 1 /\ {j \in {1} : j <= 1} = {1}  BY FS_Singleton
  <2>4. nth(1) = 1
    <3>1. \A k \in left : k = 1  BY <2>2, Zenon
    <3>2. \E k \in left : Cardinality({j \in left : j <= k}) = 1  BY <2>2, <2>3, Zenon
    <3> QED  BY <3>1, <3>2, Zenon
  <2>5. Remaining(s) = [i \in 1 .. 1 |-> s[1]]
    <3> HIDE DEF left
    <3>1. Cardinality(left) = 1  BY <2>2, <2>3, Zenon
    <3>2. 1 .. 1 = {1}  OBVIOUS
    <3>3. \A i \in 1 .. 1 : s[nth(i)] = s[1]  BY <2>4, <3>2, Zenon
    <3> HIDE DEF nth
    <3> QED  BY <1>1, <3>1, <3>3, Zenon
  <2>6. [i \in 1 .. 1 |-> s[1]] = <<n>>
    <3>1. s[1] = n  BY <2>1, OneListed, Zenon
    <3>2. [i \in 1 .. 1 |-> n] = <<n>>  OBVIOUS
    <3> QED  BY <3>1, <3>2, Zenon
  <2> QED  BY <2>1, <2>5, <2>6, Zenon
<1> QED  BY <1>2, <1>3, Zenon

\* A neighbour and its entry age together.
LEMMA OlderEntries ==
  ASSUME NEW n \in Nbr, NEW m \in Column
  PROVE  /\ Older(n) \in Nbr /\ Older(m) \in Column
         /\ Stampable(n, m) => Stampable(Older(n), Older(m))
         /\ Shown(n, m) => Shown(Older(n), Older(m))
<1>1. AgeCap \in Nat /\ Ttl \in Nat /\ AgeCap = Ttl + Slack + 1 /\ Slack = 2
  BY SyncAssumption DEF AgeCap, Slack
<1>2. Older(None) = None  BY Zenon DEF Older
<1>3. ASSUME NEW x \in Nbr
      PROVE  /\ Older(x) \in Nbr /\ Older(x).id = x.id /\ Older(x).info = x.info
             /\ (x.age > Ttl + Slack => Older(x).age > Ttl + Slack)
  <2>1. x # None  BY NoneNoNbr, Zenon
  <2>2. PICK a \in 0 .. AgeCap : a = IF x.age < AgeCap THEN x.age + 1 ELSE x.age
    BY <1>1 DEF Nbr
  <2>3. Older(x) = [x EXCEPT !.age = a]  BY <2>1, <2>2, Zenon DEF Older
  <2>4. x.age \in 0 .. AgeCap  BY Zenon DEF Nbr
  <2>5. x.age > Ttl + Slack => a > Ttl + Slack  BY <1>1, <2>2, <2>4
  <2> QED  BY <2>2, <2>3, <2>5, Zenon DEF Nbr
<1>4. Older(n) \in Nbr /\ Older(m) \in Column  BY <1>2, <1>3, Zenon DEF Column
<1>5. ASSUME Stampable(n, m) PROVE Stampable(Older(n), Older(m))
  BY <1>2, <1>3, <1>5, NoneNoNbr, Zenon DEF Stampable, Column
<1>6. ASSUME Shown(n, m) PROVE Shown(Older(n), Older(m))  BY <1>2, <1>3, <1>6, Zenon DEF Shown
<1> QED  BY <1>4, <1>5, <1>6, Zenon

\* The transaction writes entries of the column.
LEMMA AppliedType ==
  ASSUME SyncTypes, InFlight
  PROVE  txn \in Transactions /\ txn.status = "sent" /\ Applied \in [Ifs -> Column]
         /\ \A i \in Ifs : Applied[i] = Target(i)
<1>1. txn \in Transactions /\ txn.status = "sent"  BY Zenon DEF SyncTypes, InFlight
<1>2. \A i \in DOMAIN txn.writes : txn.writes[i] \in Column  BY <1>1 DEF Transactions
<1>3. \A i \in Ifs : db[i] \in Column  BY Zenon DEF SyncTypes
<1>4. Applied \in [Ifs -> Column]  BY <1>2, <1>3, Zenon DEF Applied
<1>5. \A i \in Ifs : Applied[i] = Target(i)  BY <1>1, Zenon DEF Applied, Target
<1> QED  BY <1>1, <1>4, <1>5, Zenon

\* With no neighbour anywhere there is nothing to follow.
LEMMA NobodyListed ==
  ASSUME SyncTypes', \A i \in Ifs : rports'[i] = <<>>
  PROVE  SyncInv'
BY OneListed, Zenon DEF SyncInv

\* Reception: a new neighbour or new information asks for a write, a frame that
\* says nothing new for a stamp.
LEMMA HearSteps ==
  ASSUME SyncInv, OnePerLink, NEW i \in Ifs,
         HearDuplicate(i) \/ HearChanged(i) \/ HearNew(i) \/ HearGarbage(i)
  PROVE  SyncInv'
<1>1. /\ SyncTypes /\ i \in up /\ enabled /\ ~HearGarbage(i)
      /\ UNCHANGED <<up, enabled, db, txn, tryAgain>>
  BY Zenon DEF SyncInv, Hearing, OnePerLink, HearDuplicate, HearChanged, HearNew, HearGarbage
<1>2. \A j \in Ifs : j \notin up \/ ~enabled => rports[j] = <<>>  BY Zenon DEF SyncInv
<1>3. ASSUME NEW n \in Nbr, NEW o \in {"NOOP", "ADD", "MOD", "UPD", "DEL"},
             rports' = [rports EXCEPT ![i] = <<n>>], op' = [op EXCEPT ![i] = o],
             Followed(i, n)'
      PROVE  SyncInv'
  <2>1. SyncTypes'  BY <1>1, <1>3, Zenon DEF SyncTypes, Lists
  <2>2. \A j \in Ifs : j \notin up' \/ ~enabled' => rports'[j] = <<>>  BY <1>1, <1>2, <1>3
  <2>3. ASSUME NEW j \in Ifs, NEW m \in Nbr, rports'[j] = <<m>> PROVE Followed(j, m)'
    <3>1. CASE j = i
      <4>1. m = n  BY <1>1, <1>3, <2>3, <3>1, OneListed, Zenon DEF SyncTypes
      <4> QED  BY <1>3, <3>1, <4>1, Zenon
    <3>2. CASE j # i
      <4>1. rports[j] = <<m>> /\ op'[j] = op[j]  BY <1>1, <1>3, <2>3, <3>2, Zenon DEF SyncTypes
      <4>2. Followed(j, m)  BY <4>1, Zenon DEF SyncInv
      <4> QED  BY <1>1, <4>1, <4>2, Zenon DEF Followed, Resync, Target
    <3> QED  BY <3>1, <3>2, Zenon
  <2> QED  BY <2>1, <2>2, <2>3, Zenon DEF SyncInv
<1>4. 0 \in 0 .. AgeCap  BY SyncAssumption DEF AgeCap, Slack
<1>5. CASE HearDuplicate(i)
  <2>1. PICK k \in DOMAIN rports[i] : rports' = [rports EXCEPT ![i][k].age = 0]
    BY <1>5, Zenon DEF HearDuplicate
  <2>2. op' = [op EXCEPT ![i] = DuplicateOp(op[i])]  BY <1>5, Zenon DEF HearDuplicate
  <2>3. PICK n \in Nbr : rports[i] = <<n>>
    <3>1. rports[i] \in Lists  BY <1>1, Zenon DEF SyncTypes
    <3> QED  BY <2>1, <3>1 DEF Lists
  <2>4. PICK m \in Nbr : m = [n EXCEPT !.age = 0] /\ m.id = n.id /\ m.info = n.info /\ m.age = 0
    <3>1. [n EXCEPT !.age = 0] \in Nbr  BY <1>4, Zenon DEF Nbr
    <3>2. PICK m \in Nbr : m = [n EXCEPT !.age = 0]  BY <3>1, Zenon
    <3>3. m.id = n.id /\ m.info = n.info /\ m.age = 0  BY <3>2, Zenon DEF Nbr
    <3> QED  BY <3>2, <3>3, Zenon
  <2>5. rports' = [rports EXCEPT ![i] = <<m>>]
    <3>1. k = 1  BY <2>1, <2>3, OneListed, Zenon
    <3>2. [<<n>> EXCEPT ![1].age = 0] = <<m>>  BY <2>4
    <3>3. rports' = [rports EXCEPT ![i] = [rports[i] EXCEPT ![1].age = 0]]  BY <2>1, <3>1, Zenon
    <3> QED  BY <2>3, <3>2, <3>3, Zenon
  <2>6. Followed(i, n)  BY <2>3, Zenon DEF SyncInv
  <2>7. PICK o \in {"NOOP", "ADD", "MOD", "UPD", "DEL"} :
          o = DuplicateOp(op[i]) /\ o = IF op[i] \in {"ADD", "MOD"} THEN op[i] ELSE "UPD"
    BY <1>1, Zenon DEF SyncTypes, DuplicateOp
  <2>8. op'[i] = o  BY <1>1, <2>2, <2>7, Zenon DEF SyncTypes
  <2>9. Followed(i, m)'
    <3>1. Target(i)' = Target(i) /\ Resync' = Resync  BY <1>1, Zenon DEF Target, Resync
    <3>2. Shown(n, Target(i)) => Stampable(n, Target(i))  BY <2>3, Zenon DEF Shown, Stampable
    <3>3. Stampable(n, Target(i)) => Stampable(m, Target(i))  BY <2>4, Zenon DEF Stampable
    <3> QED  BY <2>6, <2>7, <2>8, <3>1, <3>2, <3>3, Zenon DEF Followed
  <2> QED  BY <1>3, <2>2, <2>5, <2>7, <2>9, Zenon
<1>6. ASSUME NEW n \in Nbr, NEW o \in {"ADD", "MOD"},
             rports' = [rports EXCEPT ![i] = <<n>>], op' = [op EXCEPT ![i] = o]
      PROVE  SyncInv'
  <2>1. op'[i] = o  BY <1>1, <1>6, Zenon DEF SyncTypes
  <2>2. Followed(i, n)'  BY <2>1, Zenon DEF Followed
  <2> QED  BY <1>3, <1>6, <2>2, Zenon
<1>7. CASE HearChanged(i)
  <2>1. PICK k \in DOMAIN rports[i], info \in Infos :
          rports' = [rports EXCEPT ![i] =
            Append(Without(rports[i], k), [id |-> rports[i][k].id, info |-> info, age |-> 0])]
    BY <1>7, Zenon DEF HearChanged
  <2>2. PICK n \in Nbr : rports[i] = <<n>> /\ k = 1
    <3>1. rports[i] \in Lists  BY <1>1, Zenon DEF SyncTypes
    <3>2. PICK n \in Nbr : rports[i] = <<n>>  BY <2>1, <3>1 DEF Lists
    <3>3. k = 1  BY <2>1, <3>2, OneListed, Zenon
    <3> QED  BY <3>2, <3>3, Zenon
  <2>3. Without(<<n>>, 1) = <<>>  BY DEF Without
  <2>4. PICK m \in Nbr : m = [id |-> rports[i][k].id, info |-> info, age |-> 0]
    <3>1. rports[i][k] = n /\ n.id \in Ids  BY <2>2 DEF Nbr
    <3>2. [id |-> n.id, info |-> info, age |-> 0] \in Nbr  BY <1>4, <3>1, Zenon DEF Nbr
    <3> QED  BY <3>1, <3>2, Zenon
  <2>5. Append(<<>>, m) = <<m>>  OBVIOUS
  <2>6. rports' = [rports EXCEPT ![i] = <<m>>]  BY <2>1, <2>2, <2>3, <2>4, <2>5, Zenon
  <2> QED  BY <1>6, <1>7, <2>6, Zenon DEF HearChanged
<1>8. CASE HearNew(i)
  <2>1. PICK id \in Ids, info \in Infos :
          rports' = [rports EXCEPT ![i] = Append(rports[i], [id |-> id, info |-> info, age |-> 0])]
    BY <1>8, Zenon DEF HearNew
  <2>2. rports[i] = <<>>
    <3>1. rports[i] \in Lists /\ Len(rports[i]) < 1  BY <1>1, <1>8, Zenon DEF SyncTypes, HearNew, OnePerLink
    <3> QED  BY <3>1, OneListed DEF Lists
  <2>3. PICK m \in Nbr : m = [id |-> id, info |-> info, age |-> 0]  BY <1>4, Zenon DEF Nbr
  <2>4. Append(<<>>, m) = <<m>>  OBVIOUS
  <2>5. rports' = [rports EXCEPT ![i] = <<m>>]  BY <2>1, <2>2, <2>3, <2>4, Zenon
  <2> QED  BY <1>6, <1>8, <2>5, Zenon DEF HearNew
<1> QED  BY <1>1, <1>5, <1>7, <1>8, Zenon

\* Neighbours leave, with the timer of lldpd_cleanup or with their interface.
LEMMA LeaveSteps ==
  ASSUME SyncInv, Expire \/ \E i \in Ifs : HwGone(i) \/ HwBack(i)
  PROVE  SyncInv'
<1>1. /\ SyncTypes /\ UNCHANGED <<enabled, db, txn, tryAgain>>
  BY Zenon DEF SyncInv, Expire, HwGone, HwBack
<1>2. SyncTypes' /\ \A j \in Ifs : (j \notin up' => j \notin up \/ rports'[j] = <<>>)
                                  /\ rports'[j] \in {<<>>, rports[j]}
                                  /\ (rports'[j] # <<>> => op'[j] = op[j])
  <2>1. CASE Expire
    <3>1. \A j \in Ifs : rports'[j] = Remaining(rports[j])  BY <2>1, Zenon DEF Expire
    <3>2. \A j \in Ifs : rports[j] \in Lists  BY <1>1, Zenon DEF SyncTypes
    <3>3. \A j \in Ifs : rports'[j] \in {<<>>, rports[j]}  BY <3>1, <3>2, RemainingOne, Zenon
    <3>4. rports' \in [Ifs -> Lists]
      <4>1. <<>> \in Lists  BY Zenon DEF Lists
      <4>2. rports' = [j \in Ifs |-> Remaining(rports[j])]  BY <2>1, Zenon DEF Expire
      <4> QED  BY <3>1, <3>2, <3>3, <4>1, <4>2, Zenon
    <3>5. \A j \in Ifs : op'[j] = IF rports'[j] # rports[j] THEN "DEL" ELSE op[j]  BY <2>1, Zenon DEF Expire
    <3>6. op' \in [Ifs -> {"NOOP", "ADD", "MOD", "UPD", "DEL"}]  BY <1>1, <2>1, Zenon DEF Expire, SyncTypes
    <3>7. up' = up  BY <2>1, Zenon DEF Expire
    <3>8. SyncTypes'  BY <1>1, <3>4, <3>6, <3>7, Zenon DEF SyncTypes
    <3> QED  BY <3>3, <3>5, <3>7, <3>8, Zenon
  <2>2. ASSUME NEW i \in Ifs, HwGone(i)
        PROVE  SyncTypes' /\ \A j \in Ifs : (j \notin up' => j \notin up \/ rports'[j] = <<>>)
                                           /\ rports'[j] \in {<<>>, rports[j]}
                                           /\ (rports'[j] # <<>> => op'[j] = op[j])
    <3>1. /\ up' = up \ {i} /\ rports' = [rports EXCEPT ![i] = <<>>]
          /\ op' = [op EXCEPT ![i] = "NOOP"]
      BY <2>2, Zenon DEF HwGone
    <3>2. \A j \in Ifs : rports'[j] = IF j = i THEN <<>> ELSE rports[j]  BY <1>1, <3>1, Zenon DEF SyncTypes
    <3>3. \A j \in Ifs : j # i => op'[j] = op[j]  BY <1>1, <3>1, Zenon DEF SyncTypes
    <3>4. SyncTypes'  BY <1>1, <3>1, Zenon DEF SyncTypes, Lists
    <3> QED  BY <3>1, <3>2, <3>3, <3>4, Zenon
  <2>3. ASSUME NEW i \in Ifs, HwBack(i)
        PROVE  SyncTypes' /\ \A j \in Ifs : (j \notin up' => j \notin up \/ rports'[j] = <<>>)
                                           /\ rports'[j] \in {<<>>, rports[j]}
                                           /\ (rports'[j] # <<>> => op'[j] = op[j])
    BY <1>1, <2>3, Zenon DEF HwBack, SyncTypes
  <2> QED  BY <2>1, <2>2, <2>3, Zenon
<1>3. \A j \in Ifs : j \notin up' \/ ~enabled' => rports'[j] = <<>>
  <2>1. \A j \in Ifs : j \notin up \/ ~enabled => rports[j] = <<>>  BY Zenon DEF SyncInv
  <2> QED  BY <1>1, <1>2, <2>1, Zenon
<1>4. ASSUME NEW j \in Ifs, NEW m \in Nbr, rports'[j] = <<m>> PROVE Followed(j, m)'
  <2>1. rports[j] = <<m>> /\ op'[j] = op[j]  BY <1>2, <1>4, OneListed, Zenon
  <2>2. Followed(j, m)  BY <2>1, Zenon DEF SyncInv
  <2> QED  BY <1>1, <2>1, <2>2, Zenon DEF Followed, Resync, Target
<1> QED  BY <1>2, <1>3, <1>4, Zenon DEF SyncInv

\* A second passes, for the table, the column and what is on its way.
LEMMA TickKeeps ==
  ASSUME SyncInv, Tick
  PROVE  SyncInv'
<1>1. /\ SyncTypes /\ UNCHANGED <<up, enabled, op, tryAgain>>
      /\ rports' = [i \in Ifs |-> [k \in DOMAIN rports[i] |-> Older(rports[i][k])]]
      /\ db' = [i \in Ifs |-> Older(db[i])]
      /\ txn' = IF txn = NoTxn THEN txn
                ELSE [txn EXCEPT !.writes = [i \in DOMAIN txn.writes |-> Older(txn.writes[i])]]
  BY Zenon DEF SyncInv, Tick
<1>2. ASSUME NEW m \in Column PROVE Older(m) \in Column
  <2>1. CASE m \in Nbr  BY <2>1, OlderEntries, Zenon DEF Column
  <2>2. CASE m = None  BY <2>2, Zenon DEF Older, Column
  <2> QED  BY <2>1, <2>2, Zenon DEF Column
<1>3. ASSUME NEW i \in Ifs
      PROVE  \/ rports[i] = <<>> /\ rports'[i] = <<>>
             \/ \E n \in Nbr : rports[i] = <<n>> /\ rports'[i] = <<Older(n)>> /\ Older(n) \in Nbr
  <2>1. rports'[i] = [k \in DOMAIN rports[i] |-> Older(rports[i][k])]  BY <1>1, Zenon
  <2>2. CASE rports[i] = <<>>
    <3>1. DOMAIN rports[i] = {}  BY <2>2
    <3> QED  BY <2>1, <2>2, <3>1
  <2>3. CASE rports[i] # <<>>
    <3>1. PICK n \in Nbr : rports[i] = <<n>>  BY <1>1, <2>3, Zenon DEF SyncTypes, Lists
    <3>2. PICK o : o = Older(n)  BY Zenon
    <3>3. [k \in {1} |-> Older(<<n>>[k])] = <<o>>
      <4>1. [k \in {1} |-> o] = <<o>>  OBVIOUS
      <4>2. \A k \in {1} : Older(<<n>>[k]) = o  BY <3>2, OneListed, Zenon
      <4> QED  BY <4>1, <4>2, Zenon
    <3>4. Older(n) \in Nbr
      <4>1. None \in Column  BY Zenon DEF Column
      <4> QED  BY <4>1, OlderEntries, Zenon
    <3> QED  BY <2>1, <3>1, <3>2, <3>3, <3>4, OneListed
  <2> QED  BY <2>2, <2>3, Zenon
<1>4. /\ txn' = NoTxn \/ txn' \in Transactions
      /\ (txn' = NoTxn <=> txn = NoTxn) /\ txn'.status = txn.status
      /\ txn # NoTxn => /\ DOMAIN txn'.writes = DOMAIN txn.writes
                        /\ \A i \in DOMAIN txn.writes : txn'.writes[i] = Older(txn.writes[i])
  <2>1. CASE txn = NoTxn  BY <1>1, <2>1, Zenon
  <2>2. CASE txn # NoTxn
    <3>1. txn \in Transactions  BY <1>1, <2>2, Zenon DEF SyncTypes
    <3>2. PICK D \in SUBSET Ifs : txn.writes \in [D -> Column]  BY <3>1, Zenon DEF Transactions
    <3>3. PICK w : w = [i \in DOMAIN txn.writes |-> Older(txn.writes[i])]  BY Zenon
    <3>4. w \in [D -> Column]  BY <1>2, <3>2, <3>3, Zenon
    <3>5. w \in UNION {[E -> Column] : E \in SUBSET Ifs}  BY <3>4, Zenon
    <3>6. txn' = [txn EXCEPT !.writes = w]  BY <1>1, <2>2, <3>3, Zenon
    <3>7. txn' \in Transactions /\ txn'.status = txn.status /\ txn'.writes = w
      BY <3>1, <3>5, <3>6, Zenon DEF Transactions
    <3>8. txn' # NoTxn
      <4>1. txn'.status # "none"  BY <3>7, Zenon DEF Transactions
      <4> QED  BY <4>1 DEF NoTxn
    <3> QED  BY <2>2, <3>3, <3>7, <3>8, Zenon
  <2> QED  BY <2>1, <2>2, Zenon
<1>5. SyncTypes'
  <2>1. rports' \in [Ifs -> Lists]
    <3>1. \A i \in Ifs : rports'[i] \in Lists  BY <1>3, Zenon DEF Lists
    <3> QED  BY <1>1, <3>1, Zenon
  <2>2. db' \in [Ifs -> Column]  BY <1>1, <1>2, Zenon DEF SyncTypes
  <2> QED  BY <1>1, <1>4, <2>1, <2>2, Zenon DEF SyncTypes
<1>6. \A j \in Ifs : j \notin up' \/ ~enabled' => rports'[j] = <<>>
  <2>1. \A j \in Ifs : j \notin up \/ ~enabled => rports[j] = <<>>  BY Zenon DEF SyncInv
  <2> QED  BY <1>1, <1>3, <2>1, OneListed
<1>7. ASSUME NEW j \in Ifs, NEW m \in Nbr, rports'[j] = <<m>> PROVE Followed(j, m)'
  <2>1. PICK n \in Nbr : rports[j] = <<n>> /\ m = Older(n)  BY <1>3, <1>7, OneListed
  <2>2. Followed(j, n)  BY <2>1, Zenon DEF SyncInv
  <2>3. Target(j)' = Older(Target(j)) /\ Target(j) \in Column
    <3>1. CASE txn.status = "sent" /\ j \in DOMAIN txn.writes
      <4>1. txn \in Transactions  BY <1>1, <3>1 DEF SyncTypes, NoTxn
      <4>2. txn.writes[j] \in Column  BY <3>1, <4>1 DEF Transactions
      <4>3. txn # NoTxn  BY <3>1 DEF NoTxn
      <4> QED  BY <1>4, <3>1, <4>2, <4>3, Zenon DEF Target
    <3>2. CASE ~(txn.status = "sent" /\ j \in DOMAIN txn.writes)
      <4>1. Target(j) = db[j] /\ db[j] \in Column /\ db'[j] = Older(db[j])
        BY <1>1, <3>2, Zenon DEF Target, SyncTypes
      <4>2. txn.status = "sent" => txn # NoTxn  BY DEF NoTxn
      <4> QED  BY <1>4, <3>2, <4>1, <4>2, Zenon DEF Target
    <3> QED  BY <3>1, <3>2, Zenon
  <2>4. Resync' = Resync  BY <1>1, <1>4, Zenon DEF Resync
  <2>5. /\ Stampable(n, Target(j)) => Stampable(Older(n), Older(Target(j)))
        /\ Shown(n, Target(j)) => Shown(Older(n), Older(Target(j)))
    BY <2>3, OlderEntries, Zenon
  <2> QED  BY <1>1, <2>1, <2>2, <2>3, <2>4, <2>5, Zenon DEF Followed
<1> QED  BY <1>5, <1>6, <1>7, Zenon DEF SyncInv

\* A transaction of lldpd_run.
LEMMA CommitType ==
  ASSUME NEW D \in SUBSET Ifs, NEW w \in [D -> Column], NEW c \in BOOLEAN, Commit(w, c)
  PROVE  /\ txn' \in Transactions /\ txn'.status = "sent" /\ txn'.writes = w /\ txn' # NoTxn
         /\ ~Resync'
         /\ \A i \in Ifs : Target(i)' = IF i \in D THEN w[i] ELSE db'[i]
<1>1. txn' = [status |-> "sent", writes |-> w, clears |-> c]  BY Zenon DEF Commit
<1>2. w \in UNION {[E -> Column] : E \in SUBSET Ifs}  BY Zenon
<1>3. txn' \in Transactions  BY <1>1, <1>2, Zenon DEF Transactions
<1>4. txn'.status = "sent" /\ txn'.writes = w  BY <1>1, Zenon
<1>5. txn' # NoTxn  BY <1>4 DEF NoTxn
<1>6. ~Resync'  BY <1>4, <1>5, Zenon DEF Resync
<1>7. \A i \in Ifs : Target(i)' = IF i \in D THEN w[i] ELSE db'[i]  BY <1>4, Zenon DEF Target
<1> QED  BY <1>3, <1>4, <1>5, <1>6, <1>7, Zenon

\* lldpd_ovsdb_nbrs_run honours every request: what the column is going to hold
\* is the neighbour of the table.
LEMMA RunNbrsKeeps ==
  ASSUME SyncInv, RunNbrs
  PROVE  SyncInv'
<1> DEFINE eff(i) == IF i \in up THEN EffectiveOp(i) ELSE "NOOP"
           after(i) == Requested(i, eff(i))
           touched == {i \in Ifs : Written(i, eff(i)) \/ AgedOut(after(i))}
           w == [i \in touched |-> IF AgedOut(after(i)) THEN None ELSE after(i)]
<1>1. /\ SyncTypes /\ txn = NoTxn /\ ~tryAgain
      /\ op' = [i \in Ifs |-> "NOOP"]
      /\ IF touched = {} THEN txn' = txn ELSE Commit(w, FALSE)
      /\ UNCHANGED <<up, enabled, rports, db, tryAgain>>
  BY Zenon DEF SyncInv, RunNbrs
<1>2. \A i \in Ifs : i \notin up \/ ~enabled => rports[i] = <<>>  BY Zenon DEF SyncInv
<1>3. ~Resync /\ \A i \in Ifs : Target(i) = db[i]  BY <1>1, Zenon DEF Resync, Target, NoTxn
<1>4. ASSUME NEW i \in Ifs, NEW n \in Nbr, rports[i] = <<n>>
      PROVE  /\ i \in touched => Shown(n, w[i])
             /\ i \notin touched => Shown(n, db[i])
  <2>1. i \in up /\ rports[i] # <<>> /\ Head(rports[i]) = n  BY <1>2, <1>4, OneListed, Zenon
  <2>2. Followed(i, n)  BY <1>4, Zenon DEF SyncInv
  <2>3. n # None /\ (AgedOut(n) <=> n.age > Ttl + Slack)  BY NoneNoNbr, Zenon DEF AgedOut
  <2>4. db[i] \in Column  BY <1>1, Zenon DEF SyncTypes
  <2>5. i \in touched <=> Written(i, eff(i)) \/ AgedOut(after(i))  BY Zenon
  <2>6. i \in touched => w[i] = IF AgedOut(after(i)) THEN None ELSE after(i)  BY Zenon
  <2>7. eff(i) = EffectiveOp(i)  BY <2>1, Zenon
  <2>8. after(i) = Requested(i, EffectiveOp(i))  BY <2>7, Zenon
  <2>9. CASE after(i) = n /\ Written(i, eff(i))
    <3> HIDE DEF after, eff, touched, w
    <3> QED  BY <2>3, <2>5, <2>6, <2>9, Zenon DEF Shown
  <2>10. CASE op[i] \in {"ADD", "MOD"} \/ (op[i] = "UPD" /\ db[i] = None)
    <3>1. EffectiveOp(i) \in {"ADD", "MOD"}  BY <2>10, Zenon DEF EffectiveOp
    <3>2. after(i) = n  BY <2>1, <2>8, <3>1, Zenon DEF Requested, NbrUpdate
    <3>3. Written(i, eff(i))  BY <2>1, <2>7, <3>1, Zenon DEF Written
    <3> QED  BY <2>9, <3>2, <3>3, Zenon
  <2>11. CASE op[i] = "UPD" /\ db[i] # None
    <3>1. Stampable(n, db[i])  BY <1>3, <2>2, <2>11, Zenon DEF Followed
    <3>2. db[i] \in Nbr /\ db[i].id = n.id /\ db[i].info = n.info  BY <2>11, <3>1, Zenon DEF Stampable
    <3>3. [db[i] EXCEPT !.age = n.age] = n  BY <3>2, Zenon DEF Nbr
    <3>4. EffectiveOp(i) = "UPD"  BY <2>11, Zenon DEF EffectiveOp
    <3>5. after(i) = n  BY <2>1, <2>8, <3>3, <3>4, Zenon DEF Requested
    <3>6. Written(i, eff(i))  BY <2>1, <2>7, <3>4, Zenon DEF Written
    <3> QED  BY <2>9, <3>5, <3>6, Zenon
  <2>12. CASE op[i] = "NOOP"
    <3>1. Shown(n, db[i])  BY <1>3, <2>2, <2>12, Zenon DEF Followed
    <3>2. EffectiveOp(i) = "NOOP"  BY <2>12, Zenon DEF EffectiveOp
    <3>3. after(i) = db[i]  BY <2>8, <3>2, Zenon DEF Requested
    <3>4. ~Written(i, eff(i))  BY <2>7, <3>2, Zenon DEF Written
    <3>5. ~AgedOut(None)  BY Zenon DEF AgedOut
    <3> HIDE DEF after, eff, touched, w
    <3>6. CASE AgedOut(db[i])
      <4>1. w[i] = None /\ i \in touched  BY <2>5, <2>6, <3>3, <3>6, Zenon
      <4>2. n.age > Ttl + Slack  BY <2>3, <3>1, <3>5, <3>6, Zenon DEF Shown
      <4> QED  BY <4>1, <4>2, Zenon DEF Shown
    <3>7. CASE ~AgedOut(db[i])
      <4>1. i \notin touched  BY <2>5, <3>3, <3>4, <3>7, Zenon
      <4> QED  BY <3>1, <4>1, Zenon
    <3> QED  BY <3>6, <3>7, Zenon
  <2> QED  BY <1>3, <2>2, <2>10, <2>11, <2>12, Zenon DEF Followed
<1>5. w \in [touched -> Column] /\ touched \in SUBSET Ifs
  <2>1. ASSUME NEW i \in touched PROVE w[i] \in Column
    <3>1. db[i] \in Column /\ None \in Column /\ rports[i] \in Lists  BY <1>1, Zenon DEF SyncTypes, Column
    <3>2. CASE rports[i] = <<>>
      <4>1. after(i) \in {None, db[i]}  BY <3>2, Zenon DEF Requested
      <4> QED  BY <3>1, <4>1, Zenon
    <3>3. CASE rports[i] # <<>>
      <4>1. PICK n \in Nbr : rports[i] = <<n>>  BY <3>1, <3>3, Zenon DEF Lists
      <4>2. Shown(n, w[i])  BY <1>4, <4>1, Zenon
      <4> HIDE DEF w
      <4> QED  BY <4>2, Zenon DEF Shown, Column
    <3> QED  BY <3>2, <3>3, Zenon
  <2> QED  BY <2>1, Zenon
<1>6. CASE touched = {}
  <2>1. txn' = txn /\ Resync' = Resync  BY <1>1, <1>6, Zenon DEF Resync
  <2>2. \A i \in Ifs : Target(i)' = db[i]  BY <1>1, <2>1, Zenon DEF Target, NoTxn
  <2>3. SyncTypes'  BY <1>1, <2>1, Zenon DEF SyncTypes
  <2>4. ASSUME NEW i \in Ifs, NEW n \in Nbr, rports'[i] = <<n>> PROVE Followed(i, n)'
    <3>1. Shown(n, db[i])  BY <1>1, <1>4, <1>6, <2>4, Zenon
    <3>2. op'[i] = "NOOP"  BY <1>1, Zenon
    <3> QED  BY <2>2, <3>1, <3>2, Zenon DEF Followed
  <2> QED  BY <1>1, <1>2, <2>3, <2>4, Zenon DEF SyncInv
<1>7. CASE touched # {}
  <2>1. PICK D, v : D = touched /\ v = w /\ D \in SUBSET Ifs /\ v \in [D -> Column]  BY <1>5, Zenon
  <2>2. \A i \in Ifs : \A n \in Nbr : rports[i] = <<n>> =>
           Shown(n, IF i \in D THEN v[i] ELSE db[i])
    BY <1>4, <2>1, Zenon
  <2>3. Commit(v, FALSE)  BY <1>1, <1>7, <2>1, Zenon
  <2> HIDE DEF touched, w
  <2>4. /\ txn' \in Transactions /\ \A i \in Ifs : Target(i)' = IF i \in D THEN v[i] ELSE db'[i]
    BY <2>1, <2>3, CommitType, Zenon
  <2>5. SyncTypes'  BY <1>1, <2>4, Zenon DEF SyncTypes
  <2>6. ASSUME NEW i \in Ifs, NEW n \in Nbr, rports'[i] = <<n>> PROVE Followed(i, n)'
    <3>1. Shown(n, IF i \in D THEN v[i] ELSE db[i])  BY <1>1, <2>2, <2>6, Zenon
    <3>2. op'[i] = "NOOP"  BY <1>1, Zenon
    <3>3. Shown(n, Target(i)')  BY <1>1, <2>4, <3>1, Zenon
    <3> QED  BY <3>2, <3>3, Zenon DEF Followed, Shown
  <2> QED  BY <1>1, <1>2, <2>5, <2>6, Zenon DEF SyncInv
<1> QED  BY <1>6, <1>7, Zenon

\* lldpd_ovsdb_nbrs_change_all writes every neighbour of the table.
LEMMA RunChangeAllKeeps ==
  ASSUME SyncInv, RunChangeAll
  PROVE  SyncInv'
<1> DEFINE w == [i \in up |-> IF rports[i] = <<>> THEN None ELSE NbrUpdate(i)]
<1>1. /\ SyncTypes /\ up \in SUBSET Ifs /\ op' = [i \in Ifs |-> "NOOP"] /\ Commit(w, FALSE)
      /\ UNCHANGED <<up, enabled, rports, db, tryAgain>>
  BY Zenon DEF SyncInv, RunChangeAll, SyncTypes
<1>2. \A i \in Ifs : i \notin up \/ ~enabled => rports[i] = <<>>  BY Zenon DEF SyncInv
<1>3. ASSUME NEW i \in Ifs, NEW n \in Nbr, rports[i] = <<n>> PROVE i \in up /\ w[i] = n
  <2>1. i \in up /\ rports[i] # <<>> /\ Head(rports[i]) = n  BY <1>2, <1>3, OneListed, Zenon
  <2> QED  BY <2>1, Zenon DEF NbrUpdate
<1>4. w \in [up -> Column]
  <2>1. ASSUME NEW i \in up PROVE w[i] \in Column
    <3>1. i \in Ifs /\ rports[i] \in Lists  BY <1>1, Zenon DEF SyncTypes
    <3>2. CASE rports[i] = <<>>  BY <3>2, Zenon DEF Column
    <3>3. CASE rports[i] # <<>>
      <4>1. PICK n \in Nbr : rports[i] = <<n>>  BY <3>1, <3>3, Zenon DEF Lists
      <4>2. w[i] = n  BY <1>3, <3>1, <4>1, Zenon
      <4> QED  BY <4>2, Zenon DEF Column
    <3> QED  BY <3>2, <3>3, Zenon
  <2> QED  BY <2>1, Zenon
<1>5. PICK v : v = w  BY Zenon
<1>6. v \in [up -> Column] /\ Commit(v, FALSE)  BY <1>1, <1>4, <1>5, Zenon
<1> HIDE DEF w
<1>7. /\ txn' \in Transactions /\ \A i \in Ifs : Target(i)' = IF i \in up THEN v[i] ELSE db'[i]
  BY <1>1, <1>6, CommitType, Zenon
<1>8. SyncTypes'  BY <1>1, <1>7, Zenon DEF SyncTypes
<1>9. ASSUME NEW i \in Ifs, NEW n \in Nbr, rports'[i] = <<n>> PROVE Followed(i, n)'
  <2>1. i \in up /\ v[i] = n  BY <1>1, <1>3, <1>5, <1>9, Zenon
  <2>2. op'[i] = "NOOP" /\ Target(i)' = n  BY <1>1, <1>7, <2>1, Zenon
  <2> QED  BY <2>2, Zenon DEF Followed, Shown
<1> QED  BY <1>1, <1>2, <1>8, <1>9, Zenon DEF SyncInv

\* The daemon or the server gets on with the transaction; what it has written
\* is what the column was going to hold, and what it may not have written is
\* going to be written again.
LEMMA OutcomeSteps ==
  ASSUME SyncInv, RunFinish \/ Succeeds \/ TryAgain
  PROVE  SyncInv'
<1>1. SyncTypes /\ UNCHANGED <<up, enabled, rports, op>>
  BY Zenon DEF SyncInv, RunFinish, Succeeds, TryAgain, Fails
<1>2. SyncTypes' /\ (Resync' \/ (~Resync /\ \A i \in Ifs : Target(i)' = Target(i)))
  <2>1. CASE RunFinish
    <3>1. /\ txn # NoTxn /\ txn.status # "sent" /\ tryAgain' = (txn.status = "TRY_AGAIN")
          /\ txn' = NoTxn /\ db' = db
      BY <2>1, Zenon DEF RunFinish, RetryAfter
    <3>2. SyncTypes'  BY <1>1, <3>1, Zenon DEF SyncTypes
    <3>3. \A i \in Ifs : Target(i)' = Target(i)  BY <3>1, Zenon DEF Target, NoTxn
    <3>4. Resync' \/ ~Resync  BY <3>1, Zenon DEF Resync
    <3> QED  BY <3>2, <3>3, <3>4, Zenon
  <2>2. CASE Succeeds
    <3>1. /\ InFlight /\ db' = Applied /\ txn' = [txn EXCEPT !.status = "SUCCESS"]
          /\ tryAgain' = tryAgain
      BY <2>2, Zenon DEF Succeeds
    <3>2. /\ txn \in Transactions /\ txn.status = "sent" /\ Applied \in [Ifs -> Column]
          /\ \A i \in Ifs : Applied[i] = Target(i)
      BY <1>1, <3>1, AppliedType, Zenon
    <3>3. txn' \in Transactions /\ txn'.status = "SUCCESS"  BY <3>1, <3>2, Zenon DEF Transactions
    <3>4. SyncTypes'  BY <1>1, <3>1, <3>2, <3>3, Zenon DEF SyncTypes
    <3>5. ~Resync  BY <3>1, <3>2, Zenon DEF Resync, InFlight
    <3>6. \A i \in Ifs : Target(i)' = db'[i]  BY <3>3, Zenon DEF Target
    <3> QED  BY <3>1, <3>2, <3>4, <3>5, <3>6, Zenon
  <2>3. CASE TryAgain
    <3>1. /\ InFlight /\ txn' = [txn EXCEPT !.status = "TRY_AGAIN"] /\ tryAgain' = tryAgain
          /\ db' = db \/ db' = Applied
      BY <2>3, Zenon DEF TryAgain, Fails
    <3>2. txn \in Transactions /\ Applied \in [Ifs -> Column]  BY <1>1, <3>1, AppliedType, Zenon
    <3>3. txn' \in Transactions /\ txn'.status = "TRY_AGAIN"  BY <3>1, <3>2, Zenon DEF Transactions
    <3>4. SyncTypes'  BY <1>1, <3>1, <3>2, <3>3, Zenon DEF SyncTypes
    <3> QED  BY <3>3, <3>4, Zenon DEF Resync
  <2> QED  BY <2>1, <2>2, <2>3, Zenon
<1>3. \A j \in Ifs : j \notin up' \/ ~enabled' => rports'[j] = <<>>  BY <1>1, Zenon DEF SyncInv
<1>4. ASSUME NEW j \in Ifs, NEW m \in Nbr, rports'[j] = <<m>> PROVE Followed(j, m)'
  <2>1. Followed(j, m)  BY <1>1, <1>4, Zenon DEF SyncInv
  <2> QED  BY <1>1, <1>2, <2>1, Zenon DEF Followed
<1> QED  BY <1>2, <1>3, <1>4, Zenon DEF SyncInv

\* Steps after which no interface has a neighbour.
LEMMA EmptyingSteps ==
  ASSUME SyncInv, Restart \/ RunClear \/ Disable \/ ReconfigureDisabled \/ Enable
  PROVE  SyncInv'
<1>1. SyncTypes /\ (~enabled => \A i \in Ifs : rports[i] = <<>>)  BY Zenon DEF SyncInv
<1>2. <<>> \in Lists /\ None \in Column  BY Zenon DEF Lists, Column
<1>3. ASSUME ClearAllNbrs PROVE db' \in [Ifs -> Column] /\ (txn' = NoTxn \/ txn' \in Transactions)
  <2>1. db' \in [Ifs -> Column]  BY <1>1, <1>2, <1>3, Zenon DEF ClearAllNbrs, SyncTypes
  <2>2. CASE InFlight
    <3>1. txn \in Transactions  BY <1>1, <2>2, AppliedType, Zenon
    <3>2. txn' = [txn EXCEPT !.status = "SUCCESS"] \/ txn' = [txn EXCEPT !.status = "TRY_AGAIN"]
      BY <1>3, <2>2, Zenon DEF ClearAllNbrs
    <3>3. txn' \in Transactions  BY <3>1, <3>2, Zenon DEF Transactions
    <3> QED  BY <2>1, <3>3, Zenon
  <2>3. CASE ~InFlight
    <3>1. txn' = txn  BY <1>3, <2>3, Zenon DEF ClearAllNbrs
    <3> QED  BY <1>1, <2>1, <3>1, Zenon DEF SyncTypes
  <2> QED  BY <2>2, <2>3, Zenon
<1>4. SyncTypes' /\ \A i \in Ifs : rports'[i] = <<>>
  <2>1. CASE Restart
    <3>1. db' \in [Ifs -> Column]
      <4>1. CASE db' = db  BY <1>1, <4>1, Zenon DEF SyncTypes
      <4>2. CASE InFlight /\ db' = Applied  BY <1>1, <4>2, AppliedType, Zenon
      <4> QED  BY <2>1, <4>1, <4>2, Zenon DEF Restart
    <3> QED  BY <1>1, <1>2, <2>1, <3>1, Zenon DEF Restart, SyncTypes
  <2>2. CASE RunClear
    <3>1. PICK w : w = [i \in Ifs |-> None]  BY Zenon
    <3>2. w \in [Ifs -> Column] /\ Commit(w, TRUE)  BY <1>2, <2>2, <3>1, Zenon DEF RunClear
    <3>3. txn' \in Transactions  BY <3>2, CommitType, Zenon
    <3> QED  BY <1>1, <1>2, <2>2, <3>3, Zenon DEF RunClear, SyncTypes
  <2>3. CASE Disable  BY <1>1, <1>2, <1>3, <2>3, Zenon DEF Disable, SyncTypes
  <2>4. CASE ReconfigureDisabled  BY <1>1, <1>3, <2>4, Zenon DEF ReconfigureDisabled, SyncTypes
  <2>5. CASE Enable  BY <1>1, <2>5, Zenon DEF Enable, SyncTypes
  <2> QED  BY <2>1, <2>2, <2>3, <2>4, <2>5, Zenon
<1> QED  BY <1>4, NobodyListed, Zenon

\* Every step of the daemon, of its neighbours and of the server keeps the
\* invariant.
LEMMA SyncStep ==
  ASSUME OnePerLink, SyncInv, [Next]_vars
  PROVE  SyncInv'
<1>1. CASE \E i \in Ifs : HearDuplicate(i) \/ HearChanged(i) \/ HearNew(i) \/ HearGarbage(i)
  BY <1>1, HearSteps, Zenon
<1>2. CASE Expire \/ \E i \in Ifs : HwGone(i) \/ HwBack(i)  BY <1>2, LeaveSteps, Zenon
<1>3. CASE Tick  BY <1>3, TickKeeps, Zenon
<1>4. CASE Restart \/ RunClear \/ Disable \/ ReconfigureDisabled \/ Enable
  BY <1>4, EmptyingSteps, Zenon
<1>5. CASE RunNbrs  BY <1>5, RunNbrsKeeps, Zenon
<1>6. CASE RunChangeAll  BY <1>6, RunChangeAllKeeps, Zenon
<1>7. CASE RunFinish \/ Succeeds \/ TryAgain  BY <1>7, OutcomeSteps, Zenon
<1>8. ~Error  BY Zenon DEF Error, OnePerLink
<1>9. CASE RequestClear \/ vars' = vars
  <2>1. UNCHANGED <<up, enabled, rports, op, db, txn, tryAgain>>  BY <1>9, Zenon DEF RequestClear, vars
  <2>2. SyncTypes'  BY <2>1, Zenon DEF SyncInv, SyncTypes
  <2>3. \A i \in Ifs : \A n \in Nbr : Followed(i, n)' = Followed(i, n)
    BY <2>1 DEF Followed, Resync, Target
  <2> QED  BY <2>1, <2>2, <2>3, Zenon DEF SyncInv
<1> QED  BY <1>1, <1>2, <1>3, <1>4, <1>5, <1>6, <1>7, <1>8, <1>9, Zenon DEF Next, Run

\* The daemon starts with an empty table and no request.
LEMMA SyncStart ==
  ASSUME Init
  PROVE  SyncInv
<1>1. SyncTypes  BY Zenon DEF Init, SyncTypes, Lists, Column
<1>2. \A i \in Ifs : rports[i] = <<>>  BY Zenon DEF Init
<1> QED  BY <1>1, <1>2, OneListed, Zenon DEF SyncInv

\* Where nothing is left to do, the column is what was followed.
LEMMA SettledInSync ==
  ASSUME SyncInv
  PROVE  InSync
<1> SUFFICES ASSUME NEW i \in Ifs, Settled(i), rports[i] # <<>>
             PROVE  db[i] = Head(rports[i]) \/ Head(rports[i]).age > Ttl + Slack
  BY Zenon DEF InSync
<1>1. PICK n \in Nbr : rports[i] = <<n>>  BY Zenon DEF SyncInv, SyncTypes, Lists
<1>2. Followed(i, n)  BY <1>1, Zenon DEF SyncInv
<1>3. ~Resync /\ Target(i) = db[i] /\ op[i] = "NOOP"  BY Zenon DEF Settled, Resync, Target, NoTxn
<1>4. Shown(n, db[i])  BY <1>2, <1>3, Zenon DEF Followed
<1>5. Head(rports[i]) = n  BY <1>1, OneListed, Zenon
<1> QED  BY <1>4, <1>5, Zenon DEF Shown

\* InSync (lldpd_run, lldpd_ovsdb_nbrs_run, lldpd_decode): with one neighbour
\* at a time on a link, frames that decode and a server that only ever asks to
\* try again, an interface lldpd_run has nothing left to do for has its
\* neighbour in the column, however reception, ageing, clearing, configuration,
\* restarts and failed transactions are interleaved. The run nbr_error shows
\* what the last condition is for.
THEOREM ColumnInSync ==
  ASSUME OnePerLink
  PROVE  Spec => []InSync
<1>1. Init => SyncInv  BY SyncStart, Zenon
<1>2. SyncInv /\ [Next]_vars => SyncInv'  BY SyncStep, Zenon
<1>3. SyncInv => InSync  BY SettledInSync, Zenon
<1> QED  BY <1>1, <1>2, <1>3, PTL DEF Spec

=============================================================================
