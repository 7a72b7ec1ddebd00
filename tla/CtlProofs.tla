------------------------------ MODULE CtlProofs ------------------------------
(***************************************************************************)
(* Proofs about the control protocol, for any number of requests,          *)
(* notifications and connections and however the streams are cut: an       *)
(* answer the library accepts is the one to the request just made, and     *)
(* notifications are delivered in order, none twice and none left out.     *)
(*                                                                         *)
(* What has not been taken from a direction is the receiver's buffer       *)
(* followed by the socket. Reading moves parts from the one to the other   *)
(* and leaves their concatenation alone, so the invariant is about that.   *)
(***************************************************************************)
EXTENDS Ctl, SequenceTheorems, TLAPS

-----------------------------------------------------------------------------
\* Sequences.

\* Concatenation is associative.
LEMMA ConcatAssoc ==
  \A S : \A s \in Seq(S), t \in Seq(S), v \in Seq(S) : (s \o t) \o v = s \o (t \o v)
BY ConcatAssociative, Zenon

\* A sequence in two pieces behind another one.
LEMMA Behind ==
  ASSUME NEW S, NEW s \in Seq(S), NEW t \in Seq(S), NEW v \in Seq(S), NEW x, x = t \o v
  PROVE  (s \o t) \o v = s \o x
<1>1. (s \o t) \o v = s \o (t \o v)  BY ConcatAssoc
<1> QED  BY <1>1, Zenon

\* A sequence in two pieces.
LEMMA Pieces ==
  ASSUME NEW S, NEW y \in Seq(S), NEW n \in 0 .. Len(y)
  PROVE  /\ SubSeq(y, 1, n) \in Seq(S) /\ SubSeq(y, n + 1, Len(y)) \in Seq(S)
         /\ Len(SubSeq(y, 1, n)) = n
         /\ y = SubSeq(y, 1, n) \o SubSeq(y, n + 1, Len(y))
<1>1. Len(y) \in Nat /\ \A i \in 1 .. Len(y) : y[i] \in S  BY LenProperties, ElementOfSeq, Zenon
<1>2. SubSeq(y, 1, n) \in Seq(S) /\ Len(SubSeq(y, 1, n)) = n
  <2>1. \A i \in 1 .. n : y[i] \in S  BY <1>1
  <2> QED  BY <1>1, <2>1, SubSeqProperties
<1>3. SubSeq(y, n + 1, Len(y)) \in Seq(S)
  <2>1. \A i \in n + 1 .. Len(y) : y[i] \in S  BY <1>1
  <2> QED  BY <1>1, <2>1, SubSeqProperties
<1>4. SubSeq(y, 1, n) \o SubSeq(y, n + 1, Len(y)) = SubSeq(y, 1, Len(y))
  <2>1. 1 \in 1 .. Len(y) + 1 /\ n \in 1 - 1 .. Len(y) /\ Len(y) \in n .. Len(y)
    BY <1>1
  <2> QED  BY <2>1, ConcatAdjacentSubSeq, Zenon
<1>5. SubSeq(y, 1, Len(y)) = y  BY SubSeqFull, Zenon
<1> QED  BY <1>2, <1>3, <1>4, <1>5, Zenon

\* Nothing is lost between a buffer and a socket, x and y before, v and u now.
Moved(x, y, v, u) == v \o u = x \o y

\* Reading n parts of a socket moves them behind the buffer.
LEMMA Shifted ==
  ASSUME NEW S, NEW x \in Seq(S), NEW y \in Seq(S), NEW n \in 0 .. Len(y)
  PROVE  /\ x \o SubSeq(y, 1, n) \in Seq(S) /\ SubSeq(y, n + 1, Len(y)) \in Seq(S)
         /\ Moved(x, y, x \o SubSeq(y, 1, n), SubSeq(y, n + 1, Len(y)))
<1> DEFINE front == SubSeq(y, 1, n)
           rest == SubSeq(y, n + 1, Len(y))
<1>1. front \in Seq(S) /\ rest \in Seq(S) /\ Len(front) = n /\ y = front \o rest
  BY Pieces, Zenon
<1> HIDE DEF front, rest
<1>2. x \o front \in Seq(S) /\ Len(x \o front) = Len(x) + n  BY <1>1, ConcatProperties, Zenon
<1>3. (x \o front) \o rest = x \o y  BY <1>1, Behind
<1>4. Moved(x, y, x \o front, rest)  BY <1>3, Zenon DEF Moved
<1> QED  BY <1>1, <1>2, <1>4, Zenon DEF front, rest

\* Sequence t is what follows the first d elements of s.
Follows(s, d, t) == Len(t) = Len(s) - d /\ \A i \in 1 .. Len(s) - d : t[i] = s[d + i]

\* Dropping d parts of a buffer drops them from what has not been taken yet.
LEMMA Dropped ==
  ASSUME NEW S, NEW x \in Seq(S), NEW y \in Seq(S), NEW d \in 0 .. Len(x),
         NEW r, r = SubSeq(x, d + 1, Len(x))
  PROVE  r \in Seq(S) /\ Follows(x \o y, d, r \o y)
<1> DEFINE rest == SubSeq(x, d + 1, Len(x))
<1>1. PICK lx \in Nat, ly \in Nat : lx = Len(x) /\ ly = Len(y)
  BY LenProperties, Zenon
<1>2. d \in 0 .. lx /\ \A i \in 1 .. lx : x[i] \in S
  BY <1>1, ElementOfSeq, Zenon
<1>3. /\ rest \in Seq(S) /\ Len(rest) = lx - d
      /\ \A i \in 1 .. lx - d : rest[i] = x[d + i]
  <2>1. \A i \in d + 1 .. lx : x[i] \in S  BY <1>2
  <2>2. /\ rest \in Seq(S)
        /\ Len(rest) = IF d + 1 <= lx THEN lx - (d + 1) + 1 ELSE 0
        /\ \A i \in 1 .. lx - (d + 1) + 1 : rest[i] = x[d + 1 + i - 1]
    BY <1>1, <1>2, <2>1, SubSeqProperties
  <2> QED  BY <1>1, <1>2, <2>2
<1> HIDE DEF rest
<1>4. /\ rest \o y \in Seq(S) /\ Len(rest \o y) = lx - d + ly
      /\ \A i \in 1 .. lx - d + ly :
           (rest \o y)[i] = IF i <= lx - d THEN rest[i] ELSE y[i - (lx - d)]
  <2>1. /\ rest \o y \in Seq(S) /\ Len(rest \o y) = Len(rest) + Len(y)
        /\ \A i \in 1 .. Len(rest) + Len(y) :
             (rest \o y)[i] = IF i <= Len(rest) THEN rest[i] ELSE y[i - Len(rest)]
    BY <1>3, ConcatProperties, Zenon
  <2> QED  BY <1>1, <1>3, <2>1, Zenon
<1>5. /\ Len(x \o y) = lx + ly
      /\ \A i \in 1 .. lx + ly : (x \o y)[i] = IF i <= lx THEN x[i] ELSE y[i - lx]
  BY <1>1, ConcatProperties, Zenon
<1>6. ASSUME NEW i \in 1 .. lx + ly - d PROVE (rest \o y)[i] = (x \o y)[d + i]
  <2>1. i \in 1 .. lx - d + ly /\ d + i \in 1 .. lx + ly  BY <1>1, <1>2
  <2>2. CASE i <= lx - d
    <3>1. i \in 1 .. lx - d /\ d + i <= lx  BY <1>1, <1>2, <2>1, <2>2
    <3> QED  BY <1>3, <1>4, <1>5, <2>1, <2>2, <3>1, Zenon
  <2>3. CASE ~(i <= lx - d)
    <3>1. ~(d + i <= lx)  BY <1>1, <1>2, <2>1, <2>3
    <3>2. i - (lx - d) = d + i - lx  BY <1>1, <1>2
    <3>3. (rest \o y)[i] = y[i - (lx - d)]  BY <1>4, <2>1, <2>3, Zenon
    <3>4. (x \o y)[d + i] = y[d + i - lx]  BY <1>5, <2>1, <3>1
    <3> QED  BY <3>2, <3>3, <3>4, Zenon
  <2> QED  BY <2>2, <2>3, Zenon
<1>7. Len(rest \o y) = lx + ly - d  BY <1>1, <1>2, <1>4
<1>8. Follows(x \o y, d, rest \o y)
  <2>1. Len(x \o y) - d = lx + ly - d  BY <1>5
  <2> QED  BY <1>6, <1>7, <2>1, Zenon DEF Follows
<1> QED  BY <1>3, <1>8, Zenon DEF rest

-----------------------------------------------------------------------------
\* Streams of messages.

NoteOf(n) == [type |-> "notification", id |-> n, len |-> 1]

\* After d notifications come b more, each with its header and its payload,
\* then the w parts of message m, then another c notifications.
Framed(s, d, b, w, c, m) ==
  /\ Len(s) = 2 * b + w + 2 * c
  /\ \A i \in 1 .. b : s[2 * i - 1] = NoteOf(d + i) /\ s[2 * i] = NoteOf(d + i)
  /\ \A i \in 1 .. w : s[2 * b + i] = m
  /\ \A i \in 1 .. c : /\ s[2 * b + w + 2 * i - 1] = NoteOf(d + b + i)
                       /\ s[2 * b + w + 2 * i] = NoteOf(d + b + i)

\* Every position is odd or even.
LEMMA Halves ==
  \A i \in Nat : \E j \in Nat : i = 2 * j \/ i = 2 * j - 1
<1> SUFFICES ASSUME NEW i \in Nat PROVE \E j \in Nat : i = 2 * j \/ i = 2 * j - 1
  BY Zenon
<1>1. (i + 1) \div 2 \in Nat /\ (i = 2 * ((i + 1) \div 2) \/ i = 2 * ((i + 1) \div 2) - 1)
  OBVIOUS
<1> QED  BY <1>1, Zenon

\* The first parts of a stream are those of the notifications in front.
LEMMA InFront ==
  ASSUME NEW s, NEW d \in Nat, NEW b \in Nat, NEW w \in Nat, NEW c \in Nat, NEW m,
         Framed(s, d, b, w, c, m), NEW i \in 1 .. 2 * b
  PROVE  s[i].type = "notification"
<1>1. PICK j \in Nat : i = 2 * j \/ i = 2 * j - 1
  <2>1. i \in Nat  OBVIOUS
  <2> QED  BY <2>1, Halves, Zenon
<1>2. j \in 1 .. b  BY <1>1
<1>3. s[i] = NoteOf(d + j)  BY <1>1, <1>2, Zenon DEF Framed
<1> QED  BY <1>3 DEF NoteOf

\* check_for_notification takes only notifications that are complete and in
\* front of an answer.
LEMMA LeadingInFront ==
  ASSUME NEW in \in Seq(Messages), NEW rest \in Seq(Messages), NEW s, s = in \o rest,
         NEW d \in Nat, NEW b \in Nat, NEW w \in Nat, NEW c \in Nat, NEW m,
         Framed(s, d, b, w, c, m), w = 0 => c = 0, w > 0 => m.type # "notification"
  PROVE  Leading(in) \in 0 .. b /\ 2 * Leading(in) <= Len(in)
<1>1. PICK l \in Nat : l = Len(in)  BY LenProperties, Zenon
<1>2. PICK h \in Nat : h = l \div 2 /\ 2 * h <= l /\ l <= 2 * h + 1
  <2>1. l \div 2 \in Nat /\ 2 * (l \div 2) <= l /\ l <= 2 * (l \div 2) + 1  OBVIOUS
  <2> QED  BY <2>1, Zenon
<1>3. Len(rest) \in Nat /\ Len(s) = l + Len(rest) /\ \A i \in 1 .. l : in[i] = s[i]
  BY <1>1, ConcatProperties, LenProperties
<1> DEFINE K == {k \in 0 .. h : \A i \in 1 .. 2 * k : in[i].type = "notification"}
           top == IF b <= h THEN b ELSE h
<1>4. Leading(in) = CHOOSE x \in K : \A y \in K : x >= y
  BY <1>1, <1>2, Zenon DEF Leading, Max
<1>5. top \in K
  <2>1. top \in 0 .. h /\ top <= b /\ top \in Nat  BY <1>2
  <2>2. \A i \in 1 .. 2 * top : i \in 1 .. 2 * b /\ i \in 1 .. l  BY <1>2, <2>1
  <2>3. \A i \in 1 .. 2 * b : s[i].type = "notification"  BY InFront, Zenon
  <2>4. \A i \in 1 .. 2 * top : in[i].type = "notification"  BY <1>3, <2>2, <2>3, Zenon
  <2> QED  BY <2>1, <2>4, Zenon
<1>6. ASSUME NEW k \in K PROVE k <= b /\ k <= top
  <2>1. k \in Nat /\ k <= h /\ \A i \in 1 .. 2 * k : in[i].type = "notification"  BY <1>2
  <2> HIDE DEF K
  <2>2. SUFFICES ASSUME k > b PROVE FALSE  BY <1>2, <2>1
  <2>3. 2 * b + 1 \in 1 .. 2 * k /\ 2 * b + 1 \in 1 .. l  BY <1>2, <2>1, <2>2
  <2>4. s[2 * b + 1].type = "notification"  BY <1>3, <2>1, <2>3, Zenon
  <2>5. CASE w = 0
    <3>1. Len(s) = 2 * b  BY <2>5 DEF Framed
    <3> QED  BY <1>3, <2>3, <3>1
  <2>6. CASE w > 0
    <3>1. 1 \in 1 .. w  BY <2>6
    <3>2. s[2 * b + 1] = m  BY <3>1, Zenon DEF Framed
    <3> QED  BY <2>4, <2>6, <3>2, Zenon
  <2> QED  BY <2>5, <2>6
<1>7. K \subseteq Nat  BY <1>2
<1>8. \A y \in K : top >= y  BY <1>2, <1>6, <1>7, Zenon
<1> HIDE DEF K, top
<1>9. Leading(in) \in K  BY <1>4, <1>5, <1>8, Zenon
<1>10. Leading(in) <= b  BY <1>6, <1>9, Zenon
<1>11. Leading(in) \in 0 .. h  BY <1>9, Zenon DEF K
<1> QED  BY <1>1, <1>2, <1>10, <1>11

\* Notifications in front are taken one after the other.
LEMMA NotesTaken ==
  ASSUME NEW s, NEW t, NEW d \in Nat, NEW b \in Nat, NEW w \in Nat, NEW c \in Nat, NEW m,
         Framed(s, d, b, w, c, m), NEW k \in 0 .. b, Follows(s, 2 * k, t)
  PROVE  Framed(t, d + k, b - k, w, c, m)
<1>0. Len(t) = Len(s) - 2 * k /\ \A i \in 1 .. Len(s) - 2 * k : t[i] = s[2 * k + i]
  BY Zenon DEF Follows
<1>1. Len(s) = 2 * b + w + 2 * c  BY Zenon DEF Framed
<1>2. k \in Nat /\ k <= b  OBVIOUS
<1>3. Len(t) = 2 * (b - k) + w + 2 * c  BY <1>0, <1>1, <1>2
<1>4. ASSUME NEW i \in 1 .. b - k
      PROVE  t[2 * i - 1] = NoteOf(d + k + i) /\ t[2 * i] = NoteOf(d + k + i)
  <2>1. k + i \in 1 .. b /\ 2 * i - 1 \in 1 .. Len(s) - 2 * k /\ 2 * i \in 1 .. Len(s) - 2 * k
    BY <1>1, <1>2
  <2>2. 2 * k + (2 * i - 1) = 2 * (k + i) - 1 /\ 2 * k + 2 * i = 2 * (k + i) /\ d + k + i = d + (k + i)
    BY <1>2
  <2>3. s[2 * (k + i) - 1] = NoteOf(d + (k + i)) /\ s[2 * (k + i)] = NoteOf(d + (k + i))
    BY <2>1, Zenon DEF Framed
  <2>4. t[2 * i - 1] = s[2 * k + (2 * i - 1)] /\ t[2 * i] = s[2 * k + 2 * i]  BY <1>0, <2>1, Zenon
  <2> QED  BY <2>2, <2>3, <2>4, Zenon
<1>5. ASSUME NEW i \in 1 .. w PROVE t[2 * (b - k) + i] = m
  <2>1. 2 * (b - k) + i \in 1 .. Len(s) - 2 * k  BY <1>1, <1>2
  <2>2. 2 * k + (2 * (b - k) + i) = 2 * b + i  BY <1>2
  <2>3. s[2 * b + i] = m  BY Zenon DEF Framed
  <2> QED  BY <1>0, <2>1, <2>2, <2>3, Zenon
<1>6. ASSUME NEW i \in 1 .. c
      PROVE  /\ t[2 * (b - k) + w + 2 * i - 1] = NoteOf(d + k + (b - k) + i)
             /\ t[2 * (b - k) + w + 2 * i] = NoteOf(d + k + (b - k) + i)
  <2>1. /\ 2 * (b - k) + w + 2 * i - 1 \in 1 .. Len(s) - 2 * k
        /\ 2 * (b - k) + w + 2 * i \in 1 .. Len(s) - 2 * k
    BY <1>1, <1>2
  <2>2. /\ 2 * k + (2 * (b - k) + w + 2 * i - 1) = 2 * b + w + 2 * i - 1
        /\ 2 * k + (2 * (b - k) + w + 2 * i) = 2 * b + w + 2 * i
        /\ d + k + (b - k) + i = d + b + i
    BY <1>2
  <2>3. s[2 * b + w + 2 * i - 1] = NoteOf(d + b + i) /\ s[2 * b + w + 2 * i] = NoteOf(d + b + i)
    BY Zenon DEF Framed
  <2> QED  BY <1>0, <2>1, <2>2, <2>3, Zenon
<1> QED  BY <1>3, <1>4, <1>5, <1>6, Zenon DEF Framed

\* Taking k notifications off the front of a buffer takes them off the stream.
LEMMA TakenOff ==
  ASSUME NEW in \in Seq(Messages), NEW rest \in Seq(Messages), NEW s, s = in \o rest,
         NEW d \in Nat, NEW b \in Nat, NEW w \in Nat, NEW c \in Nat, NEW m,
         Framed(s, d, b, w, c, m), NEW k \in 0 .. b, NEW e \in 0 .. Len(in), e = 2 * k,
         NEW left, left = SubSeq(in, e + 1, Len(in))
  PROVE  left \in Seq(Messages) /\ Framed(left \o rest, d + k, b - k, w, c, m)
<1>1. left \in Seq(Messages) /\ Follows(in \o rest, e, left \o rest)  BY Dropped, ZenonT(30)
<1>2. Framed(left \o rest, d + k, b - k, w, c, m)  BY <1>1, NotesTaken, Zenon
<1> QED  BY <1>1, <1>2, Zenon

\* The answer in front is taken whole.
LEMMA AnswerTaken ==
  ASSUME NEW s, NEW t, NEW d \in Nat, NEW w \in Nat, NEW c \in Nat, NEW m,
         Framed(s, d, 0, w, c, m), Follows(s, w, t)
  PROVE  Framed(t, d, c, 0, 0, m)
<1>0. Len(t) = Len(s) - w /\ \A i \in 1 .. Len(s) - w : t[i] = s[w + i]  BY Zenon DEF Follows
<1>1. Len(s) = w + 2 * c  BY DEF Framed
<1>2. Len(t) = 2 * c + 0 + 2 * 0  BY <1>0, <1>1
<1>3. ASSUME NEW i \in 1 .. c PROVE t[2 * i - 1] = NoteOf(d + i) /\ t[2 * i] = NoteOf(d + i)
  <2>1. 2 * i - 1 \in 1 .. Len(s) - w /\ 2 * i \in 1 .. Len(s) - w  BY <1>1
  <2>2. t[2 * i - 1] = s[w + (2 * i - 1)] /\ t[2 * i] = s[w + 2 * i]  BY <1>0, <2>1, Zenon
  <2>3. /\ w + (2 * i - 1) = 2 * 0 + w + 2 * i - 1 /\ w + 2 * i = 2 * 0 + w + 2 * i
        /\ d + 0 + i = d + i
    OBVIOUS
  <2>4. /\ s[2 * 0 + w + 2 * i - 1] = NoteOf(d + 0 + i) /\ s[2 * 0 + w + 2 * i] = NoteOf(d + 0 + i)
    BY Zenon DEF Framed
  <2> QED  BY <2>2, <2>3, <2>4, Zenon
<1> QED  BY <1>2, <1>3 DEF Framed

\* Sequence t is s with e behind it.
Extended(s, e, t) ==
  /\ Len(t) = Len(s) + Len(e)
  /\ \A i \in 1 .. Len(s) : t[i] = s[i]
  /\ \A i \in 1 .. Len(e) : t[Len(s) + i] = e[i]

\* What is written comes behind what is there.
LEMMA Written ==
  ASSUME NEW x \in Seq(Messages), NEW y \in Seq(Messages), NEW e \in Seq(Messages)
  PROVE  /\ y \o e \in Seq(Messages)
         /\ x \o (y \o e) = (x \o y) \o e
         /\ Extended(x \o y, e, x \o (y \o e))
<1>1. y \o e \in Seq(Messages) /\ x \o y \in Seq(Messages)  BY ConcatProperties, Zenon
<1>2. x \o (y \o e) = (x \o y) \o e  BY ConcatAssoc
<1> DEFINE s == x \o y
<1>3. PICK ls \in Nat, le \in Nat : ls = Len(s) /\ le = Len(e)  BY <1>1, LenProperties, Zenon
<1> HIDE DEF s
<1>4. s \in Seq(Messages)  BY <1>1, Zenon DEF s
<1>5. /\ Len(s \o e) = ls + le
      /\ \A i \in 1 .. ls + le : (s \o e)[i] = IF i <= ls THEN s[i] ELSE e[i - ls]
  BY <1>3, <1>4, ConcatProperties, Zenon
<1>6. ASSUME NEW i \in 1 .. le PROVE (s \o e)[ls + i] = e[i]
  <2>1. ls + i \in 1 .. ls + le /\ ~(ls + i <= ls) /\ (ls + i) - ls = i  BY <1>3
  <2> QED  BY <1>5, <2>1, Zenon
<1>7. \A i \in 1 .. ls : (s \o e)[i] = s[i]  BY <1>3, <1>5
<1>8. Extended(s, e, s \o e)  BY <1>3, <1>5, <1>6, <1>7, Zenon DEF Extended
<1> QED  BY <1>1, <1>2, <1>8, Zenon DEF s

\* A message is written as its header and its payload.
LEMMA EncodedParts ==
  ASSUME NEW type \in Types, NEW id \in Nat, NEW len \in {0, 1}
  PROVE  LET m == [type |-> type, id |-> id, len |-> len]
             e == Encoded(type, id, len)
         IN /\ m \in Messages /\ e \in Seq(Messages)
            /\ Len(e) = 1 + len
            /\ \A i \in 1 .. 1 + len : e[i] = m
<1> DEFINE m == [type |-> type, id |-> id, len |-> len]
<1>1. m \in Messages  BY Zenon DEF Messages
<1>2. Encoded(type, id, len) = [i \in 1 .. 1 + len |-> m]  BY Zenon DEF Encoded
<1> HIDE DEF m
<1>3. [i \in 1 .. 1 + len |-> m] \in Seq(Messages)  BY <1>1
<1>4. Len([i \in 1 .. 1 + len |-> m]) = 1 + len  BY <1>3
<1> QED  BY <1>1, <1>2, <1>3, <1>4, Zenon DEF m

\* An answer is written behind the notifications that are under way.
LEMMA AnswerAdded ==
  ASSUME NEW s, NEW t, NEW d \in Nat, NEW b \in Nat, NEW w \in Nat, NEW m, NEW o,
         Framed(s, d, b, 0, 0, o), Len(t) = Len(s) + w,
         \A i \in 1 .. Len(s) : t[i] = s[i], \A i \in 1 .. w : t[Len(s) + i] = m
  PROVE  Framed(t, d, b, w, 0, m)
<1>1. Len(s) = 2 * b  BY DEF Framed
<1>2. Len(t) = 2 * b + w + 2 * 0  BY <1>1
<1>3. ASSUME NEW i \in 1 .. b PROVE t[2 * i - 1] = NoteOf(d + i) /\ t[2 * i] = NoteOf(d + i)
  <2>1. 2 * i - 1 \in 1 .. Len(s) /\ 2 * i \in 1 .. Len(s)  BY <1>1
  <2>2. s[2 * i - 1] = NoteOf(d + i) /\ s[2 * i] = NoteOf(d + i)  BY Zenon DEF Framed
  <2> QED  BY <2>1, <2>2, Zenon
<1>4. \A i \in 1 .. w : t[2 * b + i] = m  BY <1>1, Zenon
<1> QED  BY <1>2, <1>3, <1>4 DEF Framed

\* A notification is written behind everything, which is more of the same.
LEMMA NoteAdded ==
  ASSUME NEW s, NEW t, NEW d \in Nat, NEW b \in Nat, NEW w \in Nat, NEW c \in Nat, NEW m,
         Framed(s, d, b, w, c, m), Len(t) = Len(s) + 2,
         \A i \in 1 .. Len(s) : t[i] = s[i],
         \A i \in 1 .. 2 : t[Len(s) + i] = NoteOf(d + b + c + 1)
  PROVE  Framed(t, d, b, w, c + 1, m)
<1>1. Len(s) = 2 * b + w + 2 * c  BY Zenon DEF Framed
<1>2. Len(t) = 2 * b + w + 2 * (c + 1)  BY <1>1
<1>3. ASSUME NEW i \in 1 .. b PROVE t[2 * i - 1] = NoteOf(d + i) /\ t[2 * i] = NoteOf(d + i)
  <2>1. 2 * i - 1 \in 1 .. Len(s) /\ 2 * i \in 1 .. Len(s)  BY <1>1
  <2>2. s[2 * i - 1] = NoteOf(d + i) /\ s[2 * i] = NoteOf(d + i)  BY Zenon DEF Framed
  <2> QED  BY <2>1, <2>2, Zenon
<1>4. ASSUME NEW i \in 1 .. w PROVE t[2 * b + i] = m
  <2>1. 2 * b + i \in 1 .. Len(s)  BY <1>1
  <2>2. s[2 * b + i] = m  BY Zenon DEF Framed
  <2> QED  BY <2>1, <2>2, Zenon
<1>5. ASSUME NEW i \in 1 .. c + 1
      PROVE  /\ t[2 * b + w + 2 * i - 1] = NoteOf(d + b + i)
             /\ t[2 * b + w + 2 * i] = NoteOf(d + b + i)
  <2>1. CASE i \in 1 .. c
    <3>1. 2 * b + w + 2 * i - 1 \in 1 .. Len(s) /\ 2 * b + w + 2 * i \in 1 .. Len(s)
      <4>1. /\ 2 * b + w + 2 * i - 1 \in 1 .. 2 * b + w + 2 * c
            /\ 2 * b + w + 2 * i \in 1 .. 2 * b + w + 2 * c
        BY <2>1
      <4> QED  BY <1>1, <4>1, Zenon
    <3>2. s[2 * b + w + 2 * i - 1] = NoteOf(d + b + i) /\ s[2 * b + w + 2 * i] = NoteOf(d + b + i)
      BY <2>1, Zenon DEF Framed
    <3> QED  BY <3>1, <3>2, Zenon
  <2>2. CASE i = c + 1
    <3>1. 2 * b + w + 2 * i - 1 = Len(s) + 1 /\ 2 * b + w + 2 * i = Len(s) + 2
          /\ d + b + c + 1 = d + b + i
      BY <1>1, <2>2
    <3>2. 1 \in 1 .. 2 /\ 2 \in 1 .. 2  OBVIOUS
    <3> QED  BY <3>1, <3>2, Zenon
  <2> QED  BY <2>1, <2>2
<1> QED  BY <1>2, <1>3, <1>4, <1>5, Zenon DEF Framed

\* With no answer under way, notifications are in front, before and after.
LEMMA NotesOnly ==
  ASSUME NEW s, NEW d \in Nat, NEW c \in Nat, NEW m, NEW b \in Nat, NEW o
  PROVE  /\ Framed(s, d, b, 0, 0, m) => Framed(s, d, b, 0, 0, o)
         /\ Framed(s, d, 0, 0, c, m) => Framed(s, d, c, 0, 0, o)
         /\ Framed(s, d, c, 0, 0, m) => Framed(s, d, 0, 0, c, o)
<1>1. Framed(s, d, b, 0, 0, m) => Framed(s, d, b, 0, 0, o)  BY DEF Framed
<1>2. \A i \in 1 .. c : /\ 2 * 0 + 0 + 2 * i - 1 = 2 * i - 1 /\ 2 * 0 + 0 + 2 * i = 2 * i
                        /\ d + 0 + i = d + i
  OBVIOUS
<1>3. 2 * 0 + 0 + 2 * c = 2 * c + 0 + 2 * 0  OBVIOUS
<1> QED  BY <1>1, <1>2, <1>3 DEF Framed

-----------------------------------------------------------------------------
\* The invariant.

Connections ==
  [state : {"idle", "recv"}, want : Requests \cup {"none"}, in : Seq(Messages),
   watch : BOOLEAN, watching : BOOLEAN, failed : BOOLEAN]

CtlTypes ==
  /\ conn \in Connections
  /\ client \in [subscribed : BOOLEAN, in : Seq(Messages)]
  /\ toServer \in Seq(Messages) /\ toClient \in Seq(Messages)
  /\ asked \in Nat /\ sent \in Seq(Nat) /\ delivered \in Seq(Nat)

\* What the program and the daemon have not taken yet.
Coming == conn.in \o toClient
ToAnswer == client.in \o toServer

\* Notifications are numbered as they are sent, and delivered in that order.
Numbered ==
  /\ \A i \in 1 .. Len(sent) : sent[i] = i
  /\ \A i \in 1 .. Len(delivered) : delivered[i] = i

Under(b, w, c, m) ==
  Framed(Coming, Len(delivered), b, w, c, m) /\ Len(delivered) + b + c = Len(sent)

\* No request is under way.
Idle ==
  /\ conn.state = "idle" /\ ToAnswer = <<>>
  /\ client.subscribed => conn.watch
  /\ \E b \in Nat : Under(b, 0, 0, NoteOf(0))

\* The daemon has not read all of the request.
Waiting ==
  /\ conn.state = "recv" /\ conn.want \in Requests
  /\ ToAnswer = Encoded(conn.want, asked, IF conn.want = "set" THEN 1 ELSE 0)
  /\ client.subscribed => conn.watch
  /\ \E b \in Nat : Under(b, 0, 0, NoteOf(0))

\* The daemon has answered, with b notifications before the answer and c behind
\* it. Nothing comes before the answer to the first subscription.
Answering(b, c, m) ==
  /\ conn.state = "recv" /\ conn.want \in Requests /\ ToAnswer = <<>>
  /\ m.id = asked /\ m.type \in {conn.want, "none"}
  /\ client.subscribed => conn.watch \/ (b = 0 /\ conn.want = "subscribe" /\ m.type = "subscribe")
  /\ Under(b, 1 + m.len, c, m)

\* OwnAnswer and InOrder are not inductive: they do not say that a request that
\* has been answered leaves nothing behind in either direction.
CtlInv ==
  /\ CtlTypes /\ Numbered /\ OwnAnswer
  /\ ~client.subscribed => Len(sent) = 0
  /\ ~conn.failed =>
       Idle \/ Waiting \/ \E b \in Nat, c \in Nat : \E m \in Messages : Answering(b, c, m)

\* check_for_notification: notifications in front are taken in order, and each
\* one that is taken is delivered.
LEMMA Processed ==
  ASSUME CtlTypes, Numbered, NEW in \in Seq(Messages), NEW rest \in Seq(Messages),
         Coming = in \o rest, NEW n \in Nat, Process(in, n), toClient' = rest, sent' = sent,
         NEW b \in Nat, NEW w \in Nat, NEW c \in Nat, NEW m, Under(b, w, c, m),
         w = 0 => c = 0, w > 0 => m.type # "notification", ~conn.watch => b = 0
  PROVE  /\ conn' \in Connections
         /\ conn'.state = conn.state /\ conn'.want = conn.want
         /\ conn'.watch = conn.watch /\ conn'.failed = conn.failed
         /\ delivered' \in Seq(Nat) /\ Numbered'
         /\ \E e \in Nat : e <= b /\ Under(e, w, c, m)'
<1>1. PICK d \in Nat : d = Len(delivered)  BY LenProperties, Zenon DEF CtlTypes
<1>2. PICK s : s = in \o rest  BY Zenon
<1>3. Len(in) \in Nat /\ delivered \in Seq(Nat)  BY LenProperties, Zenon DEF CtlTypes
<1>4. Framed(s, d, b, w, c, m) /\ d + b + c = Len(sent)
  BY <1>1, <1>2, Zenon DEF Under
<1>5. PICK k \in 0 .. b : k = Checked(in, n) /\ 2 * k <= Len(in)
  <2>1. PICK l \in 0 .. b : l = Leading(in) /\ 2 * l <= Len(in)
    BY <1>2, <1>4, LeadingInFront, Zenon
  <2>2. Checked(in, n) = CHOOSE x \in {n, l} : \A y \in {n, l} : x =< y
    BY <2>1, Zenon DEF Checked, Min
  <2>3. \E x \in {n, l} : \A y \in {n, l} : x =< y
    <3>1. CASE n <= l  BY <3>1
    <3>2. CASE l <= n  BY <3>2
    <3> QED  BY <3>1, <3>2
  <2>4. PICK x \in {n, l} : x = Checked(in, n) /\ x <= l  BY <2>2, <2>3, Zenon
  <2>5. x \in 0 .. b /\ 2 * x <= Len(in)  BY <1>3, <2>1, <2>4, SMTT(30)
  <2> QED  BY <2>4, <2>5, Zenon
<1>6. /\ conn' = [conn EXCEPT !.in = SubSeq(in, 2 * k + 1, Len(in)),
                              !.watching = @ /\ ~(k > 0 /\ conn.watch)]
      /\ delivered' = IF conn.watch THEN delivered \o [i \in 1 .. k |-> in[2 * i].id]
                      ELSE delivered
  BY <1>5, Zenon DEF Process
<1>7. 2 * k \in 0 .. Len(in)  BY <1>3, <1>5
<1>8. PICK e, left : e = 2 * k /\ e \in 0 .. Len(in) /\ left = SubSeq(in, e + 1, Len(in))
  BY <1>7, Zenon
<1>9. left \in Seq(Messages) /\ Framed(left \o rest, d + k, b - k, w, c, m)
  BY <1>2, <1>4, <1>8, TakenOff, Zenon
<1>10. ASSUME NEW i \in 1 .. k PROVE in[2 * i].id = d + i
  <2>1. \A j \in 1 .. Len(in) : s[j] = in[j]  BY <1>3, <1>2, ConcatProperties, LenProperties
  <2>2. i \in 1 .. b /\ 2 * i \in 1 .. Len(in)  BY <1>3, <1>5
  <2>3. s[2 * i] = NoteOf(d + i)  BY <1>4, <2>2, Zenon DEF Framed
  <2>4. \A x : NoteOf(x).id = x  BY Zenon DEF NoteOf
  <2> QED  BY <2>1, <2>2, <2>3, <2>4, Zenon
<1>11. /\ conn' \in Connections /\ conn'.in = left
      /\ conn'.state = conn.state /\ conn'.want = conn.want
      /\ conn'.watch = conn.watch /\ conn'.failed = conn.failed
  BY <1>6, <1>8, <1>9, Zenon DEF CtlTypes, Connections
<1>12. Coming' = left \o rest  BY <1>8, <1>11, Zenon DEF Coming
<1>13. delivered' \in Seq(Nat) /\ Len(delivered') = d + k
       /\ \A i \in 1 .. Len(delivered') : delivered'[i] = i
  <2>1. CASE conn.watch
    <3> DEFINE new == [i \in 1 .. k |-> in[2 * i].id]
    <3>2. new = [i \in 1 .. k |-> d + i]  BY <1>10, Zenon
    <3>3. new \in Seq(Nat) /\ Len(new) = k /\ \A i \in 1 .. k : new[i] = d + i
      <4>1. k \in Nat /\ \A i \in 1 .. k : d + i \in Nat  BY <1>3, <1>5
      <4>2. new \in [1 .. k -> Nat]  BY <3>2, <4>1, Zenon
      <4>3. new \in Seq(Nat)
        <5>1. \A q \in [1 .. k -> Nat] : q \in Seq(Nat)  BY <4>1
        <5> HIDE DEF new
        <5> QED  BY <4>2, <5>1, Zenon
      <4>4. DOMAIN new = 1 .. k  BY <4>2, Zenon
      <4>5. Len(new) = k  BY <4>1, <4>3, <4>4, LenProperties
      <4> QED  BY <3>2, <4>3, <4>5, Zenon
    <3> HIDE DEF new
    <3>4. delivered' = delivered \o new  BY <1>6, <2>1, Zenon DEF new
    <3>5. /\ delivered' \in Seq(Nat) /\ Len(delivered') = d + k
          /\ \A i \in 1 .. d + k : delivered'[i] = IF i <= d THEN delivered[i] ELSE new[i - d]
      BY <1>3, <1>1, <3>3, <3>4, ConcatProperties, ZenonT(30)
    <3>6. \A i \in 1 .. d : delivered[i] = i  BY <1>1, Zenon DEF Numbered
    <3>7. ASSUME NEW i \in 1 .. d + k PROVE delivered'[i] = i
      <4>1. CASE i <= d
        <5>1. i \in 1 .. d  BY <1>3, <4>1
        <5> QED  BY <3>5, <3>6, <4>1, <5>1, Zenon
      <4>2. CASE ~(i <= d)
        <5>1. i - d \in 1 .. k /\ d + (i - d) = i  BY <1>3, <1>5, <4>2
        <5> QED  BY <3>3, <3>5, <4>2, <5>1, Zenon
      <4> QED  BY <4>1, <4>2, Zenon
    <3> QED  BY <3>5, <3>7, Zenon
  <2>2. CASE ~conn.watch
    <3>1. k = 0 /\ delivered' = delivered  BY <1>5, <1>6, <2>2
    <3> QED  BY <1>3, <1>1, <3>1 DEF Numbered
  <2> QED  BY <2>1, <2>2, Zenon
<1>14. Numbered'  BY <1>13, Zenon DEF Numbered
<1>15. b - k \in Nat /\ b - k <= b /\ (d + k) + (b - k) + c = Len(sent)
  <2>1. k \in Nat /\ k <= b  BY <1>5
  <2>2. b - k \in Nat /\ b - k <= b /\ (d + k) + (b - k) + c = d + b + c  BY <1>3, <2>1
  <2> QED  BY <1>4, <2>2, Zenon
<1>16. Under(b - k, w, c, m)'  BY <1>12, <1>9, <1>13, <1>15, Zenon DEF Under
<1> QED  BY <1>11, <1>13, <1>14, <1>15, <1>16, Zenon

-----------------------------------------------------------------------------
\* The steps keep the invariant.

\* Reading from the socket and delivering notifications.
LEMMA ReadKeeps ==
  ASSUME CtlInv, ~conn.failed, NEW in \in Seq(Messages), NEW rest \in Seq(Messages),
         Coming = in \o rest, NEW n \in Nat, Process(in, n), toClient' = rest,
         UNCHANGED <<toServer, client, asked, answered, sent>>
  PROVE  CtlInv'
<1>1. CtlTypes /\ Numbered /\ OwnAnswer /\ (~client.subscribed => Len(sent) = 0) /\ sent' = sent
      /\ Len(sent) \in Nat /\ Len(delivered) \in Nat
  BY LenProperties, Zenon DEF CtlInv, CtlTypes
<1>2. ASSUME NEW b \in Nat, NEW w \in Nat, NEW c \in Nat, NEW m, Under(b, w, c, m),
             w = 0 => c = 0, w > 0 => m.type # "notification", ~conn.watch => b = 0
      PROVE  /\ conn' \in Connections
             /\ conn'.state = conn.state /\ conn'.want = conn.want
             /\ conn'.watch = conn.watch /\ conn'.failed = conn.failed
             /\ delivered' \in Seq(Nat) /\ Numbered'
             /\ \E e \in Nat : e <= b /\ Under(e, w, c, m)'
  BY <1>1, <1>2, Processed, Zenon
<1>3. ASSUME NEW b \in Nat, NEW c \in Nat, NEW m, NEW w \in Nat, Under(b, w, c, m), ~client.subscribed
      PROVE  b = 0
  BY <1>1, <1>3 DEF Under
<1>4. ToAnswer' = ToAnswer  BY Zenon DEF ToAnswer
<1>5. ASSUME conn' \in Connections, conn'.state = conn.state, conn'.want = conn.want,
             delivered' \in Seq(Nat), Numbered'
      PROVE  CtlTypes' /\ OwnAnswer' /\ (~client'.subscribed => Len(sent') = 0)
  BY <1>1, <1>5, Zenon DEF CtlTypes, OwnAnswer
<1>6. CASE Idle
  <2>1. PICK b \in Nat : Under(b, 0, 0, NoteOf(0))  BY <1>6, Zenon DEF Idle
  <2>2. ~conn.watch => b = 0  BY <1>3, <1>6, <2>1, Zenon DEF Idle
  <2>3. /\ conn' \in Connections
        /\ conn'.state = conn.state /\ conn'.want = conn.want
        /\ conn'.watch = conn.watch /\ conn'.failed = conn.failed
        /\ delivered' \in Seq(Nat) /\ Numbered'
        /\ \E e \in Nat : e <= b /\ Under(e, 0, 0, NoteOf(0))'
    BY <1>2, <2>1, <2>2
  <2>4. Idle'
    <3>1. \E e \in Nat : Under(e, 0, 0, NoteOf(0))'  BY <2>3, Zenon
    <3> QED  BY <1>4, <1>6, <2>3, <3>1, Zenon DEF Idle
  <2> QED  BY <1>5, <2>3, <2>4, Zenon DEF CtlInv
<1>7. CASE Waiting
  <2>1. PICK b \in Nat : Under(b, 0, 0, NoteOf(0))  BY <1>7, Zenon DEF Waiting
  <2>2. ~conn.watch => b = 0  BY <1>3, <1>7, <2>1, Zenon DEF Waiting
  <2>3. /\ conn' \in Connections
        /\ conn'.state = conn.state /\ conn'.want = conn.want
        /\ conn'.watch = conn.watch /\ conn'.failed = conn.failed
        /\ delivered' \in Seq(Nat) /\ Numbered'
        /\ \E e \in Nat : e <= b /\ Under(e, 0, 0, NoteOf(0))'
    BY <1>2, <2>1, <2>2
  <2>4. Waiting'
    <3>1. \E e \in Nat : Under(e, 0, 0, NoteOf(0))'  BY <2>3, Zenon
    <3> QED  BY <1>4, <1>7, <2>3, <3>1, Zenon DEF Waiting
  <2> QED  BY <1>5, <2>3, <2>4, Zenon DEF CtlInv
<1>8. ASSUME NEW b \in Nat, NEW c \in Nat, NEW m \in Messages, Answering(b, c, m)
      PROVE  CtlInv'
  <2>1. 1 + m.len \in Nat /\ 1 + m.len > 0 /\ m.type # "notification" /\ Under(b, 1 + m.len, c, m)
    BY <1>8 DEF Answering, Messages, Requests
  <2>2. ~conn.watch => b = 0  BY <1>3, <1>8, <2>1, Zenon DEF Answering
  <2>3. PICK e \in Nat :
          /\ conn' \in Connections
          /\ conn'.state = conn.state /\ conn'.want = conn.want
          /\ conn'.watch = conn.watch /\ conn'.failed = conn.failed
          /\ delivered' \in Seq(Nat) /\ Numbered'
          /\ e <= b /\ Under(e, 1 + m.len, c, m)'
    <3>1. PICK w \in Nat : w = 1 + m.len  BY <2>1, Zenon
    <3>2. (w = 0 => c = 0) /\ w > 0 /\ Under(b, w, c, m)  BY <2>1, <3>1
    <3>3. /\ conn' \in Connections
          /\ conn'.state = conn.state /\ conn'.want = conn.want
          /\ conn'.watch = conn.watch /\ conn'.failed = conn.failed
          /\ delivered' \in Seq(Nat) /\ Numbered'
          /\ \E e \in Nat : e <= b /\ Under(e, w, c, m)'
      BY <1>2, <2>1, <2>2, <3>2, Zenon
    <3> QED  BY <3>1, <3>3, Zenon
  <2>4. b = 0 => e = 0  BY <2>3
  <2>5. Answering(e, c, m)'  BY <1>4, <1>8, <2>3, <2>4, Zenon DEF Answering
  <2>6. \E b1 \in Nat, c1 \in Nat : \E m1 \in Messages : Answering(b1, c1, m1)'  BY <2>5, Zenon
  <2> QED  BY <1>5, <2>3, <2>6, Zenon DEF CtlInv
<1> QED  BY <1>6, <1>7, <1>8, Zenon DEF CtlInv

\* sync_recv, lldpctl_recv and lldpctl_process_conn_buffer.
LEMMA ReadSteps ==
  ASSUME CtlInv, Read \/ Arrive \/ ProcessConnBuffer
  PROVE  CtlInv'
<1>1. /\ conn.in \in Seq(Messages) /\ toClient \in Seq(Messages)
      /\ Len(conn.in) \in Nat /\ Len(toClient) \in Nat
  BY LenProperties, Zenon DEF CtlInv, CtlTypes, Connections
<1>2. ASSUME NEW n \in 0 .. Len(toClient), NEW k \in Nat, ~conn.failed,
             Process(conn.in \o SubSeq(toClient, 1, n), k),
             toClient' = SubSeq(toClient, n + 1, Len(toClient)),
             UNCHANGED <<toServer, client, asked, answered, sent>>
      PROVE  CtlInv'
  <2>1. PICK in, rest : in = conn.in \o SubSeq(toClient, 1, n) /\ rest = SubSeq(toClient, n + 1, Len(toClient))
    BY Zenon
  <2>2. in \in Seq(Messages) /\ rest \in Seq(Messages) /\ Moved(conn.in, toClient, in, rest)
    BY <1>1, <2>1, Shifted, Zenon
  <2>3. Coming = in \o rest  BY <2>2, Zenon DEF Coming, Moved
  <2>4. Process(in, k) /\ toClient' = rest  BY <1>2, <2>1, Zenon
  <2> QED  BY <1>2, <2>2, <2>3, <2>4, ReadKeeps, Zenon
<1>3. CASE Read
  <2>1. PICK n : /\ n = IF conn.watching THEN 1 ELSE Missing(conn.in)
                 /\ Len(toClient) >= n
                 /\ toClient' = SubSeq(toClient, n + 1, Len(toClient))
                 /\ Process(conn.in \o SubSeq(toClient, 1, n), 1)
    BY <1>3, Zenon DEF Read
  <2>2. n \in 0 .. Len(toClient)
    <3>1. CASE conn.watching  BY <1>1, <2>1, <3>1
    <3>2. CASE ~conn.watching
      <4>1. Missing(conn.in) \in Int
        <5>1. CASE conn.in = <<>>  BY <5>1 DEF Missing
        <5>2. CASE conn.in # <<>>
          <6>1. Head(conn.in) \in Messages  BY <1>1, <5>2, HeadTailProperties, Zenon
          <6>2. Head(conn.in).len \in {0, 1}  BY <6>1, Zenon DEF Messages
          <6> QED  BY <1>1, <5>2, <6>2 DEF Missing
        <5> QED  BY <5>1, <5>2, Zenon
      <4>2. ~(Missing(conn.in) <= 0)  BY <1>3, <3>2, Zenon DEF Read, Complete
      <4> QED  BY <1>1, <2>1, <3>2, <4>1, <4>2
    <3> QED  BY <3>1, <3>2, Zenon
  <2>3. ~conn.failed /\ UNCHANGED <<toServer, client, asked, answered, sent>>  BY <1>3, Zenon DEF Read
  <2> QED  BY <1>2, <2>1, <2>2, <2>3, Zenon
<1>4. CASE Arrive
  <2>1. PICK n \in 1 .. Len(toClient) :
          /\ toClient' = SubSeq(toClient, n + 1, Len(toClient))
          /\ Process(conn.in \o SubSeq(toClient, 1, n), Len(conn.in \o SubSeq(toClient, 1, n)))
    BY <1>4, Zenon DEF Arrive
  <2>2. n \in 0 .. Len(toClient)  BY <1>1
  <2>3. Len(conn.in \o SubSeq(toClient, 1, n)) \in Nat
    <3>1. conn.in \o SubSeq(toClient, 1, n) \in Seq(Messages)  BY <1>1, <2>2, Shifted, Zenon
    <3> QED  BY <3>1, LenProperties, Zenon
  <2>4. ~conn.failed /\ UNCHANGED <<toServer, client, asked, answered, sent>>  BY <1>4, Zenon DEF Arrive
  <2> QED  BY <1>2, <2>1, <2>2, <2>3, <2>4, Zenon
<1>5. CASE ProcessConnBuffer
  <2>1. Coming = conn.in \o toClient  BY Zenon DEF Coming
  <2>2. /\ ~conn.failed /\ Process(conn.in, Len(conn.in)) /\ toClient' = toClient
        /\ UNCHANGED <<toServer, client, asked, answered, sent>>
    BY <1>5, Zenon DEF ProcessConnBuffer
  <2> QED  BY <1>1, <2>1, <2>2, ReadKeeps, Zenon
<1> QED  BY <1>3, <1>4, <1>5, Zenon

\* What is in a buffer is in front of what comes.
LEMMA FirstComing ==
  ASSUME NEW in \in Seq(Messages), NEW rest \in Seq(Messages), in # <<>>
  PROVE  /\ Len(in) \in Nat /\ Len(in) >= 1 /\ Len(rest) \in Nat
         /\ Len(in \o rest) = Len(in) + Len(rest)
         /\ Head(in) \in Messages /\ Head(in).len \in {0, 1} /\ Head(in).type \in Types
         /\ (in \o rest)[1] = Head(in)
<1>1. Len(in) \in Nat /\ Len(in) >= 1 /\ Len(rest) \in Nat  BY EmptySeq, LenProperties
<1>2. Head(in) \in Messages /\ Head(in) = in[1]  BY HeadTailProperties
<1>3. Head(in).len \in {0, 1} /\ Head(in).type \in Types  BY <1>2, Zenon DEF Messages
<1>4. 1 \in 1 .. Len(in) + Len(rest) /\ 1 <= Len(in)  BY <1>1
<1>5. Len(in \o rest) = Len(in) + Len(rest) /\ (in \o rest)[1] = in[1]
  BY <1>4, ConcatProperties
<1> QED  BY <1>1, <1>2, <1>3, <1>5, Zenon

\* A complete message leaves the buffer with all its parts.
LEMMA WholeTaken ==
  ASSUME NEW in \in Seq(Messages), NEW rest \in Seq(Messages), Complete(in)
  PROVE  /\ in # <<>> /\ 1 + Head(in).len \in 1 .. Len(in)
         /\ Rest(in) \in Seq(Messages) /\ Follows(in \o rest, 1 + Head(in).len, Rest(in) \o rest)
<1>1. in # <<>>  BY DEF Complete, Missing
<1>2. Len(in) \in Nat /\ Head(in).len \in {0, 1}  BY <1>1, FirstComing, Zenon
<1>3. 1 + Head(in).len \in 1 .. Len(in)  BY <1>1, <1>2 DEF Complete, Missing
<1>4. PICK e, r : e = 1 + Head(in).len /\ r = SubSeq(in, e + 1, Len(in))  BY Zenon
<1>5. e + 1 = 2 + Head(in).len /\ e \in 0 .. Len(in)  BY <1>2, <1>3, <1>4
<1>6. Rest(in) = r  BY <1>4, <1>5, Zenon DEF Rest
<1>7. r \in Seq(Messages) /\ Follows(in \o rest, e, r \o rest)  BY <1>4, <1>5, Dropped, ZenonT(30)
<1> QED  BY <1>1, <1>3, <1>4, <1>6, <1>7, Zenon

\* ctl_msg_recv_unserialized takes a whole message. It is the answer, or, when a
\* notification is still in front of it, one that the program does not accept.
LEMMA AnswerKeeps ==
  ASSUME CtlInv, TakeAnswer
  PROVE  CtlInv'
<1>1. /\ CtlTypes /\ Numbered /\ (~client.subscribed => Len(sent) = 0)
      /\ conn \in Connections /\ conn.in \in Seq(Messages) /\ toClient \in Seq(Messages)
      /\ Len(delivered) \in Nat
  BY LenProperties, Zenon DEF CtlInv, CtlTypes, Connections
<1>2. /\ conn.state = "recv" /\ ~conn.failed /\ Complete(conn.in)
      /\ UNCHANGED <<toServer, toClient, client, asked, sent, delivered>>
  BY Zenon DEF TakeAnswer
<1>3. PICK w : w = 1 + Head(conn.in).len  BY Zenon
<1>4. /\ conn.in # <<>> /\ w \in 1 .. Len(conn.in) /\ Rest(conn.in) \in Seq(Messages)
      /\ Follows(Coming, w, Rest(conn.in) \o toClient) /\ Coming[1] = Head(conn.in)
  BY <1>1, <1>2, <1>3, WholeTaken, FirstComing, Zenon DEF Coming
<1>5. CASE ~Acceptable(Head(conn.in))
  <2>1. conn' = [conn EXCEPT !.in = Rest(conn.in), !.failed = TRUE]  BY <1>5, Zenon DEF TakeAnswer
  <2>2. conn' \in Connections /\ conn'.failed /\ conn'.state = "recv"
    BY <1>1, <1>2, <1>4, <2>1, Zenon DEF Connections
  <2>3. CtlTypes' /\ Numbered' /\ OwnAnswer' /\ (~client'.subscribed => Len(sent') = 0)
    BY <1>1, <1>2, <2>2, Zenon DEF CtlTypes, Numbered, OwnAnswer
  <2> QED  BY <2>2, <2>3, Zenon DEF CtlInv
<1>6. CASE Acceptable(Head(conn.in))
  <2>1. /\ conn' = [conn EXCEPT !.state = "idle", !.in = Rest(conn.in),
                                !.watch = @ \/ conn.want = "subscribe"]
        /\ answered' = Head(conn.in).id
    BY <1>6, Zenon DEF TakeAnswer
  <2>2. /\ conn' \in Connections /\ conn'.failed = conn.failed /\ conn'.state = "idle"
        /\ conn'.in = Rest(conn.in) /\ conn'.watch = (conn.watch \/ conn.want = "subscribe")
    BY <1>1, <1>2, <1>4, <2>1, Zenon DEF Connections
  <2>3. conn.want \in Requests /\ Head(conn.in).type = conn.want
        /\ Head(conn.in).type # "notification"
    BY <1>2, <1>6, Zenon DEF Acceptable, CtlInv, Idle, Waiting, Answering, Requests
  <2>4. ASSUME NEW b \in Nat, NEW x \in Nat, NEW c \in Nat, NEW m, Under(b, x, c, m)
        PROVE  b = 0
    <3>1. SUFFICES ASSUME b # 0 PROVE FALSE  BY Zenon
    <3>2. 1 \in 1 .. 2 * b  BY <3>1
    <3>3. Framed(Coming, Len(delivered), b, x, c, m)  BY <2>4, Zenon DEF Under
    <3>4. Coming[1].type = "notification"  BY <1>1, <3>2, <3>3, InFront, Zenon
    <3> QED  BY <1>4, <2>3, <3>4, Zenon
  <2>5. PICK b \in Nat, c \in Nat : \E m \in Messages : Answering(b, c, m)
    <3>1. ~Idle  BY <1>2, Zenon DEF Idle
    <3>2. ~Waiting
      <4>1. SUFFICES ASSUME Waiting PROVE FALSE  BY Zenon
      <4>2. PICK b \in Nat : Under(b, 0, 0, NoteOf(0))  BY <4>1, Zenon DEF Waiting
      <4>3. b = 0  BY <2>4, <4>2, Zenon
      <4>4. Len(Coming) = 0  BY <4>2, <4>3 DEF Under, Framed
      <4> QED  BY <1>1, <1>4, <4>4, FirstComing DEF Coming
    <3> QED  BY <1>2, <3>1, <3>2, Zenon DEF CtlInv
  <2>6. PICK m \in Messages : Answering(b, c, m)  BY <2>5, Zenon
  <2>7. 1 + m.len \in Nat /\ 1 + m.len >= 1 /\ Under(b, 1 + m.len, c, m)
    BY <2>6 DEF Answering, Messages
  <2>8. b = 0  BY <2>4, <2>7, Zenon
  <2>9. Framed(Coming, Len(delivered), 0, 1 + m.len, c, m) /\ Len(delivered) + c = Len(sent)
    BY <1>1, <2>7, <2>8 DEF Under
  <2>10. Head(conn.in) = m
    <3>1. 1 \in 1 .. 1 + m.len  BY <2>7
    <3>2. Coming[2 * 0 + 1] = m  BY <2>9, <3>1, Zenon DEF Framed
    <3> QED  BY <1>4, <3>2
  <2>11. Coming' = Rest(conn.in) \o toClient  BY <1>2, <2>2, Zenon DEF Coming
  <2>12. Framed(Coming', Len(delivered), c, 0, 0, NoteOf(0))
    <3>1. Framed(Coming, Len(delivered), 0, w, c, m) /\ Follows(Coming, w, Coming') /\ w \in Nat
      BY <1>3, <1>4, <2>7, <2>9, <2>10, <2>11, Zenon
    <3>2. Framed(Coming', Len(delivered), c, 0, 0, m)  BY <1>1, <3>1, AnswerTaken, Zenon
    <3> QED  BY <1>1, <3>2, NotesOnly, Zenon
  <2>13. Under(c, 0, 0, NoteOf(0))'
    <3>1. Len(delivered) + c + 0 = Len(sent)  BY <1>1, <2>9
    <3> QED  BY <1>2, <2>12, <3>1, Zenon DEF Under
  <2>14. Idle'
    <3>1. ToAnswer' = ToAnswer /\ ToAnswer = <<>>  BY <1>2, <2>6, Zenon DEF ToAnswer, Answering
    <3>2. client.subscribed => conn'.watch  BY <2>2, <2>6, Zenon DEF Answering
    <3>3. \E e \in Nat : Under(e, 0, 0, NoteOf(0))'  BY <2>13, Zenon
    <3> QED  BY <1>2, <2>2, <3>1, <3>2, <3>3, Zenon DEF Idle
  <2>15. answered' = asked'  BY <1>2, <2>1, <2>6, <2>10, Zenon DEF Answering
  <2>16. CtlTypes' /\ Numbered' /\ OwnAnswer' /\ (~client'.subscribed => Len(sent') = 0)
    BY <1>1, <1>2, <2>2, <2>15, Zenon DEF CtlTypes, Numbered, OwnAnswer
  <2> QED  BY <2>14, <2>16, Zenon DEF CtlInv
<1> QED  BY <1>5, <1>6, Zenon

\* The daemon reads a request that is alone on its way, or part of it.
LEMMA RequestRead ==
  ASSUME NEW in \in Seq(Messages), NEW rest \in Seq(Messages), NEW type \in Types,
         NEW id \in Nat, NEW len \in {0, 1}, in \o rest = Encoded(type, id, len), Complete(in)
  PROVE  Head(in) = [type |-> type, id |-> id, len |-> len] /\ Rest(in) \o rest = <<>>
<1>1. PICK e : e = Encoded(type, id, len)  BY Zenon
<1>2. PICK m : m = [type |-> type, id |-> id, len |-> len]  BY Zenon
<1>3. Len(e) = 1 + len /\ \A i \in 1 .. 1 + len : e[i] = m
  BY <1>1, <1>2, EncodedParts, Zenon
<1>4. /\ in # <<>> /\ 1 + Head(in).len \in 1 .. Len(in)
      /\ Rest(in) \in Seq(Messages) /\ Follows(in \o rest, 1 + Head(in).len, Rest(in) \o rest)
  BY WholeTaken, Zenon
<1>5. (in \o rest)[1] = Head(in)  BY <1>4, FirstComing, Zenon
<1>6. Head(in) = m
  <2>1. 1 \in 1 .. 1 + len  OBVIOUS
  <2> QED  BY <1>1, <1>3, <1>5, <2>1, Zenon
<1>7. Head(in).len = len  BY <1>2, <1>6
<1>8. Len(Rest(in) \o rest) = 0
  <2>1. Len(Rest(in) \o rest) = Len(e) - (1 + len)  BY <1>1, <1>4, <1>7, Zenon DEF Follows
  <2> QED  BY <1>3, <2>1
<1>9. Rest(in) \o rest \in Seq(Messages)  BY <1>4, ConcatProperties, Zenon
<1>10. Rest(in) \o rest = <<>>  BY <1>8, <1>9, EmptySeq, Zenon
<1> QED  BY <1>2, <1>6, <1>10, Zenon

\* client_handle_client answers the request, and it is the only one.
LEMMA ReplyKeeps ==
  ASSUME CtlTypes, Waiting, ~client.subscribed => Len(sent) = 0,
         NEW m \in Messages, m.type = conn.want, m.id = asked, Reply(m),
         ToAnswer' = <<>>, client'.subscribed = (client.subscribed \/ m.type = "subscribe"),
         UNCHANGED <<conn, asked, sent, delivered>>
  PROVE  /\ toClient' \in Seq(Messages)
         /\ \E b \in Nat, c \in Nat : \E r \in Messages : Answering(b, c, r)'
<1>1. PICK b \in Nat : Under(b, 0, 0, NoteOf(0))  BY Zenon DEF Waiting
<1>2. PICK type \in Types, len \in {0, 1} :
        /\ toClient' = toClient \o Encoded(type, asked, len)
        /\ type \in {conn.want, "none"} /\ (conn.want = "subscribe" => type = "subscribe")
  <2>1. CASE toClient' = toClient \o Encoded(m.type, m.id, IF m.type = "get" THEN 1 ELSE 0)
    BY <2>1, Zenon DEF Messages
  <2>2. CASE m.type # "subscribe" /\ toClient' = toClient \o Encoded("none", m.id, 0)
    BY <2>2, Zenon DEF Types
  <2> QED  BY <2>1, <2>2, Zenon DEF Reply
<1>3. PICK e, r : e = Encoded(type, asked, len) /\ r = [type |-> type, id |-> asked, len |-> len]
  BY Zenon
<1>4. asked \in Nat /\ conn.in \in Seq(Messages) /\ toClient \in Seq(Messages)
      /\ Len(delivered) \in Nat
  BY LenProperties, Zenon DEF CtlTypes, Connections
<1>5. r \in Messages /\ e \in Seq(Messages) /\ Len(e) = 1 + len /\ \A i \in 1 .. 1 + len : e[i] = r
  BY <1>3, <1>4, EncodedParts, Zenon
<1>6. PICK s, t : s = conn.in \o toClient /\ t = conn.in \o (toClient \o e)  BY Zenon
<1>7. /\ toClient \o e \in Seq(Messages) /\ Len(t) = Len(s) + Len(e)
      /\ \A i \in 1 .. Len(s) : t[i] = s[i]
      /\ \A i \in 1 .. Len(e) : t[Len(s) + i] = e[i]
  <2>1. toClient \o e \in Seq(Messages) /\ Extended(s, e, t)  BY <1>4, <1>5, <1>6, Written, Zenon
  <2> QED  BY <2>1, Zenon DEF Extended
<1>8. Coming' = t /\ Coming = s  BY <1>2, <1>3, <1>6, Zenon DEF Coming
<1>9. Framed(t, Len(delivered), b, 1 + len, 0, r)
  <2>1. Framed(s, Len(delivered), b, 0, 0, NoteOf(0))  BY <1>1, <1>8, Zenon DEF Under
  <2>2. PICK w \in Nat : w = 1 + len  OBVIOUS
  <2>3. Len(t) = Len(s) + w /\ \A i \in 1 .. w : t[Len(s) + i] = r  BY <1>5, <1>7, <2>2, Zenon
  <2>4. Framed(t, Len(delivered), b, w, 0, r)  BY <1>4, <1>7, <2>1, <2>3, AnswerAdded, Zenon
  <2> QED  BY <2>2, <2>4, Zenon
<1>10. r.len = len /\ r.id = asked /\ r.type = type  BY <1>3, Zenon
<1>11. Under(b, 1 + r.len, 0, r)'  BY <1>1, <1>8, <1>9, <1>10, Zenon DEF Under
<1>12. client'.subscribed => conn.watch \/ (b = 0 /\ conn.want = "subscribe" /\ r.type = "subscribe")
  <2>1. CASE client.subscribed  BY <2>1, Zenon DEF Waiting
  <2>2. CASE ~client.subscribed
    <3>1. b = 0  BY <1>1, <1>4, <2>2 DEF Under
    <3> QED  BY <1>2, <1>10, <2>2, <3>1, Zenon
  <2> QED  BY <2>1, <2>2, Zenon
<1>13. Answering(b, 0, r)'  BY <1>2, <1>10, <1>11, <1>12, Zenon DEF Answering, Waiting
<1>14. toClient' \in Seq(Messages)  BY <1>2, <1>3, <1>7, Zenon
<1> QED  BY <1>5, <1>13, <1>14, Zenon

\* levent_ctl_recv.
LEMMA RecvKeeps ==
  ASSUME CtlInv, CtlRecv
  PROVE  CtlInv'
<1>1. /\ CtlTypes /\ Numbered /\ OwnAnswer /\ (~client.subscribed => Len(sent) = 0)
      /\ client.in \in Seq(Messages) /\ toServer \in Seq(Messages) /\ toClient \in Seq(Messages)
      /\ client.subscribed \in BOOLEAN /\ asked \in Nat /\ Len(toServer) \in Nat
  BY LenProperties, Zenon DEF CtlInv, CtlTypes
<1>2. UNCHANGED <<conn, asked, answered, sent, delivered>>  BY Zenon DEF CtlRecv
<1>3. PICK n, in :
        /\ n \in 1 .. Len(toServer)
        /\ in = client.in \o SubSeq(toServer, 1, n)
        /\ toServer' = SubSeq(toServer, n + 1, Len(toServer))
        /\ IF Complete(in)
           THEN /\ client' = [in |-> Rest(in),
                              subscribed |-> client.subscribed \/ Head(in).type = "subscribe"]
                /\ Reply(Head(in))
           ELSE client' = [client EXCEPT !.in = in] /\ UNCHANGED toClient
  BY Zenon DEF CtlRecv
<1>4. in \in Seq(Messages) /\ toServer' \in Seq(Messages) /\ Moved(client.in, toServer, in, toServer')
  <2>1. n \in 0 .. Len(toServer)  BY <1>1, <1>3
  <2>2. PICK rest : rest = SubSeq(toServer, n + 1, Len(toServer))  BY Zenon
  <2>3. in \in Seq(Messages) /\ rest \in Seq(Messages) /\ Moved(client.in, toServer, in, rest)
    BY <1>1, <1>3, <2>1, <2>2, Shifted, Zenon
  <2> QED  BY <1>3, <2>2, <2>3, Zenon
<1>5. in \o toServer' = ToAnswer  BY <1>4, Zenon DEF Moved, ToAnswer
<1>6. ToAnswer # <<>>
  <2>1. toServer # <<>>  BY <1>1, <1>3, EmptySeq
  <2> QED  BY <1>1, <2>1, ConcatEqualIffEmpty DEF ToAnswer
<1>7. ~conn.failed => Waiting  BY <1>6, Zenon DEF CtlInv, Idle, Answering
<1>8. OwnAnswer' /\ Numbered'  BY <1>1, <1>2, Zenon DEF OwnAnswer, Numbered
<1>9. CASE ~Complete(in)
  <2>1. client' = [client EXCEPT !.in = in] /\ toClient' = toClient  BY <1>3, <1>9, Zenon
  <2>2. /\ client' \in [subscribed : BOOLEAN, in : Seq(Messages)]
        /\ client'.in = in /\ client'.subscribed = client.subscribed
    BY <1>1, <1>4, <2>1, Zenon DEF CtlTypes
  <2>3. ToAnswer' = ToAnswer  BY <1>5, <2>2, Zenon DEF ToAnswer
  <2>4. CtlTypes'  BY <1>1, <1>2, <1>4, <2>1, <2>2, Zenon DEF CtlTypes
  <2>5. ~conn.failed => Waiting'
    <3>1. Coming' = Coming  BY <1>2, <2>1, Zenon DEF Coming
    <3> QED  BY <1>2, <1>7, <2>2, <2>3, <3>1, Zenon DEF Waiting, Under
  <2> QED  BY <1>1, <1>2, <1>8, <2>2, <2>4, <2>5, Zenon DEF CtlInv
<1>10. CASE Complete(in)
  <2>1. /\ client' = [in |-> Rest(in), subscribed |-> client.subscribed \/ Head(in).type = "subscribe"]
        /\ Reply(Head(in))
    BY <1>3, <1>10, Zenon
  <2>2. in # <<>> /\ Rest(in) \in Seq(Messages)  BY <1>4, <1>10, WholeTaken, Zenon
  <2>3. PICK m \in Messages : m = Head(in)  BY <1>4, <2>2, FirstComing, Zenon
  <2>4. /\ client' \in [subscribed : BOOLEAN, in : Seq(Messages)]
        /\ client'.in = Rest(in) /\ client'.subscribed = (client.subscribed \/ m.type = "subscribe")
    BY <1>1, <2>1, <2>2, <2>3, Zenon
  <2>5. ~client'.subscribed => Len(sent') = 0  BY <1>1, <1>2, <2>4, Zenon
  <2>6. CASE conn.failed
    <3>1. toClient' \in Seq(Messages)
      <4>1. PICK type \in Types, len \in {0, 1} : toClient' = toClient \o Encoded(type, m.id, len)
        <5>1. m.type \in Types /\ "none" \in Types  BY Zenon DEF Messages, Types
        <5> QED  BY <2>1, <2>3, <5>1, Zenon DEF Reply
      <4>2. m.id \in Nat  BY Zenon DEF Messages
      <4>3. Encoded(type, m.id, len) \in Seq(Messages)  BY <4>2, EncodedParts, Zenon
      <4> QED  BY <1>1, <4>1, <4>3, ConcatProperties, Zenon
    <3>2. CtlTypes'  BY <1>1, <1>2, <1>4, <2>4, <3>1, Zenon DEF CtlTypes
    <3> QED  BY <1>2, <1>8, <2>5, <2>6, <3>2, Zenon DEF CtlInv
  <2>7. CASE ~conn.failed
    <3>1. Waiting /\ conn.want \in Requests  BY <1>7, <2>7, Zenon DEF Waiting
    <3>2. PICK len \in {0, 1} : ToAnswer = Encoded(conn.want, asked, len)  BY <3>1, Zenon DEF Waiting
    <3>3. conn.want \in Types  BY <3>1, Zenon DEF Types
    <3>4. m = [type |-> conn.want, id |-> asked, len |-> len] /\ Rest(in) \o toServer' = <<>>
      <4>1. PICK type, rest, id : type = conn.want /\ rest = toServer' /\ id = asked  BY Zenon
      <4>2. /\ rest \in Seq(Messages) /\ type \in Types /\ id \in Nat
            /\ in \o rest = Encoded(type, id, len)
        BY <1>1, <1>4, <1>5, <3>2, <3>3, <4>1, Zenon
      <4>3. Head(in) = [type |-> type, id |-> id, len |-> len] /\ Rest(in) \o rest = <<>>
        BY <1>4, <1>10, <4>2, RequestRead, Zenon
      <4> QED  BY <2>3, <4>1, <4>3, Zenon
    <3>5. m.type = conn.want /\ m.id = asked  BY <3>4, Zenon
    <3>6. ToAnswer' = <<>>  BY <2>4, <3>4, Zenon DEF ToAnswer
    <3>7. /\ toClient' \in Seq(Messages)
          /\ \E b \in Nat, c \in Nat : \E r \in Messages : Answering(b, c, r)'
      BY <1>1, <1>2, <2>1, <2>3, <2>4, <3>1, <3>5, <3>6, ReplyKeeps, Zenon
    <3>8. CtlTypes'  BY <1>1, <1>2, <1>4, <2>4, <3>7, Zenon DEF CtlTypes
    <3> QED  BY <1>8, <2>5, <3>7, <3>8, Zenon DEF CtlInv
  <2> QED  BY <2>6, <2>7, Zenon
<1> QED  BY <1>9, <1>10, Zenon

\* levent_ctl_notify: a notification goes behind everything.
LEMMA NotifyKeeps ==
  ASSUME CtlInv, CtlNotify
  PROVE  CtlInv'
<1>1. /\ CtlTypes /\ Numbered /\ OwnAnswer /\ client.subscribed
      /\ conn.in \in Seq(Messages) /\ toClient \in Seq(Messages) /\ sent \in Seq(Nat)
      /\ Len(sent) \in Nat /\ Len(delivered) \in Nat
  BY LenProperties, Zenon DEF CtlInv, CtlTypes, Connections, CtlNotify
<1>2. /\ UNCHANGED <<conn, toServer, client, asked, answered, delivered>>
      /\ sent' = Append(sent, Len(sent) + 1)
      /\ toClient' = toClient \o Encoded("notification", Len(sent'), 1)
  BY Zenon DEF CtlNotify
<1>3. /\ sent' \in Seq(Nat) /\ Len(sent') = Len(sent) + 1
      /\ \A i \in 1 .. Len(sent') : sent'[i] = i
  <2>1. /\ sent' \in Seq(Nat) /\ Len(sent') = Len(sent) + 1
        /\ \A i \in 1 .. Len(sent) : sent'[i] = sent[i]
        /\ sent'[Len(sent) + 1] = Len(sent) + 1
    BY <1>1, <1>2, AppendProperties
  <2>2. \A i \in 1 .. Len(sent) : sent[i] = i  BY <1>1, Zenon DEF Numbered
  <2>3. \A i \in 1 .. Len(sent) + 1 : i \in 1 .. Len(sent) \/ i = Len(sent) + 1  BY <1>1
  <2> QED  BY <2>1, <2>2, <2>3, Zenon
<1>4. PICK e : e = Encoded("notification", Len(sent'), 1)  BY Zenon
<1>5. e \in Seq(Messages) /\ Len(e) = 2 /\ \A i \in 1 .. 2 : e[i] = NoteOf(Len(sent) + 1)
  <2>1. "notification" \in Types /\ Len(sent') \in Nat  BY <1>1, <1>3 DEF Types
  <2>2. PICK m : m = [type |-> "notification", id |-> Len(sent'), len |-> 1]  BY Zenon
  <2>3. e \in Seq(Messages) /\ Len(e) = 1 + 1 /\ \A i \in 1 .. 1 + 1 : e[i] = m
    BY <1>4, <2>1, <2>2, EncodedParts, Zenon
  <2>4. m = NoteOf(Len(sent) + 1)  BY <1>3, <2>2, Zenon DEF NoteOf
  <2> QED  BY <2>3, <2>4
<1>6. PICK s, t : s = conn.in \o toClient /\ t = conn.in \o (toClient \o e)  BY Zenon
<1>7. /\ toClient \o e \in Seq(Messages) /\ Len(t) = Len(s) + 2
      /\ \A i \in 1 .. Len(s) : t[i] = s[i]
      /\ \A i \in 1 .. 2 : t[Len(s) + i] = NoteOf(Len(sent) + 1)
  <2>1. toClient \o e \in Seq(Messages) /\ Extended(s, e, t)  BY <1>1, <1>5, <1>6, Written, Zenon
  <2> QED  BY <1>5, <2>1, Zenon DEF Extended
<1>8. Coming' = t /\ Coming = s  BY <1>2, <1>4, <1>6, Zenon DEF Coming
<1>9. ASSUME NEW b \in Nat, NEW w \in Nat, NEW c \in Nat, NEW m, Under(b, w, c, m)
      PROVE  Under(b, w, c + 1, m)'
  <2>1. PICK d \in Nat : d = Len(delivered)  BY <1>1, Zenon
  <2>2. Framed(s, d, b, w, c, m) /\ d + b + c = Len(sent)  BY <1>8, <1>9, <2>1, Zenon DEF Under
  <2>3. \A i \in 1 .. 2 : t[Len(s) + i] = NoteOf(d + b + c + 1)  BY <1>7, <2>2, Zenon
  <2>4. Framed(t, d, b, w, c + 1, m)  BY <1>7, <2>2, <2>3, NoteAdded, Zenon
  <2>5. d + b + (c + 1) = Len(sent')  BY <1>3, <2>2
  <2> QED  BY <1>2, <1>8, <2>1, <2>4, <2>5, Zenon DEF Under
<1>10. ASSUME NEW b \in Nat, Under(b, 0, 0, NoteOf(0))
       PROVE  \E f \in Nat : Under(f, 0, 0, NoteOf(0))'
  <2>1. PICK d \in Nat : d = Len(delivered)  BY <1>1, Zenon
  <2>2. Framed(s, d, b, 0, 0, NoteOf(0)) /\ d + b + 0 = Len(sent)  BY <1>8, <1>10, <2>1, Zenon DEF Under
  <2>3. Framed(s, d, 0, 0, b, NoteOf(0)) /\ d + 0 + b = Len(sent)  BY <2>2, NotesOnly
  <2>4. Under(0, 0, b, NoteOf(0))  BY <1>8, <2>1, <2>3, Zenon DEF Under
  <2>5. Under(0, 0, b + 1, NoteOf(0))'  BY <1>9, <2>4, Zenon
  <2>6. PICK f \in Nat : f = b + 1  OBVIOUS
  <2>7. Framed(t, d, 0, 0, f, NoteOf(0)) /\ d + 0 + f = Len(sent')
    BY <1>2, <1>8, <2>1, <2>5, <2>6, Zenon DEF Under
  <2>8. Framed(t, d, f, 0, 0, NoteOf(0)) /\ d + f + 0 = Len(sent')  BY <2>7, NotesOnly
  <2>9. Under(f, 0, 0, NoteOf(0))'  BY <1>2, <1>8, <2>1, <2>8, Zenon DEF Under
  <2> QED  BY <2>9, Zenon
<1>11. CtlTypes' /\ Numbered' /\ OwnAnswer' /\ ToAnswer' = ToAnswer /\ client'.subscribed
  BY <1>1, <1>2, <1>3, <1>4, <1>7, Zenon DEF CtlTypes, Numbered, OwnAnswer, ToAnswer
<1>12. CASE conn.failed  BY <1>2, <1>11, <1>12, Zenon DEF CtlInv
<1>13. CASE Idle
  <2>1. Idle'  BY <1>2, <1>10, <1>11, <1>13, Zenon DEF Idle
  <2> QED  BY <1>11, <2>1, Zenon DEF CtlInv
<1>14. CASE Waiting
  <2>1. Waiting'  BY <1>2, <1>10, <1>11, <1>14, Zenon DEF Waiting
  <2> QED  BY <1>11, <2>1, Zenon DEF CtlInv
<1>15. ASSUME NEW b \in Nat, NEW c \in Nat, NEW m \in Messages, Answering(b, c, m)
       PROVE  CtlInv'
  <2>1. Under(b, 1 + m.len, c, m) /\ 1 + m.len \in Nat  BY <1>15 DEF Answering, Messages
  <2>2. Under(b, 1 + m.len, c + 1, m)'
    <3>1. PICK w \in Nat : w = 1 + m.len  BY <2>1, Zenon
    <3>2. Under(b, w, c + 1, m)'  BY <1>9, <2>1, <3>1, Zenon
    <3> QED  BY <3>1, <3>2, Zenon
  <2>3. Answering(b, c + 1, m)'  BY <1>2, <1>11, <1>15, <2>2, Zenon DEF Answering
  <2>4. \E b1 \in Nat, c1 \in Nat : \E m1 \in Messages : Answering(b1, c1, m1)'  BY <2>3
  <2> QED  BY <1>11, <2>4, Zenon DEF CtlInv
<1> QED  BY <1>12, <1>13, <1>14, <1>15, Zenon DEF CtlInv

\* A connection that has just been made.
Fresh ==
  /\ conn = NewConn /\ client = NewClient /\ toServer = <<>> /\ toClient = <<>>
  /\ sent = <<>> /\ delivered = <<>> /\ asked \in Nat

\* A new connection starts with nothing on its way.
LEMMA NewConnection == Fresh => CtlInv
<1> SUFFICES ASSUME Fresh PROVE CtlInv  BY Zenon
<1> USE DEF Fresh
<1>1. /\ conn.in = <<>> /\ conn.state = "idle" /\ conn.want = "none"
      /\ client.in = <<>> /\ ~client.subscribed
  BY Zenon DEF NewConn, NewClient
<1>2. CtlTypes  BY DEF CtlTypes, NewConn, NewClient, Connections
<1>3. <<>> \o <<>> = <<>> /\ Len(<<>>) = 0
  <2>1. <<>> \in Seq(Messages)  OBVIOUS
  <2> QED  BY <2>1, ConcatEmptySeq, Zenon
<1>4. Numbered /\ OwnAnswer /\ Len(sent) = 0  BY <1>1, <1>3 DEF Numbered, OwnAnswer
<1>5. Coming = <<>> /\ ToAnswer = <<>>  BY <1>1, <1>3, Zenon DEF Coming, ToAnswer
<1>6. Under(0, 0, 0, NoteOf(0))  BY <1>3, <1>5 DEF Under, Framed
<1>7. Idle  BY <1>1, <1>5, <1>6, Zenon DEF Idle
<1> QED  BY <1>2, <1>4, <1>7, Zenon DEF CtlInv

\* The first connection is a new one.
LEMMA CtlInitInv == Init => CtlInv
<1>1. Init => Fresh  BY DEF Init, Fresh
<1> QED  BY <1>1, NewConnection, Zenon

\* _lldpctl_do_something sends one request when nothing is under way.
LEMMA RequestKeeps ==
  ASSUME CtlInv, NEW type \in Requests, Request(type)
  PROVE  CtlInv'
<1>1. /\ CtlTypes /\ Numbered /\ (~client.subscribed => Len(sent) = 0)
      /\ client.in \in Seq(Messages) /\ toServer \in Seq(Messages) /\ asked \in Nat
      /\ conn \in Connections
  BY Zenon DEF CtlInv, CtlTypes
<1>2. /\ conn.state = "idle" /\ ~conn.failed /\ asked' = asked + 1
      /\ toServer' = toServer \o Encoded(type, asked', IF type = "set" THEN 1 ELSE 0)
      /\ conn' = [conn EXCEPT !.state = "recv", !.want = type]
      /\ UNCHANGED <<toClient, client, answered, sent, delivered>>
  BY Zenon DEF Request
<1>3. /\ conn' \in Connections /\ conn'.state = "recv" /\ conn'.want = type
      /\ conn'.in = conn.in /\ conn'.watch = conn.watch
  BY <1>1, <1>2, Zenon DEF Connections
<1>4. Idle  BY <1>2, Zenon DEF CtlInv, Waiting, Answering
<1>5. PICK e : e = Encoded(type, asked', IF type = "set" THEN 1 ELSE 0)  BY Zenon
<1>6. e \in Seq(Messages)
  <2>1. PICK len \in {0, 1} : len = IF type = "set" THEN 1 ELSE 0  BY Zenon
  <2>2. type \in Types /\ asked' \in Nat  BY <1>1, <1>2 DEF Types
  <2>3. Encoded(type, asked', len) \in Seq(Messages)  BY <2>2, EncodedParts, Zenon
  <2> QED  BY <1>5, <2>1, <2>3, Zenon
<1>7. toServer' \in Seq(Messages) /\ ToAnswer' = e
  <2>1. /\ toServer \o e \in Seq(Messages)
        /\ client.in \o (toServer \o e) = (client.in \o toServer) \o e
    BY <1>1, <1>6, Written, ZenonT(30)
  <2>2. client.in \o toServer = <<>>  BY <1>4, Zenon DEF Idle, ToAnswer
  <2>3. <<>> \o e = e  BY <1>6, ConcatEmptySeq, Zenon
  <2>4. toServer' = toServer \o e  BY <1>2, <1>5, Zenon
  <2> QED  BY <1>2, <2>1, <2>2, <2>3, <2>4, Zenon DEF ToAnswer
<1>8. Coming' = Coming  BY <1>2, <1>3, Zenon DEF Coming
<1>9. Waiting'
  <2>1. \E b \in Nat : Under(b, 0, 0, NoteOf(0))'  BY <1>2, <1>4, <1>8, Zenon DEF Idle, Under
  <2> QED  BY <1>2, <1>3, <1>4, <1>5, <1>7, <2>1, Zenon DEF Waiting, Idle
<1>10. CtlTypes' /\ Numbered' /\ OwnAnswer' /\ (~client'.subscribed => Len(sent') = 0)
  BY <1>1, <1>2, <1>3, <1>7 DEF CtlTypes, Numbered, OwnAnswer
<1> QED  BY <1>9, <1>10, Zenon DEF CtlInv

\* What changes neither the streams nor the request leaves all as it was.
LEMMA SameStreams ==
  ASSUME CtlInv, conn' \in Connections, conn'.in = conn.in, conn'.state = conn.state,
         conn'.want = conn.want, conn'.watch = conn.watch, conn.failed => conn'.failed,
         UNCHANGED <<toServer, toClient, client, asked, answered, sent, delivered>>
  PROVE  CtlInv'
<1>1. Coming' = Coming /\ ToAnswer' = ToAnswer  BY Zenon DEF Coming, ToAnswer
<1>2. CtlTypes' /\ Numbered' /\ OwnAnswer' /\ (~client'.subscribed => Len(sent') = 0)
  BY Zenon DEF CtlInv, CtlTypes, Numbered, OwnAnswer
<1>3. Idle => Idle'  BY <1>1, Zenon DEF Idle, Under
<1>4. Waiting => Waiting'  BY <1>1, Zenon DEF Waiting, Under
<1>5. ASSUME NEW b \in Nat, NEW c \in Nat, NEW m \in Messages, Answering(b, c, m)
      PROVE  Answering(b, c, m)'
  BY <1>1, <1>5, Zenon DEF Answering, Under
<1>6. ~conn'.failed =>
        Idle' \/ Waiting' \/ \E b \in Nat, c \in Nat : \E m \in Messages : Answering(b, c, m)'
  BY <1>3, <1>4, <1>5, Zenon DEF CtlInv
<1> QED  BY <1>2, <1>6, Zenon DEF CtlInv

\* Every step of the program, the library and the daemon keeps the invariant.
LEMMA CtlStep == CtlInv /\ [Next]_vars => CtlInv'
<1> SUFFICES ASSUME CtlInv, [Next]_vars PROVE CtlInv'  BY Zenon
<1>0. conn \in Connections  BY Zenon DEF CtlInv, CtlTypes
<1>1. ASSUME NEW type \in Requests, Request(type) PROVE CtlInv'  BY <1>1, RequestKeeps, Zenon
<1>2. CASE Watch
  <2>1. /\ conn' \in Connections /\ conn'.in = conn.in /\ conn'.state = conn.state
        /\ conn'.want = conn.want /\ conn'.watch = conn.watch /\ conn'.failed = conn.failed
    BY <1>0, <1>2, Zenon DEF Watch, Connections
  <2> QED  BY <1>2, <2>1, SameStreams, Zenon DEF Watch
<1>3. CASE Read \/ Arrive \/ ProcessConnBuffer  BY <1>3, ReadSteps, Zenon
<1>4. CASE TakeAnswer  BY <1>4, AnswerKeeps, Zenon
<1>5. CASE Eof
  <2>1. /\ conn' \in Connections /\ conn'.in = conn.in /\ conn'.state = conn.state
        /\ conn'.want = conn.want /\ conn'.watch = conn.watch /\ conn'.failed
    BY <1>0, <1>5, Zenon DEF Eof, Connections
  <2> QED  BY <1>5, <2>1, SameStreams, Zenon DEF Eof
<1>6. CASE Reconnect
  <2>1. Fresh'  BY <1>6, Zenon DEF Reconnect, CtlInv, CtlTypes, Fresh
  <2> QED  BY <2>1, NewConnection, PTL
<1>7. CASE CtlRecv  BY <1>7, RecvKeeps, Zenon
<1>8. CASE CtlNotify  BY <1>8, NotifyKeeps, Zenon
<1>9. CASE ServerEnds  BY <1>0, <1>9, SameStreams, Zenon DEF ServerEnds
<1>10. CASE UNCHANGED vars  BY <1>0, <1>10, SameStreams, Zenon DEF vars
<1> QED  BY <1>1, <1>2, <1>3, <1>4, <1>5, <1>6, <1>7, <1>8, <1>9, <1>10, Zenon DEF Next

\* The invariant holds in every reachable state.
LEMMA CtlAlways == Spec => []CtlInv
BY CtlInitInv, CtlStep, PTL DEF Spec

-----------------------------------------------------------------------------
\* What the invariant says of notifications.

\* Where the j-th pending notification starts.
At(j, b, w) == IF j <= b THEN 2 * j - 1 ELSE w + 2 * j - 1

\* It is there in two parts, and nothing else is a notification.
NotesPlaced(s, d, b, w, c) ==
  /\ \A j \in 1 .. b + c : /\ At(j, b, w) \in DOMAIN s /\ At(j, b, w) + 1 \in DOMAIN s
                           /\ s[At(j, b, w)] = NoteOf(d + j)
                           /\ s[At(j, b, w) + 1] = NoteOf(d + j)
  /\ \A i \in DOMAIN s : s[i].type = "notification" =>
       \E j \in 1 .. b + c : i \in {At(j, b, w), At(j, b, w) + 1} /\ s[i].id = d + j

\* In a stream of messages every notification has its place.
LEMMA NotesAt ==
  ASSUME NEW s \in Seq(Messages), NEW d \in Nat, NEW b \in Nat, NEW w \in Nat, NEW c \in Nat,
         NEW m, Framed(s, d, b, w, c, m), w > 0 => m.type # "notification"
  PROVE  NotesPlaced(s, d, b, w, c)
<1>1. DOMAIN s = 1 .. 2 * b + w + 2 * c  BY LenProperties, Zenon DEF Framed
<1>2. ASSUME NEW j \in 1 .. b + c
      PROVE  /\ At(j, b, w) \in DOMAIN s /\ At(j, b, w) + 1 \in DOMAIN s
             /\ s[At(j, b, w)] = NoteOf(d + j) /\ s[At(j, b, w) + 1] = NoteOf(d + j)
  <2>1. CASE j <= b
    <3>1. At(j, b, w) = 2 * j - 1 /\ At(j, b, w) + 1 = 2 * j  BY <2>1 DEF At
    <3>2. j \in 1 .. b /\ 2 * j - 1 \in DOMAIN s /\ 2 * j \in DOMAIN s  BY <1>1, <2>1
    <3>3. s[2 * j - 1] = NoteOf(d + j) /\ s[2 * j] = NoteOf(d + j)  BY <3>2, Zenon DEF Framed
    <3> QED  BY <3>1, <3>2, <3>3, Zenon
  <2>2. CASE ~(j <= b)
    <3>1. PICK h \in 1 .. c : h = j - b  BY <2>2
    <3>2. At(j, b, w) = 2 * b + w + 2 * h - 1 /\ At(j, b, w) + 1 = 2 * b + w + 2 * h
      BY <2>2, <3>1 DEF At
    <3>3. 2 * b + w + 2 * h - 1 \in DOMAIN s /\ 2 * b + w + 2 * h \in DOMAIN s  BY <1>1
    <3>4. s[2 * b + w + 2 * h - 1] = NoteOf(d + b + h) /\ s[2 * b + w + 2 * h] = NoteOf(d + b + h)
      BY Zenon DEF Framed
    <3>5. d + b + h = d + j  BY <3>1
    <3> QED  BY <3>2, <3>3, <3>4, <3>5, Zenon
  <2> QED  BY <2>1, <2>2, Zenon
<1>3. ASSUME NEW i \in DOMAIN s, s[i].type = "notification"
      PROVE  \E j \in 1 .. b + c : i \in {At(j, b, w), At(j, b, w) + 1} /\ s[i].id = d + j
  <2>0. i \in 1 .. 2 * b + w + 2 * c  BY <1>1, Zenon
  <2>1. PICK j \in 1 .. b + c : i \in {At(j, b, w), At(j, b, w) + 1}
    <3>1. CASE i <= 2 * b
      <4>1. PICK j \in Nat : i = 2 * j \/ i = 2 * j - 1
        <5>1. i \in Nat  BY <2>0
        <5> QED  BY <5>1, Halves, Zenon
      <4>2. j \in 1 .. b /\ j <= b /\ j \in 1 .. b + c  BY <2>0, <3>1, <4>1
      <4>3. At(j, b, w) = 2 * j - 1 /\ At(j, b, w) + 1 = 2 * j  BY <4>2 DEF At
      <4> QED  BY <4>1, <4>2, <4>3, Zenon
    <3>2. CASE i > 2 * b /\ i <= 2 * b + w
      <4>1. PICK h \in 1 .. w : i = 2 * b + h
        <5>1. i - 2 * b \in 1 .. w /\ i = 2 * b + (i - 2 * b)  BY <2>0, <3>2
        <5> QED  BY <5>1, Zenon
      <4>2. s[i] = m /\ w > 0  BY <4>1 DEF Framed
      <4> QED  BY <1>3, <4>2, Zenon
    <3>3. CASE i > 2 * b + w
      <4>1. PICK h \in Nat : i - (2 * b + w) = 2 * h \/ i - (2 * b + w) = 2 * h - 1
        <5>1. i - (2 * b + w) \in Nat  BY <2>0, <3>3
        <5> QED  BY <5>1, Halves, Zenon
      <4>2. PICK j \in 1 .. b + c : j = b + h /\ ~(j <= b)
        <5>1. h \in 1 .. c  BY <2>0, <3>3, <4>1
        <5> QED  BY <5>1
      <4>3. At(j, b, w) = w + 2 * j - 1  BY <4>2, Zenon DEF At
      <4>4. i = w + 2 * j \/ i = w + 2 * j - 1  BY <2>0, <4>1, <4>2
      <4> QED  BY <4>3, <4>4
    <3> QED  BY <2>0, <3>1, <3>2, <3>3
  <2>2. s[i] = NoteOf(d + j)  BY <1>2, <2>1, Zenon
  <2>3. \A x : NoteOf(x).id = x  BY Zenon DEF NoteOf
  <2> QED  BY <2>1, <2>2, <2>3, Zenon
<1> QED  BY <1>2, <1>3, Zenon DEF NotesPlaced

\* Pending notifications do not overlap and come in order.
LEMMA AtOrder ==
  ASSUME NEW b \in Nat, NEW w \in Nat, NEW j \in Nat, NEW k \in Nat
  PROVE  At(j, b, w) \in Int /\ (j < k => At(j, b, w) + 2 <= At(k, b, w))
<1>1. At(j, b, w) \in Int  BY DEF At
<1>2. CASE k <= b  BY <1>2 DEF At
<1>3. CASE ~(k <= b) /\ j <= b  BY <1>3 DEF At
<1>4. CASE ~(k <= b) /\ ~(j <= b)  BY <1>4 DEF At
<1> QED  BY <1>1, <1>2, <1>3, <1>4, Zenon

\* The invariant says that notifications are in order.
LEMMA CtlInvOrder == CtlInv => InOrder
<1> SUFFICES ASSUME CtlInv, ~conn.failed PROVE InOrder
  BY Zenon DEF InOrder
<1>1. PICK s : s = conn.in \o toClient  BY Zenon
<1>2. /\ s \in Seq(Messages) /\ Coming = s
      /\ Len(delivered) \in Nat /\ Len(sent) \in Nat
      /\ DOMAIN delivered = 1 .. Len(delivered)
  BY <1>1, ConcatProperties, LenProperties, Zenon DEF CtlInv, CtlTypes, Connections, Coming
<1>3. PICK b \in Nat, w \in Nat, c \in Nat, m \in Messages \cup {NoteOf(0)} :
        Under(b, w, c, m) /\ (w > 0 => m.type # "notification")
  <2>1. CASE Idle \/ Waiting
    <3>1. PICK b \in Nat : Under(b, 0, 0, NoteOf(0))  BY <2>1, Zenon DEF Idle, Waiting
    <3> QED  BY <3>1
  <2>2. ASSUME NEW b \in Nat, NEW c \in Nat, NEW m \in Messages, Answering(b, c, m)
        PROVE  \E w \in Nat : Under(b, w, c, m) /\ (w > 0 => m.type # "notification")
    <3>1. Under(b, 1 + m.len, c, m) /\ 1 + m.len \in Nat /\ m.type # "notification"
      BY <2>2 DEF Answering, Messages, Requests
    <3> QED  BY <3>1, Zenon
  <2> QED  BY <2>1, <2>2, Zenon DEF CtlInv
<1>4. PICK d \in Nat : d = Len(delivered)  BY <1>2, Zenon
<1>5. Framed(s, d, b, w, c, m) /\ d + b + c = Len(sent)  BY <1>2, <1>3, <1>4, Zenon DEF Under
<1> DEFINE notes == {i \in DOMAIN s : s[i].type = "notification"}
           pending == Len(delivered) + 1 .. Len(sent)
<1>6. /\ Len(delivered) <= Len(sent)
      /\ \A i \in DOMAIN delivered : delivered[i] = sent[i]
  <2>1. d <= Len(sent)  BY <1>5
  <2>2. \A i \in 1 .. d : i \in 1 .. Len(sent)  BY <1>2, <2>1
  <2> QED  BY <1>2, <1>4, <2>1, <2>2, Zenon DEF CtlInv, Numbered
<1>7. \A n : NoteOf(n).id = n /\ NoteOf(n).type = "notification"  BY Zenon DEF NoteOf
<1>8. NotesPlaced(s, d, b, w, c)  BY <1>2, <1>3, <1>5, NotesAt, Zenon
<1>9. \A j \in 1 .. b + c : /\ At(j, b, w) \in notes /\ At(j, b, w) + 1 \in notes
                             /\ s[At(j, b, w)].id = d + j /\ s[At(j, b, w) + 1].id = d + j
  <2>1. \A j \in 1 .. b + c : /\ At(j, b, w) \in DOMAIN s /\ At(j, b, w) + 1 \in DOMAIN s
                               /\ s[At(j, b, w)] = NoteOf(d + j)
                               /\ s[At(j, b, w) + 1] = NoteOf(d + j)
    BY <1>8, Zenon DEF NotesPlaced
  <2> QED  BY <1>7, <2>1, Zenon
<1>10. \A i \in notes : \E j \in 1 .. b + c :
         i \in {At(j, b, w), At(j, b, w) + 1} /\ s[i].id = d + j
  BY <1>8, Zenon DEF NotesPlaced
<1> HIDE DEF notes
<1>11. ASSUME NEW i \in notes PROVE s[i].id \in pending
  <2>1. PICK j \in 1 .. b + c : s[i].id = d + j  BY <1>10, Zenon
  <2> QED  BY <1>4, <1>5, <2>1
<1>12. ASSUME NEW n \in pending
       PROVE  \E i \in notes : {j \in notes : s[j].id = n} = {i, i + 1}
  <2>1. PICK j \in 1 .. b + c : n = d + j
    <3>1. n - d \in 1 .. b + c /\ n = d + (n - d)  BY <1>4, <1>5
    <3> QED  BY <3>1, Zenon
  <2>2. PICK a : a = At(j, b, w)  BY Zenon
  <2>3. a \in notes /\ a + 1 \in notes /\ s[a].id = n /\ s[a + 1].id = n  BY <1>9, <2>1, <2>2, Zenon
  <2>4. ASSUME NEW i \in notes, s[i].id = n PROVE i \in {a, a + 1}
    <3>1. PICK k \in 1 .. b + c : i \in {At(k, b, w), At(k, b, w) + 1} /\ s[i].id = d + k  BY <1>10, Zenon
    <3>2. k = j  BY <2>1, <2>4, <3>1
    <3> QED  BY <2>2, <3>1, <3>2, Zenon
  <2>5. {i \in notes : s[i].id = n} = {a, a + 1}  BY <2>3, <2>4, Zenon
  <2> QED  BY <2>3, <2>5, Zenon
<1>13. ASSUME NEW i \in notes, NEW j \in notes, i <= j PROVE s[i].id <= s[j].id
  <2>1. PICK x \in 1 .. b + c : i \in {At(x, b, w), At(x, b, w) + 1} /\ s[i].id = d + x  BY <1>10, Zenon
  <2>2. PICK y \in 1 .. b + c : j \in {At(y, b, w), At(y, b, w) + 1} /\ s[j].id = d + y  BY <1>10, Zenon
  <2>3. x \in Nat /\ y \in Nat  OBVIOUS
  <2>4. PICK p \in Int, q \in Int : p = At(x, b, w) /\ q = At(y, b, w) /\ (y < x => q + 2 <= p)
    BY <2>3, AtOrder, Zenon
  <2>5. i \in {p, p + 1} /\ j \in {q, q + 1}  BY <2>1, <2>2, <2>4, Zenon
  <2>6. ~(y < x)  BY <1>13, <2>4, <2>5
  <2> QED  BY <2>1, <2>2, <2>3, <2>6
<1> QED  BY <1>1, <1>6, <1>11, <1>12, <1>13, ZenonT(30) DEF InOrder, notes

\* An answer the library accepts is the answer to the request just made,
\* whatever notifications and refusals come in between and however the socket
\* cuts them (_lldpctl_do_something, ctl_msg_recv_unserialized).
THEOREM AnswersOwn == Spec => []OwnAnswer
<1>1. CtlInv => OwnAnswer  BY Zenon DEF CtlInv
<1> QED  BY <1>1, CtlAlways, PTL

\* Notifications reach the program's callback in the order the daemon sent them,
\* each once, and those it has not seen are all in the buffer or the socket
\* (lldpctl_recv, check_for_notification, levent_ctl_notify).
THEOREM NotesInOrder == Spec => []InOrder
BY CtlInvOrder, CtlAlways, PTL

=============================================================================
