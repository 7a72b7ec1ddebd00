----------------------------- MODULE HostProofs -----------------------------
(***************************************************************************)
(* Two proofs about the processes on the host.                             *)
(*                                                                         *)
(* At most one lldpd runs, for any number of processes, starts, exits and  *)
(* crashes: the check of the control socket in lldpd_main keeps a second   *)
(* one out as long as no start overlaps another or an exit.                *)
(*                                                                         *)
(* The datagrams of the daemon and its monitor implement a procedure call, *)
(* for any interfaces, files, peers and addresses: Privsep refines         *)
(* PrivCalls. The inductive invariant says where the datagrams of a call   *)
(* can be. There is no call, and no datagram anywhere; or the request is   *)
(* spread over what the child has still to write, the socket and the       *)
(* buffers of the monitor, in this order; or it has been consumed as a     *)
(* whole, and its answer is spread over the monitor, the socket and the    *)
(* child.                                                                  *)
(***************************************************************************)
EXTENDS Startup, Privsep, SequenceTheorems, TLAPS

-----------------------------------------------------------------------------
\* One daemon: lldpd_main and the control socket.

Labels ==
  {"gone", "refused", "create", "listen", "check", "clean", "configure", "init", "loop", "unlink"}

StartTypes ==
  /\ pc \in [Procs -> Labels]
  /\ file \in Procs \cup {NoOne, Stale} /\ overlap \in BOOLEAN

\* The processes that listen are those past the control socket, and while no
\* start has overlapped: one process at most is on its way in or out; the name
\* is that of the daemon that runs, or of the one that has just bound it; and
\* whoever is about to remove the name does so with no daemon running.
OneBusy == \A p, q \in Busy : p = q

NamesAlive == \A p \in Procs : pc[p] \in {"listen", "configure", "init", "loop"} => file = p

CleansStale == \A p \in Procs : pc[p] \in {"clean", "unlink"} => Alive = {}

StartInv ==
  /\ StartTypes
  /\ listening = Alive
  /\ overlap \/ (OneBusy /\ NamesAlive /\ CleansStale)

\* What a step of process p from one place to another changes.
LEMMA Moves ==
  ASSUME StartTypes, NEW p \in Procs, NEW l \in Labels, Goto(p, l)
  PROVE  /\ pc' \in [Procs -> Labels]
         /\ pc'[p] = l
         /\ \A q \in Procs \ {p} : pc'[q] = pc[q]
         /\ Alive' = IF l \in {"configure", "init", "loop"} THEN Alive \cup {p} ELSE Alive \ {p}
         /\ Busy' = IF l \in Ended \cup {"loop"} THEN Busy \ {p} ELSE Busy \cup {p}
<1>1. /\ pc' \in [Procs -> Labels] /\ pc'[p] = l
      /\ \A q \in Procs \ {p} : pc'[q] = pc[q]
  BY Zenon DEF Goto, StartTypes
<1> QED  BY <1>1, Zenon DEF Alive, Busy

\* While one process is busy, the others are in their event loop or gone.
LEMMA Alone ==
  ASSUME StartTypes, OneBusy, NEW p \in Busy, NEW q \in Procs \ {p}
  PROVE  pc[q] \in Ended \cup {"loop"}
BY Zenon DEF OneBusy, Busy

\* A step of a busy process that neither changes the name nor listens, and does
\* not end up about to remove the name.
LEMMA QuietStep ==
  ASSUME StartInv, NEW p \in Procs, NEW l \in Labels, Goto(p, l), UNCHANGED <<file, overlap>>,
         pc[p] \notin Ended \cup {"loop"}, listening' = Alive',
         pc[p] \in {"configure", "init"} \/ l \in Ended \cup {"create", "check"},
         l \notin {"listen", "clean", "unlink"}
  PROVE  StartInv'
<1>1. /\ pc' \in [Procs -> Labels] /\ pc'[p] = l
      /\ \A q \in Procs \ {p} : pc'[q] = pc[q]
      /\ Alive' = IF l \in {"configure", "init", "loop"} THEN Alive \cup {p} ELSE Alive \ {p}
      /\ Busy' = IF l \in Ended \cup {"loop"} THEN Busy \ {p} ELSE Busy \cup {p}
  BY Moves, Zenon DEF StartInv
<1>2. StartTypes'  BY <1>1, Zenon DEF StartInv, StartTypes
<1>3. p \in Busy  BY Zenon DEF Busy
<1>4. ASSUME ~overlap PROVE OneBusy' /\ NamesAlive' /\ CleansStale'
  <2>1. OneBusy /\ NamesAlive /\ CleansStale  BY <1>4, Zenon DEF StartInv
  <2>2. OneBusy'  BY <1>1, <1>3, <2>1, Zenon DEF OneBusy
  <2>3. \A q \in Procs \ {p} : pc[q] \in Ended \cup {"loop"}
    BY <1>3, <2>1, Alone, Zenon DEF StartInv
  <2>4. NamesAlive'  BY <1>1, <2>1, Zenon DEF NamesAlive, Ended
  <2>5. CleansStale'  BY <1>1, <2>3, Zenon DEF CleansStale, Ended
  <2> QED  BY <2>2, <2>4, <2>5, Zenon
<1> QED  BY <1>2, <1>4, Zenon DEF StartInv

\* Every step keeps the invariant.
LEMMA StartStep ==
  StartInv /\ [StartNext]_startVars => StartInv'
<1> SUFFICES ASSUME StartInv, [StartNext]_startVars PROVE StartInv'
  BY Zenon
<1> USE DEF StartInv
<1>0. \A p \in Procs : p # NoOne /\ p # Stale  BY StartAssumption, Zenon
<1>1. ASSUME NEW p \in Procs, Start(p) PROVE StartInv'
  <2>1. Goto(p, "create") /\ pc[p] \in Ended  BY <1>1, Zenon DEF Start
  <2>2. /\ pc' \in [Procs -> Labels] /\ pc'[p] = "create"
        /\ \A q \in Procs \ {p} : pc'[q] = pc[q]
        /\ Alive' = Alive \ {p} /\ Busy' = Busy \cup {p}
    BY <2>1, Moves, Zenon DEF Labels, Ended
  <2>3. Alive' = Alive  BY <2>1, <2>2, Zenon DEF Alive, Ended
  <2>4. UNCHANGED <<file, listening>> /\ overlap' = (overlap \/ Busy # {})  BY <1>1, Zenon DEF Start
  <2>5. StartTypes' /\ (listening = Alive)'  BY <2>2, <2>3, <2>4, Zenon DEF StartTypes
  <2>6. ASSUME ~overlap' PROVE OneBusy' /\ NamesAlive' /\ CleansStale'
    <3>1. Busy = {} /\ ~overlap  BY <2>4, <2>6, Zenon
    <3>2. OneBusy'  BY <2>2, <3>1, Zenon DEF OneBusy
    <3>3. NamesAlive'  BY <2>2, <2>4, <3>1, Zenon DEF NamesAlive
    <3>4. CleansStale'  BY <2>2, <2>3, <3>1, Zenon DEF CleansStale
    <3> QED  BY <3>2, <3>3, <3>4, Zenon
  <2> QED  BY <2>5, <2>6, Zenon
<1>2. ASSUME NEW p \in Procs, CtlBind(p) PROVE StartInv'
  <2>0. pc[p] = "create" /\ UNCHANGED <<listening, overlap>>  BY <1>2, Zenon DEF CtlBind
  <2>1. CASE file = NoOne
    <3>1. Goto(p, "listen") /\ file' = p  BY <1>2, <2>1, Zenon DEF CtlBind
    <3>2. /\ pc' \in [Procs -> Labels] /\ pc'[p] = "listen"
          /\ \A q \in Procs \ {p} : pc'[q] = pc[q]
          /\ Alive' = Alive \ {p} /\ Busy' = Busy \cup {p}
      BY <3>1, Moves, Zenon DEF Labels, Ended
    <3>3. Alive' = Alive /\ Busy' = Busy  BY <2>0, <3>2, Zenon DEF Alive, Busy, Ended
    <3>4. StartTypes'  BY <2>0, <3>1, <3>2, Zenon DEF StartTypes
    <3>5. ASSUME ~overlap PROVE OneBusy' /\ NamesAlive' /\ CleansStale'
      <4>1. OneBusy /\ NamesAlive /\ CleansStale  BY <3>5, Zenon
      <4>2. \A q \in Procs : pc[q] \notin {"listen", "configure", "init", "loop"}
        BY <1>0, <2>1, <4>1, Zenon DEF NamesAlive
      <4>3. Alive = {}  BY <4>2, Zenon DEF Alive
      <4> QED  BY <3>1, <3>2, <3>3, <4>1, <4>2, <4>3, Zenon DEF OneBusy, NamesAlive, CleansStale
    <3> QED  BY <2>0, <3>3, <3>4, <3>5, Zenon
  <2>2. CASE file # NoOne
    <3>1. PICK l \in {"check", "refused"} : Goto(p, l)  BY <1>2, <2>2, Zenon DEF CtlBind
    <3>2. UNCHANGED file  BY <1>2, <2>2, Zenon DEF CtlBind
    <3>3. Alive' = Alive \ {p}  BY <3>1, Moves, Zenon DEF Labels
    <3>4. Alive' = Alive  BY <2>0, <3>3, Zenon DEF Alive
    <3> QED  BY <2>0, <3>1, <3>2, <3>4, QuietStep, Zenon DEF Ended, Labels
  <2> QED  BY <2>1, <2>2, Zenon
<1>3. ASSUME NEW p \in Procs, CtlListen(p) PROVE StartInv'
  <2>0. /\ pc[p] = "listen" /\ Goto(p, "configure") /\ listening' = listening \cup {p}
        /\ UNCHANGED <<file, overlap>>
    BY <1>3, Zenon DEF CtlListen
  <2>1. /\ pc' \in [Procs -> Labels] /\ pc'[p] = "configure"
        /\ \A q \in Procs \ {p} : pc'[q] = pc[q]
        /\ Alive' = Alive \cup {p} /\ Busy' = Busy \cup {p}
    BY <2>0, Moves, Zenon DEF Labels, Ended
  <2>2. p \in Busy  BY <2>0, Zenon DEF Busy, Ended
  <2>3. StartTypes' /\ (listening = Alive)'  BY <2>0, <2>1, Zenon DEF StartTypes
  <2>4. ASSUME ~overlap PROVE OneBusy' /\ NamesAlive' /\ CleansStale'
    <3>1. OneBusy /\ NamesAlive /\ CleansStale  BY <2>4, Zenon
    <3>2. \A q \in Procs \ {p} : pc[q] \in Ended \cup {"loop"}  BY <2>2, <3>1, Alone, Zenon
    <3>3. OneBusy'  BY <2>1, <2>2, <3>1, Zenon DEF OneBusy
    <3>4. NamesAlive'  BY <2>0, <2>1, <3>1, Zenon DEF NamesAlive
    <3>5. CleansStale'  BY <2>1, <3>2, Zenon DEF CleansStale, Ended
    <3> QED  BY <3>3, <3>4, <3>5, Zenon
  <2> QED  BY <2>0, <2>3, <2>4, Zenon
<1>4. ASSUME NEW p \in Procs, CtlConnect(p) PROVE StartInv'
  <2>0. pc[p] = "check" /\ UNCHANGED <<file, listening, overlap>>  BY <1>4, Zenon DEF CtlConnect
  <2>1. p \in Busy /\ p \notin Alive  BY <2>0, Zenon DEF Busy, Ended, Alive
  <2>2. CASE file \notin listening /\ file # NoOne
    <3>1. Goto(p, "clean")  BY <1>4, <2>2, Zenon DEF CtlConnect
    <3>2. /\ pc' \in [Procs -> Labels] /\ pc'[p] = "clean"
          /\ \A q \in Procs \ {p} : pc'[q] = pc[q]
          /\ Alive' = Alive \ {p} /\ Busy' = Busy \cup {p}
      BY <3>1, Moves, Zenon DEF Labels, Ended
    <3>3. StartTypes' /\ (listening = Alive)'  BY <2>0, <2>1, <3>2, Zenon DEF StartTypes
    <3>4. ASSUME ~overlap PROVE OneBusy' /\ NamesAlive' /\ CleansStale'
      <4>1. OneBusy /\ NamesAlive /\ CleansStale  BY <3>4, Zenon
      <4>2. Alive = {}  BY <2>2, <4>1, Zenon DEF NamesAlive, Alive
      <4> QED  BY <2>0, <2>1, <3>2, <4>1, <4>2, Zenon DEF OneBusy, NamesAlive, CleansStale
    <3> QED  BY <2>0, <3>3, <3>4, Zenon
  <2>3. CASE ~(file \notin listening /\ file # NoOne)
    <3>1. Goto(p, "refused")  BY <1>4, <2>3, Zenon DEF CtlConnect
    <3>2. Alive' = Alive  BY <2>1, <3>1, Moves DEF Labels
    <3> QED  BY <2>0, <3>1, <3>2, QuietStep, Zenon DEF Ended, Labels
  <2> QED  BY <2>2, <2>3, Zenon
<1>5. ASSUME NEW p \in Procs, CtlUnlink(p) \/ PrivCtlCleanup(p) PROVE StartInv'
  <2>0. pc[p] \in {"clean", "unlink"} /\ file' = NoOne /\ UNCHANGED <<listening, overlap>>
    BY <1>5, Zenon DEF CtlUnlink, PrivCtlCleanup
  <2>1. PICK l \in {"create", "gone"} : Goto(p, l)  BY <1>5, Zenon DEF CtlUnlink, PrivCtlCleanup
  <2>2. p \in Busy /\ p \notin Alive  BY <2>0, Zenon DEF Busy, Ended, Alive
  <2>3. /\ pc' \in [Procs -> Labels] /\ pc'[p] = l
        /\ \A q \in Procs \ {p} : pc'[q] = pc[q]
        /\ Alive' = Alive \ {p} /\ Busy' \subseteq Busy \cup {p}
    BY <2>1, Moves, Zenon DEF Labels, Ended
  <2>4. StartTypes' /\ (listening = Alive)'  BY <2>0, <2>2, <2>3, Zenon DEF StartTypes
  <2>5. ASSUME ~overlap PROVE OneBusy' /\ NamesAlive' /\ CleansStale'
    <3>1. OneBusy /\ NamesAlive /\ CleansStale  BY <2>5, Zenon
    <3>2. Alive = {}  BY <2>0, <3>1, Zenon DEF CleansStale
    <3>3. \A q \in Procs \ {p} : pc[q] \in Ended \cup {"loop"}  BY <2>2, <3>1, Alone, Zenon
    <3>4. \A q \in Procs \ {p} : pc[q] \in Ended  BY <3>2, <3>3, Zenon DEF Alive
    <3> QED  BY <2>2, <2>3, <3>1, <3>2, <3>4, Zenon DEF OneBusy, NamesAlive, CleansStale, Ended
  <2> QED  BY <2>0, <2>4, <2>5, Zenon
<1>6. ASSUME NEW p \in Procs, LldpdConfigure(p) \/ LldpdInit(p) PROVE StartInv'
  <2>0. pc[p] \in {"configure", "init"} /\ UNCHANGED <<file, listening, overlap>>
    BY <1>6, Zenon DEF LldpdConfigure, LldpdInit
  <2>1. PICK l \in {"init", "loop"} : Goto(p, l)  BY <1>6, Zenon DEF LldpdConfigure, LldpdInit
  <2>2. Alive' = Alive \cup {p}  BY <2>1, Moves, Zenon DEF Labels
  <2>3. Alive' = Alive  BY <2>0, <2>2, Zenon DEF Alive
  <2> QED  BY <2>0, <2>1, <2>3, QuietStep, Zenon DEF Ended, Labels
<1>7. ASSUME NEW p \in Procs, CliConnect(p) \/ CliRefused(p) \/ CliResume(p) \/ CliDies(p) PROVE StartInv'
  BY <1>7, Zenon DEF CliConnect, CliRefused, CliResume, CliDies, StartTypes, OneBusy, NamesAlive, CleansStale, Alive, Busy
<1>8. ASSUME NEW p \in Procs, LldpdExit(p) PROVE StartInv'
  <2>0. /\ pc[p] = "loop" /\ Goto(p, "unlink") /\ listening' = listening \ {p}
        /\ overlap' = (overlap \/ Busy # {}) /\ UNCHANGED file
    BY <1>8, Zenon DEF LldpdExit, Closes
  <2>1. /\ pc' \in [Procs -> Labels] /\ pc'[p] = "unlink"
        /\ \A q \in Procs \ {p} : pc'[q] = pc[q]
        /\ Alive' = Alive \ {p} /\ Busy' = Busy \cup {p}
    BY <2>0, Moves, Zenon DEF Labels, Ended
  <2>2. StartTypes' /\ (listening = Alive)'  BY <2>0, <2>1, Zenon DEF StartTypes
  <2>3. ASSUME ~overlap' PROVE OneBusy' /\ NamesAlive' /\ CleansStale'
    <3>1. OneBusy /\ NamesAlive /\ CleansStale /\ Busy = {}  BY <2>0, <2>3, Zenon
    <3>2. Alive' = {}  BY <2>0, <2>1, <3>1, Zenon DEF NamesAlive, Alive
    <3> QED  BY <2>0, <2>1, <3>1, <3>2, Zenon DEF OneBusy, NamesAlive, CleansStale
  <2> QED  BY <2>2, <2>3, Zenon
<1>9. ASSUME NEW p \in Procs, Dies(p) PROVE StartInv'
  <2>0. /\ Goto(p, "gone") /\ listening' = listening \ {p} /\ UNCHANGED overlap
        /\ file' = (IF file = p THEN Stale ELSE file)
    BY <1>9, Zenon DEF Dies, Closes
  <2>1. /\ pc' \in [Procs -> Labels] /\ pc'[p] = "gone"
        /\ \A q \in Procs \ {p} : pc'[q] = pc[q]
        /\ Alive' = Alive \ {p} /\ Busy' = Busy \ {p}
    BY <2>0, Moves, Zenon DEF Labels, Ended
  <2>2. StartTypes' /\ (listening = Alive)'  BY <2>0, <2>1, Zenon DEF StartTypes
  <2>3. ASSUME ~overlap PROVE OneBusy' /\ NamesAlive' /\ CleansStale'
    <3>1. OneBusy /\ NamesAlive /\ CleansStale  BY <2>3, Zenon
    <3>2. NamesAlive'  BY <2>0, <2>1, <3>1, Zenon DEF NamesAlive
    <3> QED  BY <2>1, <3>1, <3>2, Zenon DEF OneBusy, CleansStale
  <2> QED  BY <2>0, <2>2, <2>3, Zenon
<1>10. CASE UNCHANGED startVars
  BY <1>10, Zenon DEF startVars, StartTypes, OneBusy, NamesAlive, CleansStale, Alive, Busy
<1> QED
  BY <1>1, <1>2, <1>3, <1>4, <1>5, <1>6, <1>7, <1>8, <1>9, <1>10, Zenon DEF StartNext, Proceeds

\* For any number of processes, at most one lldpd is past the control socket at
\* any time, and the name of the socket leads to it, unless a start has
\* overlapped another start or an exit (lldpd_main, lldpd_exit).
THEOREM OnlyOneDaemon == StartSpec => []OneDaemon
<1>1. StartInit => StartInv
  BY Zenon DEF StartInit, StartInv, StartTypes, Labels, OneBusy, NamesAlive, CleansStale, Alive, Busy, Ended
<1>2. StartInv => OneDaemon
  <2> SUFFICES ASSUME StartInv, ~overlap
               PROVE  \A p \in Alive : Alive = {p} /\ file = p /\ p \in listening
    BY Zenon DEF OneDaemon
  <2>1. \A p \in Alive : file = p /\ p \in listening
    BY Zenon DEF StartInv, NamesAlive, Alive
  <2> QED  BY <2>1, Zenon
<1> QED  BY <1>1, <1>2, StartStep, PTL DEF StartSpec

-----------------------------------------------------------------------------
\* Privilege separation: priv.c and privsep_io.c.

Words ==
    {"ping", "ctl_cleanup", "ctl", "gethostbyname", "open", "ethtool", "iface_init", "index",
     "multicast", "mac", "add", "del", "description", "promisc", "snmp_socket", "canonical",
     "nodename", "settings"} \cup Ifaces \cup Files \cup Peers \cup Addrs

Datagrams == {Passed} \cup {Number(n) : n \in Int} \cup {Bytes(x) : x \in Words}

-----------------------------------------------------------------------------
\* Moving the first datagram of one queue to the end of the queue before it
\* changes nothing of the two together.
LEMMA ShiftHead ==
  ASSUME NEW D, NEW s \in Seq(D), NEW t \in Seq(D), t # <<>>
  PROVE  /\ Append(s, Head(t)) \in Seq(D) /\ Tail(t) \in Seq(D)
         /\ Append(s, Head(t)) \o Tail(t) = s \o t
<1>1. Head(t) \in D /\ Tail(t) \in Seq(D) /\ Len(Tail(t)) = Len(t) - 1
      /\ \A i \in 1 .. Len(Tail(t)) : Tail(t)[i] = t[i + 1]
  BY HeadTailProperties, Zenon
<1>2. Head(t) = t[1] /\ Len(t) \in Nat \ {0} /\ Len(s) \in Nat
  BY EmptySeq, LenProperties
<1> DEFINE a == Append(s, Head(t))
<1>3. a \in Seq(D) /\ Len(a) = Len(s) + 1 /\ a[Len(s) + 1] = t[1]
      /\ \A i \in 1 .. Len(s) : a[i] = s[i]
  BY <1>1, <1>2, AppendProperties
<1> HIDE DEF a
<1>4. /\ a \o Tail(t) \in Seq(D) /\ Len(a \o Tail(t)) = Len(s) + Len(t)
      /\ \A i \in 1 .. Len(s) + Len(t) : (a \o Tail(t))[i] =
            IF i <= Len(s) + 1 THEN a[i] ELSE Tail(t)[i - (Len(s) + 1)]
  <2>1. /\ a \o Tail(t) \in Seq(D) /\ Len(a \o Tail(t)) = Len(a) + Len(Tail(t))
        /\ \A i \in 1 .. Len(a) + Len(Tail(t)) : (a \o Tail(t))[i] =
              IF i <= Len(a) THEN a[i] ELSE Tail(t)[i - Len(a)]
    BY <1>1, <1>3, ConcatProperties, Zenon
  <2> QED BY <2>1, <1>1, <1>2, <1>3
<1>5. /\ s \o t \in Seq(D) /\ Len(s \o t) = Len(s) + Len(t)
      /\ \A i \in 1 .. Len(s) + Len(t) : (s \o t)[i] =
            IF i <= Len(s) THEN s[i] ELSE t[i - Len(s)]
  BY ConcatProperties, Zenon
<1>6. ASSUME NEW i \in 1 .. Len(s) + Len(t) PROVE (a \o Tail(t))[i] = (s \o t)[i]
  <2>1. CASE i <= Len(s)
    BY <2>1, <1>2, <1>3, <1>4, <1>5
  <2>2. CASE i = Len(s) + 1
    BY <2>2, <1>2, <1>3, <1>4, <1>5
  <2>3. CASE i > Len(s) + 1
    <3>1. i - (Len(s) + 1) \in 1 .. Len(Tail(t)) /\ i - (Len(s) + 1) + 1 = i - Len(s)
      BY <2>3, <1>1, <1>2
    <3>2. (a \o Tail(t))[i] = Tail(t)[i - (Len(s) + 1)]
      BY <2>3, <1>2, <1>4
    <3>3. (s \o t)[i] = t[i - Len(s)]
      BY <2>3, <1>2, <1>5
    <3> QED BY <3>1, <3>2, <3>3, <1>1, Zenon
  <2>4. i <= Len(s) \/ i = Len(s) + 1 \/ i > Len(s) + 1
    BY <1>2
  <2> QED BY <2>1, <2>2, <2>3, <2>4, Zenon
<1>7. a \o Tail(t) = s \o t
  BY <1>4, <1>5, <1>6, SeqEqual, Zenon
<1> QED BY <1>1, <1>3, <1>7, Zenon DEF a

\* A first datagram and the others make one sequence.
LEMMA Prepend ==
  ASSUME NEW D, NEW a \in D, NEW t \in Seq(D), NEW u \in Seq(D), Len(u) = 1 + Len(t), u[1] = a,
         \A i \in 1 .. Len(t) : u[i + 1] = t[i]
  PROVE  <<a>> \o t = u
<1>1. Len(<<a>>) = 1 /\ <<a>>[1] = a /\ Len(t) \in Nat /\ <<a>> \in Seq(D)
  BY LenProperties
<1>2. /\ <<a>> \o t \in Seq(D) /\ Len(<<a>> \o t) = 1 + Len(t)
      /\ \A i \in 1 .. 1 + Len(t) : (<<a>> \o t)[i] = IF i <= 1 THEN <<a>>[i] ELSE t[i - 1]
  BY <1>1, ConcatProperties
<1>3. ASSUME NEW i \in 1 .. Len(u) PROVE (<<a>> \o t)[i] = u[i]
  <2>1. CASE i = 1
    BY <2>1, <1>1, <1>2
  <2>2. CASE i # 1
    <3>1. i - 1 \in 1 .. Len(t) /\ (i - 1) + 1 = i /\ ~(i <= 1) /\ i \in 1 .. 1 + Len(t)
      BY <2>2, <1>1
    <3>2. u[(i - 1) + 1] = t[i - 1]
      BY <3>1, Zenon
    <3> QED BY <3>1, <3>2, <1>2, Zenon
  <2> QED BY <2>1, <2>2, Zenon
<1> QED BY <1>2, <1>3, SeqEqual, Zenon

LEMMA NoneMore ==
  ASSUME NEW a
  PROVE  <<a>> \o <<>> = <<a>>
<1>1. <<a>> \in Seq({a})
  OBVIOUS
<1> QED BY <1>1, ConcatEmptySeq, Zenon

LEMMA OneMore ==
  ASSUME NEW a, NEW b
  PROVE  <<a>> \o <<b>> = <<a, b>>
<1> DEFINE D == {a, b}  t == <<b>>  u == <<a, b>>
<1>1. Len(t) = 1 /\ Len(u) = 1 + Len(t) /\ u[1] = a
  OBVIOUS
<1>2. ASSUME NEW i \in 1 .. Len(t) PROVE u[i + 1] = t[i]
  <2>1. i = 1
    BY <1>1
  <2> QED BY <2>1
<1>3. t \in Seq(D) /\ u \in Seq(D) /\ a \in D
  OBVIOUS
<1> HIDE DEF t, u, D
<1>4. <<a>> \o t = u
  BY <1>1, <1>2, <1>3, Prepend, Zenon
<1> QED BY <1>4, Zenon DEF t, u

LEMMA TwoMore ==
  ASSUME NEW a, NEW b, NEW c
  PROVE  <<a>> \o <<b, c>> = <<a, b, c>>
<1> DEFINE D == {a, b, c}  t == <<b, c>>  u == <<a, b, c>>
<1>1. Len(t) = 2 /\ Len(u) = 1 + Len(t) /\ u[1] = a
  OBVIOUS
<1>2. ASSUME NEW i \in 1 .. Len(t) PROVE u[i + 1] = t[i]
  <2>1. i = 1 \/ i = 2
    BY <1>1
  <2> QED BY <2>1
<1>3. t \in Seq(D) /\ u \in Seq(D) /\ a \in D
  OBVIOUS
<1> HIDE DEF t, u, D
<1>4. <<a>> \o t = u
  BY <1>1, <1>2, <1>3, Prepend, Zenon
<1> QED BY <1>4, Zenon DEF t, u

LEMMA ThreeMore ==
  ASSUME NEW a, NEW b, NEW c, NEW d
  PROVE  <<a>> \o <<b, c, d>> = <<a, b, c, d>>
<1> DEFINE D == {a, b, c, d}  t == <<b, c, d>>  u == <<a, b, c, d>>
<1>1. Len(t) = 3 /\ Len(u) = 1 + Len(t) /\ u[1] = a
  OBVIOUS
<1>2. ASSUME NEW i \in 1 .. Len(t) PROVE u[i + 1] = t[i]
  <2>1. i = 1 \/ i = 2 \/ i = 3
    BY <1>1
  <2> QED BY <2>1
<1>3. t \in Seq(D) /\ u \in Seq(D) /\ a \in D
  OBVIOUS
<1> HIDE DEF t, u, D
<1>4. <<a>> \o t = u
  BY <1>1, <1>2, <1>3, Prepend, Zenon
<1> QED BY <1>4, Zenon DEF t, u

\* Three queues in a row, taken together from either end.
LEMMA Together ==
  \A D : \A s \in Seq(D), t \in Seq(D), u \in Seq(D) : (s \o t) \o u = s \o (t \o u)
BY ConcatAssociative, Zenon

LEMMA Behind ==
  ASSUME NEW D, NEW s \in Seq(D), NEW t \in Seq(D), NEW u \in Seq(D), NEW x, x = t \o u
  PROVE  (s \o t) \o u = s \o x
<1>1. (s \o t) \o u = s \o (t \o u)
  BY Together
<1> QED BY <1>1, Zenon

\* What has been read of a sequence is a prefix of it.
LEMMA Prefix ==
  ASSUME NEW D, NEW s \in Seq(D), NEW t \in Seq(D), NEW w \in Seq(D), s \o t = w
  PROVE  /\ Len(s) \in Nat /\ Len(t) \in Nat /\ Len(w) = Len(s) + Len(t)
         /\ \A i \in 1 .. Len(s) : s[i] = w[i]
         /\ Len(t) = 0 => t = <<>> /\ s = w
<1>1. Len(s) \in Nat /\ Len(t) \in Nat
  BY LenProperties, Zenon
<1>2. /\ Len(w) = Len(s) + Len(t)
      /\ \A i \in 1 .. Len(s) + Len(t) : w[i] = IF i <= Len(s) THEN s[i] ELSE t[i - Len(s)]
  BY ConcatProperties, Zenon
<1>3. ASSUME NEW i \in 1 .. Len(s) PROVE s[i] = w[i]
  BY <1>1, <1>2
<1>4. Len(t) = 0 => t = <<>>
  BY EmptySeq, Zenon
<1>5. s \o <<>> = s
  BY ConcatEmptySeq, Zenon
<1> QED BY <1>1, <1>2, <1>3, <1>4, <1>5, Zenon

-----------------------------------------------------------------------------
\* The path of the control socket is not empty.
LEMMA Named == NoText # "ctl"
  BY Zenon DEF NoText

\* The datagrams of each request, one by one.
LEMMA WritesShape ==
  ASSUME NEW r \in Requests
  PROVE  \/ r \in Ping \cup Hostname /\ Writes(r) = <<Bytes(r.cmd)>>
         \/ r \in CtlCleanup \cup Opens \cup Ethtools
            /\ Writes(r) = <<Bytes(r.cmd), Number(1), Bytes(r.name)>>
         \/ r \in Inits /\ Writes(r) = <<Bytes(r.cmd), Bytes(r.arg), Bytes(r.name)>>
         \/ r \in Multicasts
            /\ Writes(r) = <<Bytes(r.cmd), Bytes(r.name), Bytes("mac"), Bytes(r.arg)>>
         \/ r \in Descriptions /\ r.arg = NoText
            /\ Writes(r) = <<Bytes(r.cmd), Bytes(r.name), Number(0)>>
         \/ r \in Descriptions /\ r.arg # NoText
            /\ Writes(r) = <<Bytes(r.cmd), Bytes(r.name), Number(1), Bytes(r.arg)>>
         \/ r \in Promiscs \cup AgentSockets /\ Writes(r) = <<Bytes(r.cmd), Bytes(r.name)>>
<1>1. CASE r \in Ping \cup Hostname
  <2>1. r.cmd \in {"ping", "gethostbyname"}
    BY <1>1 DEF Ping, Hostname, Ask
  <2>2. Writes(r) = <<Bytes(r.cmd)>> \o <<>>
    BY <2>1, Zenon DEF Writes
  <2> QED BY <1>1, <2>2, NoneMore, Zenon
<1>2. CASE r \in CtlCleanup \cup Opens \cup Ethtools
  <2>1. r.cmd \in {"ctl_cleanup", "open", "ethtool"} /\ r.name # NoText
    BY <1>2, PrivAssumption, Named DEF CtlCleanup, Opens, Ethtools, Ask
  <2>2. Writes(r) = <<Bytes(r.cmd)>> \o <<Number(1), Bytes(r.name)>>
    BY <2>1, Zenon DEF Writes, Sized
  <2> QED BY <1>2, <2>2, TwoMore, Zenon
<1>3. CASE r \in Inits
  <2>1. r.cmd = "iface_init"
    BY <1>3 DEF Inits, Ask
  <2>2. Writes(r) = <<Bytes(r.cmd)>> \o <<Bytes(r.arg), Bytes(r.name)>>
    BY <2>1, Zenon DEF Writes
  <2> QED BY <1>3, <2>2, TwoMore, Zenon
<1>4. CASE r \in Multicasts
  <2>1. r.cmd = "multicast"
    BY <1>4 DEF Multicasts, Ask
  <2>2. Writes(r) = <<Bytes(r.cmd)>> \o <<Bytes(r.name), Bytes("mac"), Bytes(r.arg)>>
    BY <2>1, Zenon DEF Writes
  <2>3. <<Bytes(r.cmd)>> \o <<Bytes(r.name), Bytes("mac"), Bytes(r.arg)>>
        = <<Bytes(r.cmd), Bytes(r.name), Bytes("mac"), Bytes(r.arg)>>
    BY ThreeMore, Zenon
  <2> QED BY <1>4, <2>2, <2>3, Zenon
<1>5. CASE r \in Descriptions
  <2>1. r.cmd = "description"
    BY <1>5 DEF Descriptions, Ask
  <2>2. Writes(r) = <<Bytes(r.cmd)>> \o (<<Bytes(r.name)>> \o Sized(r.arg))
    BY <2>1, Zenon DEF Writes
  <2>3. CASE r.arg = NoText
    <3>1. Sized(r.arg) = <<Number(0)>>
      BY <2>3, Zenon DEF Sized
    <3>2. <<Bytes(r.name)>> \o Sized(r.arg) = <<Bytes(r.name), Number(0)>>
      BY <3>1, OneMore, Zenon
    <3> QED BY <1>5, <2>2, <2>3, <3>2, TwoMore, Zenon
  <2>4. CASE r.arg # NoText
    <3>1. Sized(r.arg) = <<Number(1), Bytes(r.arg)>>
      BY <2>4, Zenon DEF Sized
    <3>2. <<Bytes(r.name)>> \o <<Number(1), Bytes(r.arg)>>
          = <<Bytes(r.name), Number(1), Bytes(r.arg)>>
      BY TwoMore, Zenon
    <3>3. <<Bytes(r.cmd)>> \o <<Bytes(r.name), Number(1), Bytes(r.arg)>>
          = <<Bytes(r.cmd), Bytes(r.name), Number(1), Bytes(r.arg)>>
      BY ThreeMore, Zenon
    <3> QED BY <1>5, <2>2, <2>4, <3>1, <3>2, <3>3, Zenon
  <2> QED BY <2>3, <2>4, Zenon
<1>6. CASE r \in Promiscs \cup AgentSockets
  <2>1. r.cmd \in {"promisc", "snmp_socket"}
    BY <1>6 DEF Promiscs, AgentSockets, Ask
  <2>2. Writes(r) = <<Bytes(r.cmd)>> \o <<Bytes(r.name)>>
    BY <2>1, Zenon DEF Writes
  <2> QED BY <1>6, <2>2, OneMore, Zenon
<1> QED BY <1>1, <1>2, <1>3, <1>4, <1>5, <1>6, Zenon DEF Requests

\* Every one of them is a datagram, and the command comes first.
LEMMA WritesTyped ==
  ASSUME NEW r \in Requests
  PROVE  Writes(r) \in Seq(Datagrams) /\ Writes(r) # <<>>
<1>1. Number(0) \in Datagrams /\ Number(1) \in Datagrams /\ Bytes("mac") \in Datagrams
  BY DEF Datagrams, Words
<1>2. Bytes(r.cmd) \in Datagrams
  <2>1. r.cmd \in Words
    BY DEF Requests, Ping, Hostname, CtlCleanup, Opens, Ethtools, Inits, Multicasts,
           Descriptions, Promiscs, AgentSockets, Ask, Words
  <2> QED BY <2>1, Zenon DEF Datagrams
<1>3. ASSUME r \in CtlCleanup \cup Opens \cup Ethtools \cup Inits \cup Multicasts
                   \cup Descriptions \cup Promiscs \cup AgentSockets
      PROVE  Bytes(r.name) \in Datagrams
  <2>1. r.name \in Words
    BY <1>3 DEF CtlCleanup, Opens, Ethtools, Inits, Multicasts, Descriptions, Promiscs,
                AgentSockets, Ask, Words
  <2> QED BY <2>1, Zenon DEF Datagrams
<1>4. ASSUME r \in Inits \cup Multicasts \/ (r \in Descriptions /\ r.arg # NoText)
      PROVE  Bytes(r.arg) \in Datagrams
  <2>1. r.arg \in Words
    BY <1>4 DEF Inits, Multicasts, Descriptions, Ask, Words
  <2> QED BY <2>1, Zenon DEF Datagrams
<1>5. ASSUME NEW a \in Datagrams, NEW b \in Datagrams, NEW c \in Datagrams, NEW d \in Datagrams
      PROVE  /\ <<a>> \in Seq(Datagrams) /\ <<a>> # <<>>
             /\ <<a, b>> \in Seq(Datagrams) /\ <<a, b>> # <<>>
             /\ <<a, b, c>> \in Seq(Datagrams) /\ <<a, b, c>> # <<>>
             /\ <<a, b, c, d>> \in Seq(Datagrams) /\ <<a, b, c, d>> # <<>>
  OBVIOUS
<1> DEFINE Goal == Writes(r) \in Seq(Datagrams) /\ Writes(r) # <<>>
<1>6. ASSUME Writes(r) = <<Bytes(r.cmd)>> PROVE Goal
  BY <1>2, <1>5, <1>6, Zenon
<1>7. ASSUME r \in CtlCleanup \cup Opens \cup Ethtools,
             Writes(r) = <<Bytes(r.cmd), Number(1), Bytes(r.name)>>
      PROVE  Goal
  BY <1>1, <1>2, <1>3, <1>5, <1>7, Zenon
<1>8. ASSUME r \in Inits, Writes(r) = <<Bytes(r.cmd), Bytes(r.arg), Bytes(r.name)>> PROVE Goal
  <2>1. Bytes(r.arg) \in Datagrams
    BY <1>4, <1>8, Zenon
  <2>2. Bytes(r.name) \in Datagrams
    BY <1>3, <1>8, Zenon
  <2> QED BY <1>2, <1>5, <1>8, <2>1, <2>2, Zenon
<1>9. ASSUME r \in Multicasts,
             Writes(r) = <<Bytes(r.cmd), Bytes(r.name), Bytes("mac"), Bytes(r.arg)>>
      PROVE  Goal
  <2>1. Bytes(r.arg) \in Datagrams
    BY <1>4, <1>9, Zenon
  <2>2. Bytes(r.name) \in Datagrams
    BY <1>3, <1>9, Zenon
  <2> QED BY <1>1, <1>2, <1>5, <1>9, <2>1, <2>2
<1>10. ASSUME r \in Descriptions, Writes(r) = <<Bytes(r.cmd), Bytes(r.name), Number(0)>>
       PROVE  Goal
  BY <1>1, <1>2, <1>3, <1>5, <1>10, Zenon
<1>11. ASSUME r \in Descriptions, r.arg # NoText,
              Writes(r) = <<Bytes(r.cmd), Bytes(r.name), Number(1), Bytes(r.arg)>>
       PROVE  Goal
  BY <1>1, <1>2, <1>3, <1>4, <1>5, <1>11, ZenonT(30)
<1>12. ASSUME r \in Promiscs \cup AgentSockets, Writes(r) = <<Bytes(r.cmd), Bytes(r.name)>>
       PROVE  Goal
  BY <1>2, <1>3, <1>5, <1>12, Zenon
<1> HIDE DEF Goal
<1>13. Goal
  BY <1>6, <1>7, <1>8, <1>9, <1>10, <1>11, <1>12, WritesShape, Zenon
<1> QED BY <1>13, Zenon DEF Goal

\* An asroot_* function that has read all it asks for has read the whole request,
\* and understands it as it was meant: the two tables of arguments, one in
\* the proxies and one in the monitor, agree.
LEMMA ReadAsMeant ==
  ASSUME NEW r \in Requests, NEW a \in Seq(Datagrams), NEW rest \in Seq(Datagrams),
         a # <<>>, a \o rest = Writes(r), AllRead(a)
  PROVE  rest = <<>> /\ Understood(a) = r
<1> DEFINE w == Writes(r)
<1>1. w \in Seq(Datagrams)
  BY WritesTyped, Zenon
<1>2. /\ Len(a) \in Nat /\ Len(rest) \in Nat /\ Len(w) = Len(a) + Len(rest)
      /\ \A i \in 1 .. Len(a) : a[i] = w[i]
      /\ Len(rest) = 0 => rest = <<>>
  BY <1>1, Prefix
<1>0. ASSUME Len(w) = Len(a) PROVE Len(rest) = 0
  <2>1. Len(a) \in Nat /\ Len(rest) \in Nat /\ Len(a) = Len(a) + Len(rest)
    BY <1>0, <1>2, Zenon
  <2> QED BY <2>1
<1>3. Len(a) >= 1 /\ a[1] = w[1]
  <2>1. Len(a) # 0
    BY EmptySeq, Zenon
  <2> QED BY <2>1, <1>2
<1> DEFINE Goal == rest = <<>> /\ Understood(a) = r
<1> HIDE DEF w
<1>4. ASSUME r \in Ping \cup Hostname, w = <<Bytes(r.cmd)>> PROVE Goal
  <2>1. r.cmd \in {"ping", "gethostbyname"} /\ r = Ask(r.cmd, NoText, NoText)
    BY <1>4 DEF Ping, Hostname, Ask
  <2>2. Len(w) = 1 /\ w[1].val = r.cmd
    BY <1>4, Zenon DEF Bytes
  <2>3. Len(rest) = 0
    BY <1>2, <1>3, <2>2
  <2>4. Understood(a) = Ask(r.cmd, NoText, NoText)
    BY <1>3, <2>1, <2>2, Zenon DEF Understood
  <2> QED BY <1>2, <2>1, <2>3, <2>4, Zenon
<1>5. ASSUME r \in CtlCleanup \cup Opens \cup Ethtools,
             w = <<Bytes(r.cmd), Number(1), Bytes(r.name)>>
      PROVE  Goal
  <2>1. r.cmd \in {"ctl_cleanup", "open", "ethtool"} /\ r = Ask(r.cmd, r.name, NoText)
    BY <1>5 DEF CtlCleanup, Opens, Ethtools, Ask
  <2>2. Len(w) = 3 /\ w[1].val = r.cmd /\ w[2].val = 1 /\ w[3].val = r.name
    BY <1>5, Zenon DEF Bytes, Number
  <2>3. Len(a) > 1 /\ Len(a) = 2 + a[2].val
    BY <1>3, <2>1, <2>2, Zenon DEF AllRead
  <2>4. Len(a) = 3
    BY <1>2, <2>2, <2>3
  <2>5. Len(rest) = 0 /\ a[3].val = r.name
    <3>1. a[3] = w[3]
      BY <1>2, <2>2, <2>4
    <3>2. Len(w) = 3
      BY <2>2, Zenon
    <3>3. Len(rest) = 0
      BY <1>0, <2>4, <3>2, Zenon
    <3> QED BY <2>2, <3>1, <3>3, Zenon
  <2>6. Understood(a) = Ask(r.cmd, a[3].val, NoText)
    BY <1>3, <2>1, <2>2, Zenon DEF Understood
  <2> QED BY <1>2, <2>1, <2>5, <2>6, Zenon
<1>6. ASSUME r \in Inits, w = <<Bytes(r.cmd), Bytes(r.arg), Bytes(r.name)>> PROVE Goal
  <2>1. r.cmd = "iface_init" /\ r = Ask(r.cmd, r.name, r.arg)
    BY <1>6 DEF Inits, Ask
  <2>2. Len(w) = 3 /\ w[1].val = r.cmd /\ w[2].val = r.arg /\ w[3].val = r.name
    BY <1>6, Zenon DEF Bytes
  <2>3. Len(a) = 3
    BY <1>3, <2>1, <2>2, Zenon DEF AllRead
  <2>4. Len(rest) = 0 /\ a[2].val = r.arg /\ a[3].val = r.name
    <3>1. a[2] = w[2] /\ a[3] = w[3]
      BY <1>2, <2>2, <2>3
    <3>2. Len(w) = 3
      BY <2>2, Zenon
    <3>3. Len(rest) = 0
      BY <1>0, <2>3, <3>2, Zenon
    <3> QED BY <2>2, <3>1, <3>3, Zenon
  <2>5. Understood(a) = Ask(r.cmd, a[3].val, a[2].val)
    BY <1>3, <2>1, <2>2, Zenon DEF Understood
  <2> QED BY <1>2, <2>1, <2>4, <2>5, Zenon
<1>7. ASSUME r \in Multicasts,
             w = <<Bytes(r.cmd), Bytes(r.name), Bytes("mac"), Bytes(r.arg)>>
      PROVE  Goal
  <2>1. r.cmd = "multicast" /\ r = Ask(r.cmd, r.name, r.arg)
    BY <1>7 DEF Multicasts, Ask
  <2>2. Len(w) = 4 /\ w[1].val = r.cmd /\ w[2].val = r.name /\ w[4].val = r.arg
    BY <1>7, Zenon DEF Bytes
  <2>3. Len(a) = 4
    BY <1>3, <2>1, <2>2, Zenon DEF AllRead
  <2>4. Len(rest) = 0 /\ a[2].val = r.name /\ a[4].val = r.arg
    <3>1. a[2] = w[2] /\ a[4] = w[4]
      BY <1>2, <2>2, <2>3
    <3>2. Len(w) = 4
      BY <2>2, Zenon
    <3>3. Len(rest) = 0
      BY <1>0, <2>3, <3>2, Zenon
    <3> QED BY <2>2, <3>1, <3>3, Zenon
  <2>5. Understood(a) = Ask(r.cmd, a[2].val, a[4].val)
    BY <1>3, <2>1, <2>2, Zenon DEF Understood
  <2> QED BY <1>2, <2>1, <2>4, <2>5, Zenon
<1>8. ASSUME r \in Descriptions, r.arg = NoText,
             w = <<Bytes(r.cmd), Bytes(r.name), Number(0)>>
      PROVE  Goal
  <2>1. r.cmd = "description" /\ r = Ask(r.cmd, r.name, r.arg)
    BY <1>8 DEF Descriptions, Ask
  <2>2. Len(w) = 3 /\ w[1].val = r.cmd /\ w[2].val = r.name /\ w[3].val = 0
    BY <1>8, Zenon DEF Bytes, Number
  <2>3. Len(a) > 2 /\ Len(a) = 3 + a[3].val
    BY <1>3, <2>1, <2>2, Zenon DEF AllRead
  <2>4. Len(a) = 3
    BY <1>2, <2>2, <2>3
  <2>5. Len(rest) = 0 /\ a[2].val = r.name
    <3>1. a[2] = w[2]
      BY <1>2, <2>2, <2>4
    <3>2. Len(w) = 3
      BY <2>2, Zenon
    <3>3. Len(rest) = 0
      BY <1>0, <2>4, <3>2, Zenon
    <3> QED BY <2>2, <3>1, <3>3, Zenon
  <2>6. Understood(a) = Ask(r.cmd, a[2].val, NoText)
    BY <1>3, <2>1, <2>2, <2>4, Zenon DEF Understood
  <2> QED BY <1>2, <1>8, <2>1, <2>5, <2>6, Zenon
<1>9. ASSUME r \in Descriptions, r.arg # NoText,
             w = <<Bytes(r.cmd), Bytes(r.name), Number(1), Bytes(r.arg)>>
      PROVE  Goal
  <2>1. r.cmd = "description" /\ r = Ask(r.cmd, r.name, r.arg)
    BY <1>9 DEF Descriptions, Ask
  <2>2. Len(w) = 4 /\ w[1].val = r.cmd /\ w[2].val = r.name /\ w[3].val = 1 /\ w[4].val = r.arg
    BY <1>9, Zenon DEF Bytes, Number
  <2>3. Len(a) > 2 /\ Len(a) = 3 + a[3].val
    BY <1>3, <2>1, <2>2, Zenon DEF AllRead
  <2>4. Len(a) = 4
    BY <1>2, <2>2, <2>3
  <2>5. Len(rest) = 0 /\ a[2].val = r.name /\ a[4].val = r.arg
    <3>1. a[2] = w[2] /\ a[4] = w[4]
      BY <1>2, <2>2, <2>4
    <3>2. Len(w) = 4
      BY <2>2, Zenon
    <3>3. Len(rest) = 0
      BY <1>0, <2>4, <3>2, Zenon
    <3> QED BY <2>2, <3>1, <3>3, Zenon
  <2>6. Understood(a) = Ask(r.cmd, a[2].val, a[4].val)
    BY <1>3, <2>1, <2>2, <2>4 DEF Understood
  <2> QED BY <1>2, <2>1, <2>5, <2>6, Zenon
<1>10. ASSUME r \in Promiscs \cup AgentSockets, w = <<Bytes(r.cmd), Bytes(r.name)>> PROVE Goal
  <2>1. r.cmd \in {"promisc", "snmp_socket"} /\ r = Ask(r.cmd, r.name, NoText)
    BY <1>10 DEF Promiscs, AgentSockets, Ask
  <2>2. Len(w) = 2 /\ w[1].val = r.cmd /\ w[2].val = r.name
    BY <1>10, Zenon DEF Bytes
  <2>3. Len(a) = 2
    BY <1>3, <2>1, <2>2, Zenon DEF AllRead
  <2>4. Len(rest) = 0 /\ a[2].val = r.name
    <3>1. a[2] = w[2]
      BY <1>2, <2>2, <2>3
    <3>2. Len(w) = 2
      BY <2>2, Zenon
    <3>3. Len(rest) = 0
      BY <1>0, <2>3, <3>2, Zenon
    <3> QED BY <2>2, <3>1, <3>3, Zenon
  <2>5. Understood(a) = Ask(r.cmd, a[2].val, NoText)
    BY <1>3, <2>1, <2>2, Zenon DEF Understood
  <2> QED BY <1>2, <2>1, <2>4, <2>5, Zenon
<1> HIDE DEF Goal
<1>11. Goal
  BY <1>4, <1>5, <1>6, <1>7, <1>8, <1>9, <1>10, WritesShape, Zenon DEF w
<1> QED BY <1>11, Zenon DEF Goal

\* An answer is never empty, and has as many datagrams as the proxy reads.
LEMMA AnswerAsRead ==
  ASSUME NEW k, NEW r \in Requests, NEW o \in Outcomes(k, r)
  PROVE  /\ o.answer \in Seq(Datagrams) /\ o.answer # <<>>
         /\ Len(o.answer) = AnswerLen(r.cmd, o.answer[1].val)
<1>1. ASSUME NEW n \in Int
      PROVE  /\ <<Number(n)>> \in Seq(Datagrams) /\ <<Number(n)>> # <<>>
             /\ Len(<<Number(n)>>) = 1 /\ <<Number(n)>>[1].val = n
  <2>1. Number(n) \in Datagrams /\ Number(n).val = n
    BY Zenon DEF Datagrams, Number
  <2> QED BY <2>1
<1>2. ASSUME NEW n \in Int, NEW d \in Datagrams
      PROVE  /\ <<Number(n), d>> \in Seq(Datagrams) /\ <<Number(n), d>> # <<>>
             /\ Len(<<Number(n), d>>) = 2 /\ <<Number(n), d>>[1].val = n
  <2>1. Number(n) \in Datagrams /\ Number(n).val = n
    BY Zenon DEF Datagrams, Number
  <2> QED BY <2>1
<1>3. Passed \in Datagrams /\ Bytes("canonical") \in Datagrams /\ Bytes("nodename") \in Datagrams
      /\ Bytes("settings") \in Datagrams
  BY Zenon DEF Datagrams, Words
<1>4. r.cmd \in {"ping", "ctl_cleanup", "gethostbyname", "open", "ethtool", "iface_init",
                 "multicast", "description", "promisc", "snmp_socket"}
  BY DEF Requests, Ping, Hostname, CtlCleanup, Opens, Ethtools, Inits, Multicasts, Descriptions,
         Promiscs, AgentSockets, Ask
<1>5. CASE r.cmd \in {"ping", "ctl_cleanup", "multicast", "description", "promisc"}
  <2>1. \E n \in Int : o.answer = <<Number(n)>>
    <3>1. \/ o.answer = <<Number(1)>> \/ o.answer = <<Number(0)>>
          \/ o.answer = <<Number(-1)>> \/ o.answer = <<Number(19)>>
      BY <1>5 DEF Outcomes, asroot_ping, asroot_ctl_cleanup, asroot_iface_multicast,
                  asroot_iface_description, asroot_iface_promisc, Gives, Succeeds, Fails, Errno
    <3>2. 1 \in Int /\ 0 \in Int /\ -1 \in Int /\ 19 \in Int
      OBVIOUS
    <3> QED BY <3>1, <3>2, Zenon
  <2>2. PICK n \in Int : o.answer = <<Number(n)>>
    BY <2>1, Zenon
  <2>3. AnswerLen(r.cmd, o.answer[1].val) = 1
    BY <1>5, Zenon DEF AnswerLen
  <2> QED BY <1>1, <2>2, <2>3, Zenon
<1>6. CASE r.cmd = "gethostbyname"
  <2>1. o.answer = <<Number(1), Bytes("canonical")>> \/ o.answer = <<Number(1), Bytes("nodename")>>
    BY <1>6 DEF Outcomes, asroot_gethostbyname, Gives
  <2>2. AnswerLen(r.cmd, o.answer[1].val) = 2
    BY <1>6, Zenon DEF AnswerLen
  <2>3. PICK d \in Datagrams : o.answer = <<Number(1), d>>
    BY <1>3, <2>1, Zenon
  <2>4. <<Number(1), d>> \in Seq(Datagrams) /\ <<Number(1), d>> # <<>> /\ Len(<<Number(1), d>>) = 2
    BY <1>2
  <2> QED BY <2>2, <2>3, <2>4, Zenon
<1>7. CASE r.cmd = "open"
  <2>1. o.answer = <<Number(-1)>> \/ o.answer = <<Number(5), Passed>>
    BY <1>7 DEF Outcomes, asroot_open, Gives, Fails
  <2>2. AnswerLen(r.cmd, -1) = 1 /\ AnswerLen(r.cmd, 5) = 2
    BY <1>7 DEF AnswerLen
  <2>3. CASE o.answer = <<Number(-1)>>
    <3>1. -1 \in Int
      OBVIOUS
    <3>2. <<Number(-1)>> \in Seq(Datagrams) /\ <<Number(-1)>> # <<>>
          /\ Len(<<Number(-1)>>) = 1 /\ <<Number(-1)>>[1].val = -1
      BY <1>1, <3>1, Zenon
    <3> QED BY <2>2, <2>3, <3>2, Zenon
  <2>4. CASE o.answer = <<Number(5), Passed>>
    <3>1. <<Number(5), Passed>> \in Seq(Datagrams) /\ <<Number(5), Passed>> # <<>>
          /\ Len(<<Number(5), Passed>>) = 2 /\ <<Number(5), Passed>>[1].val = 5
      BY <1>2, <1>3
    <3> QED BY <2>2, <2>4, <3>1, Zenon
  <2> QED BY <2>1, <2>3, <2>4, Zenon
<1>8. CASE r.cmd = "ethtool"
  <2>1. o.answer = <<Number(-1)>> \/ o.answer = <<Number(0), Bytes("settings")>>
    BY <1>8 DEF Outcomes, asroot_ethtool, Gives, Fails
  <2>2. AnswerLen(r.cmd, -1) = 1 /\ AnswerLen(r.cmd, 0) = 2
    BY <1>8 DEF AnswerLen
  <2>3. CASE o.answer = <<Number(-1)>>
    <3>1. -1 \in Int
      OBVIOUS
    <3>2. <<Number(-1)>> \in Seq(Datagrams) /\ <<Number(-1)>> # <<>>
          /\ Len(<<Number(-1)>>) = 1 /\ <<Number(-1)>>[1].val = -1
      BY <1>1, <3>1, Zenon
    <3> QED BY <2>2, <2>3, <3>2, Zenon
  <2>4. CASE o.answer = <<Number(0), Bytes("settings")>>
    <3>1. <<Number(0), Bytes("settings")>> \in Seq(Datagrams) /\ <<Number(0), Bytes("settings")>> # <<>>
          /\ Len(<<Number(0), Bytes("settings")>>) = 2 /\ <<Number(0), Bytes("settings")>>[1].val = 0
      BY <1>2, <1>3
    <3> QED BY <2>2, <2>4, <3>1, Zenon
  <2> QED BY <2>1, <2>3, <2>4, Zenon
<1>9. CASE r.cmd = "iface_init"
  <2>1. o.answer = <<Number(19)>> \/ o.answer = <<Number(0), Passed>>
    BY <1>9 DEF Outcomes, asroot_iface_init, Gives, Fails, Errno
  <2>2. AnswerLen(r.cmd, 19) = 1 /\ AnswerLen(r.cmd, 0) = 2
    BY <1>9 DEF AnswerLen
  <2>3. CASE o.answer = <<Number(19)>>
    <3>1. 19 \in Int
      OBVIOUS
    <3>2. <<Number(19)>> \in Seq(Datagrams) /\ <<Number(19)>> # <<>>
          /\ Len(<<Number(19)>>) = 1 /\ <<Number(19)>>[1].val = 19
      BY <1>1, <3>1, Zenon
    <3> QED BY <2>2, <2>3, <3>2, Zenon
  <2>4. CASE o.answer = <<Number(0), Passed>>
    <3>1. <<Number(0), Passed>> \in Seq(Datagrams) /\ <<Number(0), Passed>> # <<>>
          /\ Len(<<Number(0), Passed>>) = 2 /\ <<Number(0), Passed>>[1].val = 0
      BY <1>2, <1>3
    <3> QED BY <2>2, <2>4, <3>1, Zenon
  <2> QED BY <2>1, <2>3, <2>4, Zenon
<1>10. CASE r.cmd = "snmp_socket"
  <2>1. o.answer = <<Number(-1)>> \/ o.answer = <<Number(0), Passed>>
    BY <1>10 DEF Outcomes, asroot_snmp_socket, Gives, Fails
  <2>2. AnswerLen(r.cmd, -1) = 1 /\ AnswerLen(r.cmd, 0) = 2
    BY <1>10 DEF AnswerLen
  <2>3. CASE o.answer = <<Number(-1)>>
    <3>1. -1 \in Int
      OBVIOUS
    <3>2. <<Number(-1)>> \in Seq(Datagrams) /\ <<Number(-1)>> # <<>>
          /\ Len(<<Number(-1)>>) = 1 /\ <<Number(-1)>>[1].val = -1
      BY <1>1, <3>1, Zenon
    <3> QED BY <2>2, <2>3, <3>2, Zenon
  <2>4. CASE o.answer = <<Number(0), Passed>>
    <3>1. <<Number(0), Passed>> \in Seq(Datagrams) /\ <<Number(0), Passed>> # <<>>
          /\ Len(<<Number(0), Passed>>) = 2 /\ <<Number(0), Passed>>[1].val = 0
      BY <1>2, <1>3
    <3> QED BY <2>2, <2>4, <3>1, Zenon
  <2> QED BY <2>1, <2>3, <2>4, Zenon
<1> QED BY <1>4, <1>5, <1>6, <1>7, <1>8, <1>9, <1>10, Zenon

-----------------------------------------------------------------------------
(* The inductive invariant.                                                *)

Queues ==
    /\ todo \in Seq(Datagrams) /\ down \in Seq(Datagrams) /\ args \in Seq(Datagrams)
    /\ toanswer \in Seq(Datagrams) /\ up \in Seq(Datagrams) /\ got \in Seq(Datagrams)

\* No call, and no datagram anywhere.
Quiet ==
    /\ req = None /\ child \notin {"writing", "reading"}
    /\ monitor \notin {"reading", "answering"}
    /\ todo = <<>> /\ down = <<>> /\ args = <<>>
    /\ got = <<>> /\ up = <<>> /\ toanswer = <<>>

\* The request is on its way.
Asking ==
    /\ req \in Requests /\ child \notin {"starting", "idle"}
    /\ child = "writing" => todo # <<>>
    /\ child = "reading" => todo = <<>>
    /\ (args \o down) \o todo = Writes(req)
    /\ monitor = "reading" => args # <<>>
    /\ monitor \in {"starting", "check", "loop"} => args = <<>>
    /\ monitor # "answering"
    /\ got = <<>> /\ up = <<>> /\ toanswer = <<>>

\* It has been carried out, and the answer is on its way.
Answering ==
    /\ req \in Requests /\ child \notin {"starting", "idle", "writing"}
    /\ todo = <<>> /\ down = <<>> /\ args = <<>>
    /\ monitor # "reading" /\ (monitor = "answering" => toanswer # <<>>)
    /\ WholeAnswer # <<>> /\ Len(WholeAnswer) = AnswerLen(req.cmd, WholeAnswer[1].val)

OneCall == Queues /\ (Quiet \/ Asking \/ Answering)

\* The shape of the answer in a state without datagrams of one.
LEMMA NoAnswer ==
  ASSUME got = <<>>, up = <<>>, toanswer = <<>>
  PROVE  WholeAnswer = <<>>
<1>1. <<>> \in Seq(Datagrams)
  OBVIOUS
<1>2. \A s \in Seq(Datagrams) : s \o <<>> = s
  BY ConcatEmptySeq, Zenon
<1> QED BY <1>1, <1>2, Zenon DEF WholeAnswer

\* The invariant holds when lldpd starts.
LEMMA OneCallInit == PrivInit => OneCall
<1>1. <<>> \in Seq(Datagrams)
  OBVIOUS
<1> QED BY <1>1, Zenon DEF PrivInit, OneCall, Queues, Quiet

\* An execution, a call or a return as the abstract specification has it, or none.
Promised ==
    \/ \E r \in Requests : Calls!Call(r)
    \/ Calls!Perform \/ Calls!Return
    \/ UNCHANGED <<req, WholeAnswer, result, kernel>>

\* A process that ends, or starts, moves no datagram.
LEMMA NothingMoved ==
  ASSUME OneCall, UNCHANGED <<req, todo, got, result, args, toanswer, kernel, down, up>>,
         child' = child \/ child' \in {"gone", "reaped"},
         \/ monitor' = monitor \/ monitor' = "gone"
         \/ monitor \in {"starting", "check"} /\ monitor' \in {"check", "loop"}
         \/ monitor = "answering" /\ monitor' = "loop"
  PROVE  OneCall' /\ Promised
<1>1. Queues'
  BY Zenon DEF OneCall, Queues
<1>2. WholeAnswer' = WholeAnswer
  BY Zenon DEF WholeAnswer
<1>3. CASE Quiet
  <2>1. Quiet'
    BY <1>3, Zenon DEF Quiet
  <2> QED BY <1>1, <1>2, <2>1, Zenon DEF OneCall, Promised
<1>4. CASE Asking
  <2>1. Asking'
    BY <1>4, Zenon DEF Asking
  <2> QED BY <1>1, <1>2, <2>1, Zenon DEF OneCall, Promised
<1>5. CASE Answering
  <2>1. Answering'
    BY <1>2, <1>5, Zenon DEF Answering
  <2> QED BY <1>1, <1>2, <2>1, Zenon DEF OneCall, Promised
<1> QED BY <1>3, <1>4, <1>5, Zenon DEF OneCall

\* A proxy is called: all its datagrams are still to be written.
LEMMA CallStarts ==
  ASSUME OneCall, child \in {"starting", "idle"}, NEW r \in Requests, StartCall(r)
  PROVE  OneCall' /\ Promised
<1>1. Quiet
  BY Zenon DEF OneCall, Asking, Answering
<1>2. Writes(r) \in Seq(Datagrams) /\ Writes(r) # <<>>
  BY WritesTyped, Zenon
<1>3. Queues'
  BY <1>1, <1>2, Zenon DEF OneCall, Queues, Quiet, StartCall, monitorVars
<1>4. (args \o down) \o Writes(r) = Writes(r)
  <2>1. args = <<>> /\ down = <<>> /\ <<>> \o <<>> = <<>>
    BY <1>1 DEF Quiet
  <2>2. <<>> \o Writes(r) = Writes(r)
    BY <1>2, ConcatEmptySeq, Zenon
  <2> QED BY <2>1, <2>2, Zenon
<1>5. Asking'
  BY <1>1, <1>2, <1>4, Zenon DEF Asking, Quiet, StartCall, monitorVars
<1>6. Calls!Call(r)
  <2>1. WholeAnswer' = WholeAnswer
    BY <1>1, Zenon DEF WholeAnswer, Quiet, StartCall, monitorVars
  <2> QED BY <1>1, <2>1, Zenon DEF Calls!Call, Quiet, StartCall, monitorVars
<1> QED BY <1>3, <1>5, <1>6, Zenon DEF OneCall, Promised

\* The child writes: a datagram moves from the proxy to the socket.
LEMMA WriteMoves ==
  ASSUME OneCall, ChildWrite
  PROVE  OneCall' /\ Promised
<1>1. Asking /\ todo # <<>>
  BY Zenon DEF OneCall, Quiet, Asking, Answering, ChildWrite
<1>2. /\ down' \in Seq(Datagrams) /\ todo' \in Seq(Datagrams)
      /\ (args \o down') \o todo' = (args \o down) \o todo
  <2>1. args \in Seq(Datagrams) /\ down \in Seq(Datagrams) /\ todo \in Seq(Datagrams)
    BY Zenon DEF OneCall, Queues
  <2>2. down' \in Seq(Datagrams) /\ todo' \in Seq(Datagrams) /\ down' \o todo' = down \o todo
    BY <1>1, <2>1, ShiftHead DEF ChildWrite
  <2>3. PICK x : x = down \o todo
    BY Zenon
  <2>4. (args \o down) \o todo = args \o x
    BY <2>1, <2>3, Behind
  <2>5. (args \o down') \o todo' = args \o x
    <3>1. x = down' \o todo'
      BY <2>2, <2>3, Zenon
    <3>2. down' \in Seq(Datagrams) /\ todo' \in Seq(Datagrams)
      BY <2>2, Zenon
    <3> QED BY <2>1, <3>1, <3>2, Behind, SMTT(30)
  <2> QED BY <2>2, <2>4, <2>5, Zenon
<1>3. UNCHANGED <<req, got, result, monitor, args, toanswer, kernel, up>>
  BY Zenon DEF ChildWrite, monitorVars
<1>4. (Len(todo) = 1 <=> todo' = <<>>) /\ (child' = IF Len(todo) = 1 THEN "reading" ELSE "writing")
  <2>1. Len(todo') = Len(todo) - 1 /\ Len(todo) \in Nat
    BY <1>1, HeadTailProperties, LenProperties, Zenon DEF OneCall, Queues, ChildWrite
  <2>2. todo' = <<>> <=> Len(todo') = 0
    BY <1>2, EmptySeq, Zenon
  <2> QED BY <2>1, <2>2 DEF ChildWrite
<1>5. Queues'
  BY <1>2, <1>3, Zenon DEF OneCall, Queues
<1>6. Asking'
  BY <1>1, <1>2, <1>3, <1>4, Zenon DEF Asking
<1>7. WholeAnswer' = WholeAnswer
  BY <1>3, Zenon DEF WholeAnswer
<1> QED BY <1>3, <1>5, <1>6, <1>7, Zenon DEF OneCall, Promised

\* The monitor reads: a datagram moves from the socket to its buffers.
LEMMA ReadMoves ==
  ASSUME OneCall, MonitorRead
  PROVE  OneCall' /\ Promised
<1>1. Asking /\ down # <<>>
  BY Zenon DEF OneCall, Quiet, Answering, MonitorRead
<1>2. /\ args' \in Seq(Datagrams) /\ down' \in Seq(Datagrams) /\ args' \o down' = args \o down
  BY <1>1, ShiftHead, SMTT(30) DEF OneCall, Queues, MonitorRead
<1>3. UNCHANGED <<req, got, result, child, todo, toanswer, kernel, up>> /\ monitor' = "reading"
  BY Zenon DEF MonitorRead, childVars
<1>4. args' # <<>>
  <2>1. Head(down) \in Datagrams
    BY <1>1, HeadTailProperties, Zenon DEF OneCall, Queues
  <2>2. Len(args') = Len(args) + 1 /\ Len(args) \in Nat
    BY <2>1, AppendProperties, LenProperties, Zenon DEF OneCall, Queues, MonitorRead
  <2> QED BY <2>2, <1>2, EmptySeq
<1>5. Queues'
  BY <1>2, <1>3, Zenon DEF OneCall, Queues
<1>6. Asking'
  BY <1>1, <1>2, <1>3, <1>4, Zenon DEF Asking
<1>7. WholeAnswer' = WholeAnswer
  BY <1>3, Zenon DEF WholeAnswer
<1> QED BY <1>3, <1>5, <1>6, <1>7, Zenon DEF OneCall, Promised

\* The host's operations do not depend on who names them.
LEMMA SameOperations ==
  /\ Calls!Requests = Requests
  /\ \A k, r : Calls!Outcomes(k, r) = Outcomes(k, r)
<1>1. Calls!Requests = Requests
  BY DEF Calls!Requests, Calls!Ping, Calls!CtlCleanup, Calls!Hostname, Calls!Opens,
         Calls!Ethtools, Calls!Inits, Calls!Multicasts, Calls!Descriptions, Calls!Promiscs,
         Calls!AgentSockets, Calls!Ask, Calls!NoText, Requests, Ping, CtlCleanup, Hostname, Opens,
         Ethtools, Inits, Multicasts, Descriptions, Promiscs, AgentSockets, Ask, NoText
<1>2. ASSUME NEW k, NEW r PROVE Calls!Outcomes(k, r) = Outcomes(k, r)
  BY Zenon DEF Calls!Outcomes, Calls!asroot_ping, Calls!asroot_ctl_cleanup,
         Calls!asroot_gethostbyname, Calls!asroot_open, Calls!asroot_ethtool,
         Calls!asroot_iface_init, Calls!asroot_iface_multicast, Calls!asroot_iface_description,
         Calls!asroot_iface_promisc, Calls!asroot_snmp_socket, Calls!Gives, Calls!Fails,
         Calls!Succeeds, Calls!Errno, Calls!Described, Calls!Alias, Calls!NoAlias,
         Calls!Number, Calls!Bytes, Calls!Passed, Calls!NoText, 
         Outcomes, asroot_ping, asroot_ctl_cleanup, asroot_gethostbyname, asroot_open,
         asroot_ethtool, asroot_iface_init, asroot_iface_multicast, asroot_iface_description,
         asroot_iface_promisc, asroot_snmp_socket, Gives, Fails, Succeeds, Errno, Described,
         Alias, NoAlias, Number, Bytes, Passed, NoText
<1> QED BY <1>1, <1>2, Zenon

\* The monitor carries the request out: the whole of it, and as it was meant.
LEMMA PerformOnce ==
  ASSUME OneCall, MonitorPerform
  PROVE  OneCall' /\ Promised
<1>1. Asking /\ AllRead(args) /\ args # <<>>
  BY Zenon DEF OneCall, Quiet, Asking, Answering, MonitorPerform
<1>2. args \in Seq(Datagrams) /\ down \in Seq(Datagrams) /\ todo \in Seq(Datagrams)
  BY Zenon DEF OneCall, Queues
<1>3. PICK x \in Seq(Datagrams) : x = down \o todo
  BY <1>2, ConcatProperties, Zenon
<1>4. args \o x = Writes(req)
  <2>1. (args \o down) \o todo = args \o x
    BY <1>2, <1>3, Behind
  <2> QED BY <2>1, <1>1, Zenon DEF Asking
<1>5. x = <<>> /\ Understood(args) = req
  <2>1. req \in Requests
    BY <1>1, Zenon DEF Asking
  <2> QED BY <1>1, <1>2, <1>4, <2>1, ReadAsMeant, Zenon
<1>6. down = <<>> /\ todo = <<>>
  <2>1. Len(down) \in Nat /\ Len(todo) \in Nat /\ Len(x) = Len(down) + Len(todo)
    BY <1>2, <1>3, ConcatProperties, LenProperties, Zenon
  <2>2. Len(down) = 0 /\ Len(todo) = 0
    <3>1. Len(x) = 0
      BY <1>5, Zenon
    <3>2. Len(down) + Len(todo) = 0
      BY <2>1, <3>1, Zenon
    <3>3. ASSUME NEW m \in Nat, NEW n \in Nat, m + n = 0 PROVE m = 0 /\ n = 0
      BY <3>3
    <3> QED BY <2>1, <3>2, <3>3, Zenon
  <2> QED BY <1>2, <2>2, EmptySeq, Zenon
<1>7. PICK o \in Outcomes(kernel, req) : kernel' = o.kernel /\ toanswer' = o.answer
  BY <1>5, Zenon DEF MonitorPerform
<1>8. /\ o.answer \in Seq(Datagrams) /\ o.answer # <<>>
      /\ Len(o.answer) = AnswerLen(req.cmd, o.answer[1].val)
  BY <1>1, AnswerAsRead, Zenon DEF Asking
<1>9. UNCHANGED <<child, req, todo, got, result, down, up>> /\ args' = <<>>
      /\ monitor' = "answering" /\ got = <<>> /\ up = <<>> /\ toanswer = <<>>
  BY <1>1, Zenon DEF MonitorPerform, childVars, Asking
<1>10. WholeAnswer' = o.answer
  <2>1. <<>> \o o.answer = o.answer /\ <<>> \o <<>> = <<>>
    BY <1>8, ConcatEmptySeq
  <2>2. got' = <<>> /\ up' = <<>> /\ toanswer' = o.answer
    BY <1>7, <1>9, Zenon
  <2> QED BY <2>1, <2>2, Zenon DEF WholeAnswer
<1>11. Queues'
  BY <1>2, <1>7, <1>8, <1>9, Zenon DEF OneCall, Queues
<1>12. Answering'
  <2>1. child \notin {"starting", "idle", "writing"} /\ req \in Requests
    BY <1>1, <1>6, Zenon DEF Asking
  <2> QED BY <1>6, <1>7, <1>8, <1>9, <1>10, <2>1, Zenon DEF Answering
<1>13. Calls!Perform
  <2>1. req # None
    BY <1>1, NoneAssumption, Zenon DEF Asking
  <2>2. WholeAnswer = <<>>
    BY <1>9, NoAnswer, Zenon
  <2>3. o \in Calls!Outcomes(kernel, req)
    BY SameOperations, Zenon
  <2> QED BY <1>7, <1>9, <1>10, <2>1, <2>2, <2>3, Zenon DEF Calls!Perform
<1> QED BY <1>11, <1>12, <1>13, Zenon DEF OneCall, Promised

\* The monitor writes: a datagram of the answer moves to the socket.
LEMMA AnswerMoves ==
  ASSUME OneCall, MonitorWrite
  PROVE  OneCall' /\ Promised
<1>1. Answering /\ toanswer # <<>>
  BY Zenon DEF OneCall, Quiet, Asking, Answering, MonitorWrite
<1>2. got \in Seq(Datagrams) /\ up \in Seq(Datagrams) /\ toanswer \in Seq(Datagrams)
  BY Zenon DEF OneCall, Queues
<1>3. up' \in Seq(Datagrams) /\ toanswer' \in Seq(Datagrams) /\ up' \o toanswer' = up \o toanswer
  BY <1>1, <1>2, ShiftHead DEF MonitorWrite
<1>4. UNCHANGED <<child, req, todo, got, result, args, kernel, down>>
  BY Zenon DEF MonitorWrite, childVars
<1>5. WholeAnswer' = WholeAnswer
  <2>1. PICK x : x = up \o toanswer
    BY Zenon
  <2>2. (got \o up) \o toanswer = got \o x
    BY <1>2, <2>1, Behind
  <2>3. (got \o up') \o toanswer' = got \o x
    <3>1. x = up' \o toanswer'
      BY <1>3, <2>1, Zenon
    <3>2. up' \in Seq(Datagrams) /\ toanswer' \in Seq(Datagrams)
      BY <1>3, Zenon
    <3> QED BY <1>2, <3>1, <3>2, Behind, SMTT(30)
  <2> QED BY <1>4, <2>2, <2>3, Zenon DEF WholeAnswer
<1>6. monitor' = "loop" \/ (monitor' = "answering" /\ toanswer' # <<>>)
  <2>1. Len(toanswer') = Len(toanswer) - 1 /\ Len(toanswer) \in Nat
    BY <1>1, <1>2, HeadTailProperties, LenProperties, Zenon DEF MonitorWrite
  <2>2. toanswer' = <<>> <=> Len(toanswer') = 0
    BY <1>3, EmptySeq, Zenon
  <2> QED BY <2>1, <2>2 DEF MonitorWrite
<1>7. Queues'
  BY <1>3, <1>4, Zenon DEF OneCall, Queues
<1>8. Answering'
  BY <1>1, <1>4, <1>5, <1>6, Zenon DEF Answering
<1> QED BY <1>4, <1>5, <1>7, <1>8, Zenon DEF OneCall, Promised

\* The child reads: the answer is complete when all of it has been read, and
\* then nothing of it is left anywhere.
LEMMA ReturnOnce ==
  ASSUME OneCall, ChildRead
  PROVE  OneCall' /\ Promised
<1>1. Answering /\ up # <<>> /\ child = "reading"
  BY Zenon DEF OneCall, Quiet, Asking, Answering, ChildRead
<1>2. got \in Seq(Datagrams) /\ up \in Seq(Datagrams) /\ toanswer \in Seq(Datagrams)
  BY Zenon DEF OneCall, Queues
<1> DEFINE read == Append(got, Head(up))
<1>3. read \in Seq(Datagrams) /\ up' \in Seq(Datagrams) /\ read \o up' = got \o up
  BY <1>1, <1>2, ShiftHead, SMTT(30) DEF ChildRead
<1>4. UNCHANGED <<todo, monitor, args, toanswer, kernel, down>>
  BY Zenon DEF ChildRead, monitorVars
<1>5. (read \o up') \o toanswer = WholeAnswer
  BY <1>3, Zenon DEF WholeAnswer
<1>6. Len(read) \in Nat \ {0}
  <2>1. Head(up) \in Datagrams
    BY <1>1, <1>2, HeadTailProperties, Zenon
  <2>2. Len(read) = Len(got) + 1 /\ Len(got) \in Nat
    BY <1>2, <2>1, AppendProperties, LenProperties, Zenon
  <2> QED BY <2>2
<1> DEFINE done == Len(read) = AnswerLen(req.cmd, read[1].val)
<1>7. /\ got' = (IF done THEN <<>> ELSE read) /\ result' = (IF done THEN read ELSE result)
      /\ req' = (IF done THEN None ELSE req) /\ child' = (IF done THEN "idle" ELSE "reading")
  BY Zenon DEF ChildRead
<1> HIDE DEF read
<1>8. PICK x \in Seq(Datagrams) : x = up' \o toanswer
  BY <1>2, <1>3, ConcatProperties, Zenon
<1>9. read \o x = WholeAnswer
  <2>1. (read \o up') \o toanswer = read \o x
    <3>1. read \in Seq(Datagrams) /\ up' \in Seq(Datagrams)
      BY <1>3, Zenon
    <3> QED BY <1>2, <1>8, <3>1, Behind, SMTT(30)
  <2> QED BY <2>1, <1>5, Zenon
<1>10. /\ WholeAnswer \in Seq(Datagrams) /\ Len(x) \in Nat
       /\ Len(WholeAnswer) = Len(read) + Len(x) /\ read[1] = WholeAnswer[1]
       /\ Len(x) = 0 => x = <<>> /\ read = WholeAnswer
  <2>1. read \in Seq(Datagrams)
    BY <1>3, Zenon
  <2>2. WholeAnswer \in Seq(Datagrams)
    BY <1>8, <1>9, <2>1, ConcatProperties, Zenon
  <2>3. /\ Len(x) \in Nat /\ Len(WholeAnswer) = Len(read) + Len(x)
        /\ \A i \in 1 .. Len(read) : read[i] = WholeAnswer[i]
        /\ Len(x) = 0 => x = <<>> /\ read = WholeAnswer
    <3>1. PICK y \in Seq(Datagrams) : y = WholeAnswer
      BY <2>2, Zenon
    <3>2. PICK z \in Seq(Datagrams) : z = read
      BY <2>1, Zenon
    <3>3. y = z \o x
      BY <1>9, <3>1, <3>2, Zenon
    <3>4. /\ Len(x) \in Nat /\ Len(y) = Len(z) + Len(x)
          /\ \A i \in 1 .. Len(z) : z[i] = y[i]
          /\ Len(x) = 0 => x = <<>> /\ z = y
      BY <3>3, Prefix
    <3> QED BY <3>1, <3>2, <3>4, Zenon
  <2>4. 1 \in 1 .. Len(read)
    BY <1>6
  <2> QED BY <2>2, <2>3, <2>4, Zenon
<1>11. CASE done
  <2>1. Len(x) = 0
    <3>1. Len(WholeAnswer) = Len(read)
      BY <1>1, <1>10, <1>11, Zenon DEF Answering
    <3> QED BY <3>1, <1>6, <1>10
  <2>2. read = WholeAnswer /\ x = <<>>
    BY <2>1, <1>10, Zenon
  <2>3. up' = <<>> /\ toanswer = <<>>
    <3>1. Len(up') \in Nat /\ Len(toanswer) \in Nat /\ Len(x) = Len(up') + Len(toanswer)
      BY <1>2, <1>3, <1>8, ConcatProperties, LenProperties, Zenon
    <3>2. Len(up') = 0 /\ Len(toanswer) = 0
      BY <2>1, <3>1
    <3> QED BY <1>2, <1>3, <3>2, EmptySeq, Zenon
  <2>4. got' = <<>> /\ result' = read /\ req' = None /\ child' = "idle"
    BY <1>7, <1>11, Zenon
  <2>5. <<>> \in Seq(Datagrams)
    OBVIOUS
  <2>6. Queues'
    BY <1>4, <2>3, <2>4, <2>5, Zenon DEF OneCall, Queues
  <2>7. Quiet'
    BY <1>1, <1>4, <2>3, <2>4, Zenon DEF Quiet, Answering
  <2>8. Calls!Return
    <3>1. WholeAnswer' = <<>>
      BY <1>4, <2>3, <2>4 DEF WholeAnswer
    <3> QED BY <1>1, <1>4, <2>2, <2>4, <3>1, Zenon DEF Calls!Return, Answering
  <2> QED BY <2>6, <2>7, <2>8, Zenon DEF OneCall, Promised
<1>12. CASE ~done
  <2>1. got' = read /\ result' = result /\ req' = req /\ child' = "reading"
    BY <1>7, <1>12, Zenon
  <2>2. WholeAnswer' = WholeAnswer
    BY <1>4, <1>5, <2>1, Zenon DEF WholeAnswer
  <2>3. Queues'
    BY <1>2, <1>3, <1>4, <2>1, Zenon DEF OneCall, Queues
  <2>4. Answering'
    BY <1>1, <1>4, <2>1, <2>2, Zenon DEF Answering
  <2> QED BY <1>4, <2>1, <2>2, <2>3, <2>4, Zenon DEF OneCall, Promised
<1> QED BY <1>11, <1>12, Zenon

-----------------------------------------------------------------------------
\* Every step of either process keeps the invariant, and is a step of the
\* abstract specification or none.
LEMMA StepPromised ==
  ASSUME OneCall, PrivNext
  PROVE  OneCall' /\ Promised
<1>1. CASE ChildStart
  <2>1. PICK r \in Ping : StartCall(r)
    BY <1>1, Zenon DEF ChildStart
  <2>2. r \in Requests /\ child \in {"starting", "idle"}
    BY <1>1, Zenon DEF Requests, ChildStart
  <2> QED BY <2>1, <2>2, CallStarts, Zenon
<1>2. CASE \E r \in Services : CallPriv(r)
  <2>1. PICK r \in Services : CallPriv(r)
    BY <1>2, Zenon
  <2>2. r \in Requests /\ child \in {"starting", "idle"} /\ StartCall(r)
    BY <2>1, Zenon DEF Services, CallPriv
  <2> QED BY <2>2, CallStarts, Zenon
<1>3. CASE ChildLeaves
  <2>1. PICK r \in CtlCleanup : StartCall(r)
    BY <1>3, Zenon DEF ChildLeaves
  <2>2. r \in Requests /\ child \in {"starting", "idle"}
    BY <1>3, Zenon DEF Requests, ChildLeaves
  <2> QED BY <2>1, <2>2, CallStarts, Zenon
<1>4. CASE \E r \in Multicasts : ChildCloses(r)
  <2>1. PICK r \in Multicasts : ChildCloses(r)
    BY <1>4, Zenon
  <2>2. r \in Requests /\ child \in {"starting", "idle"} /\ StartCall(r)
    BY <2>1, Zenon DEF Requests, ChildCloses
  <2> QED BY <2>2, CallStarts, Zenon
<1>5. CASE ChildWrite
  BY <1>5, WriteMoves, Zenon
<1>6. CASE ChildRead
  BY <1>6, ReturnOnce, Zenon
<1>7. CASE MonitorRead
  BY <1>7, ReadMoves, Zenon
<1>8. CASE MonitorPerform
  BY <1>8, PerformOnce, Zenon
<1>9. CASE MonitorWrite
  BY <1>9, AnswerMoves, Zenon
<1>10. CASE ChildStartFails \/ ChildWriteFails \/ ChildExits \/ ChildDies
  BY <1>10, NothingMoved, Zenon
  DEF ChildStartFails, ChildWriteFails, ChildExits, ChildDies, ChildEnds, monitorVars
<1>11. CASE MonitorStart \/ MonitorCheck
  BY <1>11, NothingMoved, Zenon DEF MonitorStart, MonitorCheck, MonitorEnds, childVars
<1>12. CASE MonitorWriteFails
  BY <1>12, NothingMoved, Zenon DEF MonitorWriteFails, MonitorEnds, childVars
<1>13. CASE MonitorPass
  BY <1>13, NothingMoved, Zenon DEF MonitorPass, monitorVars
<1>14. CASE MonitorFollows
  BY <1>14, NothingMoved, Zenon DEF MonitorFollows, MonitorEnds
<1>15. CASE MonitorDies \/ Terminate
  BY <1>15, NothingMoved, Zenon DEF MonitorDies, Terminate, MonitorEnds, childVars, monitorVars
<1> QED BY <1>1, <1>2, <1>3, <1>4, <1>5, <1>6, <1>7, <1>8, <1>9, <1>10, <1>11, <1>12, <1>13,
           <1>14, <1>15, Zenon DEF PrivNext, ChildStep, MonitorStep, MonitorSignal

\* Privilege separation is a procedure call: whatever the interleaving of the
\* writes and reads of lldpd's two processes (priv.c, privsep_io.c), and
\* whenever one of them dies, a request is carried out as the proxy was
\* called, at most once, and the call returns the answer of that execution.
THEOREM CallsImplemented == PrivSpec => Implements
<1>1. PrivInit => Calls!Init
  <2>1. ASSUME PrivInit PROVE WholeAnswer = <<>>
    BY <2>1, NoAnswer, Zenon DEF PrivInit
  <2>2. Calls!KernelInits = KernelInits
    BY Zenon DEF Calls!KernelInits, Calls!NoAlias, Calls!Alias, Calls!NoText, KernelInits, NoAlias,
           Alias, NoText
  <2> QED BY <2>1, <2>2, Zenon DEF PrivInit, Calls!Init
<1>2. OneCall /\ [PrivNext]_privVars => OneCall' /\ [Calls!Next]_(Calls!vars)
  <2> SUFFICES ASSUME OneCall, [PrivNext]_privVars
               PROVE  OneCall' /\ [Calls!Next]_(Calls!vars)
    BY Zenon
  <2>1. OneCall' /\ Promised
    <3>1. CASE PrivNext
      BY <3>1, StepPromised, Zenon
    <3>2. CASE UNCHANGED privVars
      BY <3>2, NothingMoved, Zenon DEF privVars, childVars, monitorVars
    <3> QED BY <3>1, <3>2, Zenon
  <2> QED BY <2>1, SameOperations, Zenon DEF Promised, Calls!Next, Calls!vars
<1> QED BY <1>1, <1>2, OneCallInit, PTL DEF PrivSpec, Implements, Calls!Spec
=============================================================================
