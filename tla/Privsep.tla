------------------------------ MODULE Privsep ------------------------------
(***************************************************************************)
(* The two processes of lldpd after priv_init: the unprivileged child runs *)
(* the daemon, the monitor keeps root.  They share a pair of connected     *)
(* datagram sockets.  A priv_* proxy writes the command and its arguments, *)
(* one datagram each, and reads the answer; the monitor reads a command,   *)
(* then what its asroot_* function expects, performs it and writes.  Every *)
(* must_write, must_read, send_fd and receive_fd is a step of its own.     *)
(*                                                                         *)
(* Signals and deaths are modelled as priv_init sets them up: the monitor  *)
(* hands TERM on to the child and follows a dead child; a datagram socket  *)
(* does not tell a reader that its peer is gone, only a writer             *)
(* (ECONNREFUSED).                                                         *)
(***************************************************************************)
EXTENDS PrivOps

CONSTANTS
    None,     \* no request, no status yet
    Faults    \* which of "child_dies", "monitor_dies" may happen

ASSUME NoneAssumption == None \notin Requests

VARIABLES
    child,     \* starting, idle, writing, reading, gone or reaped
    req,       \* request of the call in progress, or None
    todo,      \* datagrams of it not yet written
    got,       \* datagrams of the answer already read
    result,    \* what the last call returned, None during a call
    leaving,   \* no, term (the event loop is stopped) or cleanup (in lldpd_exit)
    cstatus,   \* exit status of the child, or None
    monitor,   \* starting, check, loop, reading, answering or gone
    args,      \* datagrams of the request the monitor has read
    toanswer,  \* datagrams of the answer not yet written
    kernel,    \* what the asroot_* functions have done
    signals,   \* signals pending at the monitor
    mstatus,   \* exit status of the monitor, or None
    down,      \* datagrams on their way to the monitor
    up         \* datagrams on their way to the child

childVars == <<child, req, todo, got, result, leaving, cstatus>>
monitorVars == <<monitor, args, toanswer, kernel, mstatus>>
privVars == <<childVars, monitorVars, signals, down, up>>

-----------------------------------------------------------------------------
(* What the proxies write and read.                                        *)

\* A length and, when it is not zero, that many bytes: must_write and
\* must_read of nothing neither send nor wait for a datagram.
Sized(x) == IF x = NoText THEN <<Number(0)>> ELSE <<Number(1), Bytes(x)>>

Writes(r) ==
    <<Bytes(r.cmd)>> \o
    CASE r.cmd \in {"ping", "gethostbyname"} -> <<>>
      [] r.cmd \in {"ctl_cleanup", "open", "ethtool"} -> Sized(r.name)
      [] r.cmd = "iface_init" -> <<Bytes(r.arg), Bytes(r.name)>>
      [] r.cmd = "multicast" -> <<Bytes(r.name), Bytes("mac"), Bytes(r.arg)>>
      [] r.cmd = "description" -> <<Bytes(r.name)>> \o Sized(r.arg)
      [] r.cmd \in {"promisc", "snmp_socket"} -> <<Bytes(r.name)>>

\* (mutant) The proxy of iface_init does not wait for the descriptor.
AnswerLenShort(cmd, rc) ==
    CASE cmd = "gethostbyname" -> 2
      [] cmd = "ethtool" -> IF rc # 0 THEN 1 ELSE 2
      [] cmd = "snmp_socket" -> IF rc < 0 THEN 1 ELSE 2
      [] cmd = "open" -> IF rc = -1 THEN 1 ELSE 2
      [] OTHER -> 1

\* (mutant) The proxy of open waits for a descriptor after a failure, too.
AnswerLenLong(cmd, rc) ==
    CASE cmd \in {"gethostbyname", "open"} -> 2
      [] cmd \in {"iface_init", "ethtool"} -> IF rc # 0 THEN 1 ELSE 2
      [] cmd = "snmp_socket" -> IF rc < 0 THEN 1 ELSE 2
      [] OTHER -> 1

\* How many datagrams the proxy reads, from the return code it reads first.
AnswerLen(cmd, rc) ==
    CASE cmd = "gethostbyname" -> 2
      [] cmd \in {"iface_init", "ethtool"} -> IF rc # 0 THEN 1 ELSE 2
      [] cmd = "snmp_socket" -> IF rc < 0 THEN 1 ELSE 2
      [] cmd = "open" -> IF rc = -1 THEN 1 ELSE 2
      [] OTHER -> 1

(* What the asroot_* functions read.                                       *)

\* The function chosen by the first datagram has read all it asks for.
AllRead(a) ==
    LET cmd == a[1].val
    IN  CASE cmd \in {"ping", "gethostbyname"} -> TRUE
          [] cmd \in {"ctl_cleanup", "open", "ethtool"} ->
                 Len(a) > 1 /\ Len(a) = 2 + a[2].val
          [] cmd = "iface_init" -> Len(a) = 3
          [] cmd = "multicast" -> Len(a) = 4
          [] cmd = "description" -> Len(a) > 2 /\ Len(a) = 3 + a[3].val
          [] cmd \in {"promisc", "snmp_socket"} -> Len(a) = 2

\* The request as the monitor's buffers hold it.
Understood(a) ==
    LET cmd == a[1].val
    IN  CASE cmd \in {"ping", "gethostbyname"} -> Ask(cmd, NoText, NoText)
          [] cmd \in {"ctl_cleanup", "open", "ethtool"} -> Ask(cmd, a[3].val, NoText)
          [] cmd = "iface_init" -> Ask(cmd, a[3].val, a[2].val)
          [] cmd = "multicast" -> Ask(cmd, a[2].val, a[4].val)
          [] cmd = "description" ->
                 Ask(cmd, a[2].val, IF Len(a) = 3 THEN NoText ELSE a[4].val)
          [] cmd \in {"promisc", "snmp_socket"} -> Ask(cmd, a[2].val, NoText)

-----------------------------------------------------------------------------
PrivInit ==
    /\ child = "starting" /\ req = None /\ todo = <<>> /\ got = <<>>
    /\ result = None /\ leaving = "no" /\ cstatus = None
    /\ monitor = "starting" /\ args = <<>> /\ toanswer = <<>>
    /\ kernel \in KernelInits /\ mstatus = None
    /\ signals = {} /\ down = <<>> /\ up = <<>>

Running == child \notin {"gone", "reaped"}
HandlersSet == monitor # "starting"
Started == child # "starting" /\ (req = None \/ req.cmd # "ping")

\* The end of the child: SIGCHLD is lost on a monitor without its handler.
ChildEnds(status) ==
    /\ child' = "gone" /\ cstatus' = status
    /\ signals' = IF HandlersSet THEN signals \cup {"CHLD"} ELSE signals

(* The child.                                                              *)

StartCall(r) ==
    /\ req' = r /\ todo' = Writes(r) /\ got' = <<>> /\ result' = None
    /\ child' = "writing"
    /\ UNCHANGED <<cstatus, monitorVars, signals, down, up>>

\* priv_init, in the child: chroot and drop privileges, then priv_ping.
ChildStart ==
    /\ child = "starting"
    /\ \E r \in Ping : StartCall(r)
    /\ UNCHANGED leaving

ChildStartFails ==
    /\ child = "starting" /\ ChildEnds("exit 1")
    /\ UNCHANGED <<req, todo, got, result, leaving, monitorVars, down, up>>

\* The proxies the daemon calls while it runs.
Services == Requests \ (Ping \cup CtlCleanup)

CallPriv(r) ==
    /\ child = "idle" /\ leaving = "no" /\ StartCall(r)
    /\ UNCHANGED leaving

\* must_write; EINTR and EAGAIN only repeat it.
ChildWrite ==
    /\ child = "writing" /\ monitor # "gone"
    /\ down' = Append(down, Head(todo)) /\ todo' = Tail(todo)
    /\ child' = IF Len(todo) = 1 THEN "reading" ELSE "writing"
    /\ UNCHANGED <<req, got, result, leaving, cstatus, monitorVars, signals, up>>

\* must_write to a monitor that is gone: _exit(0).
ChildWriteFails ==
    /\ child = "writing" /\ monitor = "gone" /\ ChildEnds("exit 0")
    /\ UNCHANGED <<req, todo, got, result, leaving, monitorVars, down, up>>

\* must_read or receive_fd; the last datagram of the answer ends the call.
ChildRead ==
    /\ child = "reading" /\ up # <<>> /\ up' = Tail(up)
    /\ LET read == Append(got, Head(up))
           done == Len(read) = AnswerLen(req.cmd, read[1].val)
       IN  /\ got' = IF done THEN <<>> ELSE read
           /\ result' = IF done THEN read ELSE result
           /\ req' = IF done THEN None ELSE req
           /\ child' = IF done THEN "idle" ELSE "reading"
    /\ UNCHANGED <<todo, leaving, cstatus, monitorVars, signals, down>>

\* The event loop has stopped: lldpd_exit first removes the control socket.
ChildLeaves ==
    /\ child = "idle" /\ leaving = "term" /\ leaving' = "cleanup"
    /\ \E r \in CtlCleanup : StartCall(r)

\* Then it closes its ports: each leaves the groups of its links.
ChildCloses(r) ==
    /\ child = "idle" /\ leaving = "cleanup" /\ r.arg = "del" /\ StartCall(r)
    /\ UNCHANGED leaving

ChildExits ==
    /\ child = "idle" /\ leaving = "cleanup" /\ ChildEnds("exit 0")
    /\ UNCHANGED <<req, todo, got, result, leaving, monitorVars, down, up>>

ChildDies ==
    /\ "child_dies" \in Faults /\ Running /\ ChildEnds("signal")
    /\ UNCHANGED <<req, todo, got, result, leaving, monitorVars, down, up>>

-----------------------------------------------------------------------------
(* The monitor.                                                            *)

MonitorEnds(status) ==
    /\ monitor' = "gone" /\ mstatus' = status
    /\ UNCHANGED <<args, toanswer, kernel>>

\* priv_init, in the monitor: the handlers, then a look at a child that may
\* have died before they were there.
MonitorStart ==
    /\ monitor = "starting" /\ monitor' = "check"
    /\ UNCHANGED <<args, toanswer, kernel, mstatus, childVars, signals, down, up>>

\* (mutant) A child that died early is not looked for.
MonitorCheckUnchecked ==
    /\ monitor = "check" /\ monitor' = "loop"
    /\ UNCHANGED <<args, toanswer, kernel, mstatus, childVars, signals, down, up>>

MonitorCheck ==
    /\ monitor = "check"
    /\ IF child = "gone"
       THEN /\ MonitorEnds("exit 1") /\ child' = "reaped"
            /\ UNCHANGED <<req, todo, got, result, leaving, cstatus>>
       ELSE /\ monitor' = "loop"
            /\ UNCHANGED <<args, toanswer, kernel, mstatus, childVars>>
    /\ UNCHANGED <<signals, down, up>>

\* may_read of a command in priv_loop, or must_read in an asroot_* function.
MonitorRead ==
    /\ monitor \in {"loop", "reading"} /\ down # <<>>
    /\ ~(monitor = "reading" /\ AllRead(args))
    /\ args' = Append(args, Head(down)) /\ down' = Tail(down)
    /\ monitor' = "reading"
    /\ UNCHANGED <<toanswer, kernel, mstatus, childVars, signals, up>>

\* The body of the asroot_* function.
MonitorPerform ==
    /\ monitor = "reading" /\ AllRead(args)
    /\ \E o \in Outcomes(kernel, Understood(args)) :
           kernel' = o.kernel /\ toanswer' = o.answer
    /\ args' = <<>> /\ monitor' = "answering"
    /\ UNCHANGED <<mstatus, childVars, signals, down, up>>

\* must_write or send_fd; after the last one the monitor is back in priv_loop.
MonitorWrite ==
    /\ monitor = "answering" /\ Running
    /\ up' = Append(up, Head(toanswer)) /\ toanswer' = Tail(toanswer)
    /\ monitor' = IF Len(toanswer) = 1 THEN "loop" ELSE "answering"
    /\ UNCHANGED <<args, kernel, mstatus, childVars, signals, down>>

\* The child is gone and its SIGCHLD not handled yet: must_write ends the
\* monitor with _exit(0), send_fd only logs and the descriptor stays undelivered.
MonitorWriteFails ==
    /\ monitor = "answering" /\ ~Running
    /\ IF Head(toanswer).is = Passed.is
       THEN monitor' = "loop" /\ UNCHANGED <<args, toanswer, kernel, mstatus>>
       ELSE MonitorEnds("exit 0")
    /\ UNCHANGED <<childVars, signals, down, up>>

\* sig_pass_to_chld.  Until the event loop is set up TERM kills the child.
MonitorPass ==
    /\ "TERM" \in signals /\ monitor # "gone"
    /\ IF Running /\ ~Started
       THEN /\ child' = "gone" /\ cstatus' = "signal" /\ leaving' = leaving
            /\ signals' = (signals \ {"TERM"}) \cup {"CHLD"}
       ELSE /\ leaving' = IF Running /\ leaving = "no" THEN "term" ELSE leaving
            /\ signals' = signals \ {"TERM"} /\ UNCHANGED <<child, cstatus>>
    /\ UNCHANGED <<req, todo, got, result, monitorVars, down, up>>

\* sig_chld: reap the child and leave as it left.
MonitorFollows ==
    /\ "CHLD" \in signals /\ monitor # "gone" /\ child = "gone"
    /\ MonitorEnds(cstatus) /\ child' = "reaped" /\ signals' = signals \ {"CHLD"}
    /\ UNCHANGED <<req, todo, got, result, leaving, cstatus, down, up>>

\* The monitor is killed (SIGKILL, the OOM killer).
MonitorDies ==
    /\ "monitor_dies" \in Faults /\ monitor # "gone" /\ MonitorEnds("signal")
    /\ UNCHANGED <<childVars, signals, down, up>>

\* Somebody stops the daemon; the signal is the monitor's once it handles it.
Terminate ==
    /\ HandlersSet /\ monitor # "gone" /\ "TERM" \notin signals
    /\ signals' = signals \cup {"TERM"}
    /\ UNCHANGED <<childVars, monitorVars, down, up>>

-----------------------------------------------------------------------------
ChildStep == ChildWrite \/ ChildWriteFails \/ ChildRead \/ ChildLeaves \/ ChildExits

MonitorStep ==
    \/ MonitorStart \/ MonitorCheck \/ MonitorRead \/ MonitorPerform
    \/ MonitorWrite \/ MonitorWriteFails

MonitorSignal == MonitorPass \/ MonitorFollows

PrivNext ==
    \/ ChildStart \/ ChildStartFails \/ ChildStep \/ ChildDies
    \/ (\E r \in Services : CallPriv(r)) \/ (\E r \in Multicasts : ChildCloses(r))
    \/ MonitorStep \/ MonitorSignal \/ MonitorDies \/ Terminate

PrivSpec == PrivInit /\ [][PrivNext]_privVars

\* Both processes are scheduled, and signals are delivered.
PrivFairness ==
    /\ WF_privVars(ChildStep) /\ WF_privVars(MonitorStep) /\ WF_privVars(MonitorPass)
    /\ WF_privVars(MonitorFollows)

-----------------------------------------------------------------------------
\* The datagrams of the two halves seen as one procedure call: the request is
\* pending from the proxy's first write to its last read, and its answer is
\* there, in whatever pieces, from the moment it has been carried out.
WholeAnswer == got \o up \o toanswer

Calls == INSTANCE PrivCalls WITH pending <- req, answer <- WholeAnswer

\* Privilege separation is a procedure call (priv.c, privsep_io.c): whatever
\* the interleaving of the writes and reads of the two processes and whenever
\* one of them dies, a request is carried out as the proxy was called, at most
\* once, and the call returns exactly the answer of that execution; no datagram
\* is left for the next call to trip over.
Implements == Calls!Spec

\* Every priv_* call returns, unless one of the halves dies: no proxy waits for
\* a datagram its asroot_* function does not send, and no asroot_* function for
\* one its proxy does not write.
CallReturns ==
    (req # None) ~> (req = None \/ ~Running \/ monitor = "gone")

\* The monitor never outlives the child: SIGCHLD, or the waitpid of priv_init
\* for a child that died before the handler was installed, ends it.
NeverAlone == (~Running) ~> (monitor = "gone")

=============================================================================
