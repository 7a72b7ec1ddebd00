------------------------------ MODULE Startup ------------------------------
(***************************************************************************)
(* The life of lldpd processes on one host: the control socket that tells  *)
(* whether another one runs, the lldpcli each of them spawns to configure  *)
(* it and to take it out of its initial pause, and the exit (lldpd_main,   *)
(* lldpd_configure, levent_loop, lldpd_exit; ctl.c).                       *)
(***************************************************************************)
EXTENDS Naturals

CONSTANTS
    Procs,      \* processes
    NoOne,      \* no socket has the name
    Stale,      \* the name is that of a socket whose process is gone
    MaxStarts   \* bound on the number of starts

ASSUME StartAssumption == NoOne \notin Procs /\ Stale \notin Procs /\ NoOne # Stale

VARIABLES
    pc,         \* where each process is in lldpd_main
    retry,      \* its local variable
    file,       \* whose socket the name of the control socket is bound to
    listening,  \* processes whose socket listens
    paused,     \* processes with c_paused
    cli,        \* the lldpcli of each process: none, spawned, or whom it is
                \* connected to
    refused,    \* processes whose lldpcli has had a line of its configuration refused
    undone,     \* processes whose lldpcli was killed, or failed to resume after that
    starts,
    overlap     \* a start has overlapped another one or an exit

cliVars == <<cli, refused, undone>>

startVars == <<pc, retry, file, listening, paused, cliVars, starts, overlap>>

\* A process that has given up is as gone as one that has ended.
Ended == {"gone", "refused"}

\* Processes on their way into or out of the event loop.
Busy == {p \in Procs : pc[p] \notin Ended \cup {"loop"}}

StartInit ==
    /\ pc = [p \in Procs |-> "gone"] /\ retry = [p \in Procs |-> 0]
    /\ file = NoOne /\ listening = {} /\ paused = {}
    /\ cli = [p \in Procs |-> "none"] /\ refused = {} /\ undone = {} /\ starts = 0 /\ overlap = FALSE

Goto(p, l) == pc' = [pc EXCEPT ![p] = l]

Start(p) ==
    /\ pc[p] \in Ended /\ starts < MaxStarts /\ starts' = starts + 1
    /\ Goto(p, "create") /\ retry' = [retry EXCEPT ![p] = 1]
    /\ overlap' = (overlap \/ Busy # {})
    /\ UNCHANGED <<file, listening, paused, cliVars>>

\* ctl_create up to bind; the name may be taken.
CtlBind(p) ==
    /\ pc[p] = "create"
    /\ IF file = NoOne
       THEN file' = p /\ Goto(p, "listen") /\ UNCHANGED retry
       ELSE /\ Goto(p, IF retry[p] = 1 THEN "check" ELSE "refused")
            /\ retry' = [retry EXCEPT ![p] = 0] /\ UNCHANGED file
    /\ UNCHANGED <<listening, paused, cliVars, starts, overlap>>

\* The end of ctl_create.
CtlListen(p) ==
    /\ pc[p] = "listen" /\ Goto(p, "configure") /\ listening' = listening \cup {p}
    /\ UNCHANGED <<retry, file, paused, cliVars, starts, overlap>>

\* (mutant) Nobody looks whether the other daemon answers.
CtlConnectSkipped(p) ==
    /\ pc[p] = "check" /\ Goto(p, "clean")
    /\ UNCHANGED <<retry, file, listening, paused, cliVars, starts, overlap>>

\* ctl_connect: somebody answers, nobody does, or the name has gone meanwhile.
CtlConnect(p) ==
    /\ pc[p] = "check"
    /\ Goto(p, IF file \notin listening /\ file # NoOne THEN "clean" ELSE "refused")
    /\ UNCHANGED <<retry, file, listening, paused, cliVars, starts, overlap>>

CtlUnlink(p) ==
    /\ pc[p] = "clean" /\ Goto(p, "create") /\ file' = NoOne
    /\ UNCHANGED <<retry, listening, paused, cliVars, starts, overlap>>

\* lldpd_configure: lldpcli is spawned, or cannot be executed, or there is none (-L '').
LldpdConfigure(p) ==
    /\ pc[p] = "configure" /\ Goto(p, "init")
    /\ \/ cli' = [cli EXCEPT ![p] = "spawned"] /\ paused' = paused \cup {p}
       \/ cli' = [cli EXCEPT ![p] = "none"] /\ paused' \in {paused, paused \cup {p}}
    /\ refused' = refused \ {p} /\ undone' = undone \ {p}
    /\ UNCHANGED <<retry, file, listening, starts, overlap>>

\* The rest of lldpd_main, up to the event loop.
LldpdInit(p) ==
    /\ pc[p] = "init" /\ Goto(p, "loop")
    /\ UNCHANGED <<retry, file, listening, paused, cliVars, starts, overlap>>

\* lldpcli connects to whoever listens, or gives up.
CliConnect(p) ==
    /\ cli[p] = "spawned"
    /\ cli' = [cli EXCEPT ![p] = IF file \in listening THEN file ELSE "none"]
    /\ UNCHANGED <<pc, retry, file, listening, paused, refused, undone, starts, overlap>>

\* A line of its configuration is refused: the connection, which all lines share,
\* keeps the state it had while it waited for the answer.
CliRefused(p) ==
    /\ cli[p] \in Procs /\ pc[cli[p]] = "loop" /\ refused' = refused \cup {p}
    /\ UNCHANGED <<pc, retry, file, listening, paused, cli, undone, starts, overlap>>

\* (mutant) The pause is not lifted.
CliResumeInverted(p) ==
    /\ cli[p] \in Procs /\ UNCHANGED <<paused, undone>>
    /\ cli' = [cli EXCEPT ![p] = "none"]
    /\ UNCHANGED <<pc, retry, file, listening, refused, starts, overlap>>

\* Its last command, resume, is answered by the event loop. With a state left
\* over, it is not even sent (cmd_pause_resume: unable to get configuration).
CliResume(p) ==
    /\ cli[p] \in Procs
    /\ \/ p \in refused /\ undone' = undone \cup {p} /\ UNCHANGED paused
       \/ p \notin refused /\ pc[cli[p]] = "loop" /\ paused' = paused \ {cli[p]} /\ UNCHANGED undone
    /\ cli' = [cli EXCEPT ![p] = "none"]
    /\ UNCHANGED <<pc, retry, file, listening, refused, starts, overlap>>

\* It is killed.
CliDies(p) ==
    /\ cli[p] # "none" /\ cli' = [cli EXCEPT ![p] = "none"] /\ undone' = undone \cup {p}
    /\ UNCHANGED <<pc, retry, file, listening, paused, refused, starts, overlap>>

\* The sockets of a process are closed, and its clients end.
Closes(p) ==
    /\ listening' = listening \ {p} /\ paused' = paused \ {p}
    /\ cli' = [q \in Procs |-> IF cli[q] = p THEN "none" ELSE cli[q]] /\ UNCHANGED <<refused, undone>>

\* levent_stop, the end of levent_loop and lldpd_exit's close.
LldpdExit(p) ==
    /\ pc[p] = "loop" /\ Goto(p, "unlink") /\ Closes(p)
    /\ overlap' = (overlap \/ Busy # {})
    /\ UNCHANGED <<retry, file, starts>>

\* lldpd_exit has the name removed, whoever has it by then.
PrivCtlCleanup(p) ==
    /\ pc[p] = "unlink" /\ Goto(p, "gone") /\ file' = NoOne
    /\ UNCHANGED <<retry, listening, paused, cliVars, starts, overlap>>

\* A process is killed, or one of the fatal calls ends it: nothing is removed.
Dies(p) ==
    /\ pc[p] \notin Ended /\ Goto(p, "gone")
    /\ Closes(p) /\ file' = (IF file = p THEN Stale ELSE file)
    /\ UNCHANGED <<retry, starts, overlap>>

Proceeds(p) ==
    \/ CtlBind(p) \/ CtlListen(p) \/ CtlConnect(p) \/ CtlUnlink(p)
    \/ LldpdConfigure(p) \/ LldpdInit(p) \/ PrivCtlCleanup(p)

StartNext ==
    \E p \in Procs :
        \/ Proceeds(p) \/ Start(p) \/ LldpdExit(p) \/ Dies(p)
        \/ CliConnect(p) \/ CliRefused(p) \/ CliResume(p) \/ CliDies(p)

StartFairness ==
    \A p \in Procs : /\ WF_startVars(Proceeds(p))
                     /\ WF_startVars(CliConnect(p)) /\ WF_startVars(CliResume(p))

StartSpec == StartInit /\ [][StartNext]_startVars /\ StartFairness

-----------------------------------------------------------------------------
Alive == {p \in Procs : pc[p] \in {"configure", "init", "loop"}}

\* After any sequence of crashes, exits and starts, as long as no start overlaps
\* another or an exit, at most one lldpd gets past the control socket, and the
\* name leads clients to it (lldpd_main's "Check if a daemon is really
\* listening", "old control socket is present, clean it").
OneDaemon ==
    overlap \/ \A p \in Alive : Alive = {p} /\ file = p /\ p \in listening

\* An lldpd started paused does not stay paused while its lldpcli lives: lldpcli
\* can connect before the event loop runs, and is answered when it does
\* (lldpd_configure, levent_ctl_accept). What keeps it paused for good is an
\* lldpcli that cannot be executed or is killed, and one with a refused line in
\* its configuration: the resume that follows on the same connection fails.
Resumes ==
    \A p \in Procs : (p \in paused /\ cli[p] # "none") ~> (p \notin paused \/ overlap \/ p \in undone)

=============================================================================
