-------------------------------- MODULE Host --------------------------------
(***************************************************************************)
(* What lldpd does with the host it runs on: the discovery of its links,   *)
(* the life of its processes, and the calls of the unprivileged daemon to  *)
(* its monitor.  They meet only through failures each already allows for;  *)
(* focus tells which one a behaviour is about, the others stand still.     *)
(***************************************************************************)
EXTENDS Discovery, Startup, Privsep

VARIABLE focus

hostVars == <<focus, discVars, startVars, privVars>>

StillMembers == CHOOSE m \in Members : TRUE
StillSettings == CHOOSE s \in Settings : TRUE
StillKernel == CHOOSE k \in KernelInits : TRUE

HostInit ==
    /\ focus \in {"discovery", "startup", "calls"}
    /\ focus # "discovery" => pattern = StillSettings /\ kern = Linked(StillMembers)
    /\ focus # "calls" => kernel = StillKernel
    /\ DiscInit /\ StartInit /\ PrivInit

Disc(A) == focus = "discovery" /\ A /\ UNCHANGED <<focus, startVars, privVars>>
Life(A) == focus = "startup" /\ A /\ UNCHANGED <<focus, discVars, privVars>>
Priv(A) == focus = "calls" /\ A /\ UNCHANGED <<focus, discVars, startVars>>

HostNext == Disc(DiscNext) \/ Life(StartNext) \/ Priv(PrivNext)

\* The fairness of each part, as in the parts.
HostFairness ==
    /\ WF_round(focus = "discovery" /\ round' = 1 - round)
    /\ WF_hostVars(Priv(ChildStep)) /\ WF_hostVars(Priv(MonitorStep))
    /\ WF_hostVars(Priv(MonitorPass)) /\ WF_hostVars(Priv(MonitorFollows))
    /\ \A p \in Procs : /\ WF_hostVars(Life(Proceeds(p)))
                         /\ WF_hostVars(Life(CliConnect(p)))
                         /\ WF_hostVars(Life(CliResume(p)))

HostSpec == HostInit /\ [][HostNext]_hostVars /\ HostFairness

\* However notifications are lost or delayed and whatever fails meanwhile, once
\* the links stop changing the daemon has exactly the ports there are: members of
\* a running bond as such and under their own address, each VLAN on the links
\* below it (interfaces_update; the main loop refreshes "if we missed something",
\* lldpd_loop, and the property rests on that, not on notifications); the ports
\* it announces as aggregated are the members of bonds (p_aggregid), unless a
\* socket could not be opened; and it announces the management addresses the
\* pattern asks for, each once (interfaces_helper_mgmt).
LinksSettle == <>[](focus = "discovery" => Settled)
=============================================================================
