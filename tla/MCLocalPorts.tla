---------------------------- MODULE MCLocalPorts ----------------------------
(***************************************************************************)
(* What lldpd does at an interface: which neighbours it shows and which    *)
(* protocols it speaks (SmartFilter), and when it transmits (TxTimer). The *)
(* two share no state: lldpd_send is called whatever the filter hid. focus *)
(* tells which one a behaviour is about; the other stands still.           *)
(*                                                                         *)
(* The filter: two protocols with up to two neighbours each, all values of *)
(* -H, and all ways of switching the protocols on or forcing them. The     *)
(* timer: c_ttl three bits wide, so that products of small intervals and   *)
(* holds reach its limit.                                                  *)
(***************************************************************************)
EXTENDS SmartFilter, TxTimer

VARIABLE focus

portsVars == <<focus, filterVars, txVars>>

StillSmart == Filters(CHOOSE h \in Hides : TRUE)
StillLevels == CHOOSE l \in Levels : TRUE
StillInterval == CHOOSE i \in Intervals : TRUE
StillHold == CHOOSE h \in Holds : TRUE
StillFast == CHOOSE f \in FastIntervals : TRUE

LocalPortsInit ==
  /\ focus \in {"filter", "tx"}
  /\ focus # "filter" => smart = StillSmart /\ enabled = StillLevels
  /\ focus # "tx" => /\ interval = StillInterval /\ hold = StillHold /\ fastIvl = StillFast
                     /\ blocked = Reasons \ {"paused"}
  /\ FilterInit /\ TxInit

Filter(A) == focus = "filter" /\ A /\ UNCHANGED <<focus, txVars>>
Transmission(A) == focus = "tx" /\ A /\ UNCHANGED <<focus, filterVars>>

LocalPortsNext == Filter(FilterNext) \/ Transmission(TxNext)

\* The fairness of each part, as in the parts.
LocalPortsFairness ==
  /\ WF_portsVars(Filter(RecvOther))
  /\ WF_portsVars(Transmission(SendPdu)) /\ WF_portsVars(Transmission(Tick))

LocalPortsSpec == LocalPortsInit /\ [][LocalPortsNext]_portsVars /\ LocalPortsFairness

-----------------------------------------------------------------------------
AllHides == 0 .. 19

AllLevels == [Modes -> 0 .. 2]

\* What a client asks for fits c_ttl.
FittingTx == {<<2, 3>>, <<3, 2>>}

\* What a client asks for fits c_ttl, or does not: 5 * 2 wraps to 2.
WrappingTx == {<<2, 3>>, <<5, 2>>}

=============================================================================
