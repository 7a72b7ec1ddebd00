--------------------------- MODULE MCOvsdbConfig ---------------------------
(***************************************************************************)
(* lldpd_reconfigure applies the System, Bridge and VRF rows (GlobalConfig)*)
(* and the Port rows (OvsdbPorts) one after the other. The two share no    *)
(* state, so a behaviour exercises one of them while the other is at rest. *)
(***************************************************************************)
EXTENDS GlobalConfig, OvsdbPorts

VARIABLE focus

configVars == <<vars, portVars, focus>>

ConfigInit == Init /\ PortsInit /\ focus \in {"system", "ports"}

System(A) == focus = "system" /\ A /\ UNCHANGED <<portVars, focus>>

ConfigNext ==
  \/ System(Next)
  \/ focus = "ports" /\ PortsNext /\ UNCHANGED <<vars, focus>>

\* lldpd_run is called again and again, also when no update of neighbours is on
\* its way, and the server answers.
ConfigSpec ==
  /\ ConfigInit /\ [][ConfigNext]_configVars
  /\ WF_configVars(System(Run(TRUE, FALSE))) /\ WF_configVars(System(Lands))

-----------------------------------------------------------------------------
\* An access port, a trunk by default, and a tagged port with a native VLAN.
PortConfigs == {[mode |-> "access", tag |-> 1, trunks |-> <<2>>],
                [mode |-> Absent, tag |-> NoTag, trunks |-> <<1, 2>>],
                [mode |-> "native-tagged", tag |-> 2, trunks |-> <<1>>]}
=============================================================================
