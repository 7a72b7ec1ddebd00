------------------------------- MODULE Codecs -------------------------------
(***************************************************************************)
(* The protocols side by side: the agreement of lldp_send with lldp_decode *)
(* and that of the other protocols, whose frames may be lost or damaged.   *)
(* They share no state; focus tells which of the two a behavior is about.  *)
(***************************************************************************)
EXTENDS LldpCodec, Dialects

VARIABLE focus

codecVars == <<focus, vars, dialectVars>>

\* What stands still.
StillLocal == CHOOSE l \in Locals : TRUE
StillFlags == CHOOSE f \in FlagSets : TRUE
StillSaid == CHOOSE s \in Systems : TRUE

CodecsInit ==
  /\ focus \in {"lldp", "others"}
  /\ focus # "lldp" => local = StillLocal /\ flags = StillFlags /\ mtu = 1500
  /\ focus # "others" => mode = "cdpv1" /\ said = StillSaid /\ lineMtu = 1500
  /\ Init /\ DialectsInit

CodecsNext ==
  \/ focus = "lldp" /\ Next /\ UNCHANGED <<focus, dialectVars>>
  \/ focus = "others" /\ DialectsNext /\ UNCHANGED <<focus, vars>>

CodecsSpec == CodecsInit /\ [][CodecsNext]_codecVars

=============================================================================
