----------------------------- MODULE MCNbrSync -----------------------------
(***************************************************************************)
(* Two small instances of NbrSync in one, told apart by focus. "crowded",  *)
(* with the constants of the configuration: one link with two neighbours,  *)
(* frames that change nothing, every kind of failure. "single": two links  *)
(* with one neighbour at a time each, that says two different things; a    *)
(* transaction that does not succeed ends with TXN_TRY_AGAIN, and the      *)
(* cleanup timer may be late for ever. The lifetime is one second, so that *)
(* an entry is aged out of the database after the third.                   *)
(***************************************************************************)
EXTENDS NbrSync

CONSTANTS e1, e2, m1, x, y

VARIABLE focus

Single ==
  INSTANCE NbrSync WITH Ifs <- {e1, e2}, Ids <- {m1}, Infos <- {x, y}, MaxNbrs <- 1,
    MaxEvents <- 3, AllowGarbage <- FALSE, AllowError <- FALSE, MaxLate <- Slack + 1

nbrVars == <<focus, vars>>

MCInit ==
  /\ focus \in {"crowded", "single"}
  /\ IF focus = "crowded" THEN Init ELSE Single!Init

Crowded(A) == focus = "crowded" /\ A /\ UNCHANGED focus

MCNext == Crowded(Next) \/ (focus = "single" /\ Single!Next /\ UNCHANGED focus)

MCSpec ==
  /\ MCInit /\ [][MCNext]_nbrVars
  /\ WF_nbrVars(Crowded(Run)) /\ WF_nbrVars(Crowded(Succeeds))
  /\ WF_nbrVars(Crowded(Tick)) /\ WF_nbrVars(Crowded(Expire))

\* InSync for the behaviours it is about: with one neighbour at a time per link
\* and failures that are tried again, the column of lldp_neighbor_info is what
\* the table says whenever lldpd_run has nothing left to do.
SingleInSync == focus = "single" => Single!InSync

\* Emptied, where lldpd runs and the server answers: nothing stays in the column
\* of an interface that lldpd_remote_cleanup or the loss of the interface left
\* without any neighbour.
CrowdedEmptied == focus = "crowded" => Emptied

\* ShownEventually, where lldpd runs and the server answers: an interface that
\* has neighbours gets one of them into the column, whatever delete requests of
\* the others and failed transactions did to it.
CrowdedShown == focus = "crowded" => ShownEventually
=============================================================================
