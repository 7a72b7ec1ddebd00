------------------------------- MODULE Client -------------------------------
(***************************************************************************)
(* The programs that talk to lldpd through its control socket: the messages *)
(* on the socket and the library's state (Ctl), the command interpreter of *)
(* lldpcli (Commands), and what the commands change in lldpd, through the  *)
(* configuration and through the ports (Settings). focus tells which one a *)
(* behavior is about; the rest stands still.                               *)
(***************************************************************************)
EXTENDS Ctl, Commands, Settings

VARIABLE focus

clientVars == <<focus, vars, cmdVars, settingsVars>>

StillMode == CHOOSE m \in Modes : TRUE

ClientInit ==
  /\ focus \in {"socket", "command", "configuration", "port"}
  /\ focus # "socket" => mode = StillMode
  /\ focus # "command" => priv = FALSE
  /\ focus # "port" => up = Interfaces
  /\ Init /\ CmdInit /\ SettingsInit

Socket(A) == focus = "socket" /\ A /\ UNCHANGED <<focus, cmdVars, settingsVars>>
Command(A) == focus = "command" /\ A /\ UNCHANGED <<focus, vars, settingsVars>>
Change(A, what) == focus = what /\ A /\ UNCHANGED <<focus, vars, cmdVars>>

ClientNext ==
  \/ Socket(Next) \/ Command(CmdNext)
  \/ Change(ConfigNext, "configuration") \/ Change(PortNext, "port")

\* The fairness of Ctl, the only part with promises of this kind.
ClientFairness ==
  /\ WF_clientVars(Socket(Read)) /\ WF_clientVars(Socket(Arrive))
  /\ WF_clientVars(Socket(ProcessConnBuffer)) /\ WF_clientVars(Socket(TakeAnswer))
  /\ WF_clientVars(Socket(Eof)) /\ WF_clientVars(Socket(CtlRecv))
  /\ WF_clientVars(Socket(Watch))

ClientSpec == ClientInit /\ [][ClientNext]_clientVars /\ ClientFairness
=============================================================================
