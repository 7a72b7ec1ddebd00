------------------------------ MODULE Commands ------------------------------
(***************************************************************************)
(* The command interpreter of lldpcli.                                     *)
(*                                                                         *)
(* The commands are a tree of nodes.  A command line is walked word by     *)
(* word: a word enters the child it names, exactly or as an unambiguous    *)
(* beginning, or else the first child that takes any word.  Entering a     *)
(* node may store an argument in the environment and may pop nodes from    *)
(* the stack, which is how an option comes back to the place where the     *)
(* other options are accepted.  A node also has a check on the environment *)
(* that must hold for it to be entered.  The end of the line is a word of  *)
(* its own, and entering it runs the command.                              *)
(*                                                                         *)
(* Every node pushed is a child of the top of the stack, so the stack is   *)
(* kept as the path of child numbers from the root, the root being a first *)
(* element 0.  The environment maps a key to the values stored under it,   *)
(* oldest first.                                                           *)
(***************************************************************************)
EXTENDS Naturals, Sequences, FiniteSets

CONSTANTS Words,     \* the words a line is made of
          Values,    \* those tried where any word is taken: nothing depends on which
          Begins     \* Begins[w]: the keywords of which w is a proper beginning

VARIABLES stack,     \* cmd_env.stack, the root first
          env,       \* cmd_env.elements
          line,      \* where the interpreter is with the current line
          ran,       \* the command that ran, and nothing before
          priv       \* is_privileged()

cmdVars == <<stack, env, line, ran, priv>>

NEWLINE == "<CR>"
AnyWord == "any word"
NoRun == "none"

-----------------------------------------------------------------------------
(* The tree                                                                *)

commands_new(token, check, key, do, arg, kids) ==
  [token |-> token, check |-> check, key |-> key, do |-> do, arg |-> arg,
   kids |-> kids, privileged |-> FALSE]

commands_privileged(node) == [node EXCEPT !.privileged = TRUE]

Keyword(token, kids) == commands_new(token, "none", "", "none", "", kids)
Unless(token, key, kids) == commands_new(token, "no_env", key, "none", "", kids)
After(token, check, key, kids) == commands_new(token, check, key, "none", "", kids)
Word(do, key, kids) == commands_new(AnyWord, "none", "", do, key, kids)
Option(token, check, key, do) == commands_new(token, check, key, do, key, <<>>)
Ends(check, key, command) == commands_new(NEWLINE, check, key, "run", command, <<>>)
Runs(command) == <<Ends("none", "", command)>>

cmd_restrict_ports == Unless("ports", "ports", <<Word("value_pop2", "ports", <<>>)>>)
cmd_restrict_protocol ==
  Unless("protocol", "protocol", <<Word("value_pop2", "protocol", <<>>)>>)

register_common_commands ==
  << Option("hidden", "no_env", "hidden", "store_pop"),
     Option("details", "plain", "detailed", "store_pop"),
     Option("summary", "plain", "summary", "store_pop"),
     cmd_restrict_ports, cmd_restrict_protocol >>

register_summary_command == Option("summary", "plain", "summary", "store_pop")

register_commands_show ==
  Keyword("show",
    << Keyword("neighbors", Runs("show_neighbors") \o register_common_commands),
       Keyword("statistics",
         Runs("show_stats") \o <<cmd_restrict_ports, register_summary_command>>),
       Keyword("configuration", Runs("show_configuration")),
       Keyword("running-configuration", Runs("show_configuration")) >>)

register_commands_watch == Keyword("watch", Runs("watch") \o register_common_commands)

\* `configure system` and its `unconfigure` counterpart.  Overridden texts are
\* all alike: a value for the first, none for the second.  Two of the four types
\* of source address are enough.
Text(name, command) == Keyword(name, <<Word("value", name, Runs(command))>>)

register_commands_srcmac_type ==
  Keyword("bond-slave-src-mac-type",
    [i \in 1..2 |-> Keyword(<<"real", "local">>[i], Runs("bondslave_srcmac_type"))])

register_commands_configure_system ==
  Unless("system", "ports",
    << Keyword("interface",
         << Keyword("pattern", <<Word("value", "iface-pattern", Runs("iface_pattern"))>>),
            Keyword("description", Runs("update_descriptions")),
            Keyword("promiscuous", Runs("iface_promisc")) >>),
       Text("description", "system_description"),
       Text("platform", "system_description"),
       Text("hostname", "hostname"),
       Keyword("ip", <<Keyword("management", <<Keyword("pattern",
         <<Word("value", "management-pattern", Runs("management"))>>)>>)>>),
       register_commands_srcmac_type >>)

register_commands_unconfigure_system ==
  Unless("system", "ports",
    << Keyword("interface",
         << Keyword("pattern", Runs("iface_pattern")),
            Keyword("description", Runs("update_descriptions")),
            Keyword("promiscuous", Runs("iface_promisc")) >>),
       Keyword("description", Runs("system_description")),
       Keyword("platform", Runs("system_description")),
       Keyword("hostname", Runs("hostname")),
       Keyword("ip", <<Keyword("management", <<Keyword("pattern", Runs("management"))>>)>>) >>)

register_commands_configure_lldp ==
  Keyword("lldp",
    << Unless("tx-interval", "ports", <<Word("value", "tx-interval", Runs("txdelay"))>>),
       Unless("tx-hold", "ports", <<Word("value", "tx-hold", Runs("txhold"))>>),
       Keyword("portidsubtype",
         [i \in 1..2 |-> Keyword(<<"ifname", "macaddress">>[i], Runs("portid_type"))]) >>)

\* An option whose stored value is the name of a table entry rather than the
\* word typed (cmd_store_something_env_value_and_pop2).
Given(token, what, value) == commands_new(token, "none", what, "given_pop2", value, <<>>)

register_commands_medloc_coord ==
  Keyword("coordinate",
    << Ends("env", {"latitude", "longitude", "altitude", "altitude-unit", "datum"},
            "medlocation_coordinate"),
       Unless("latitude", "latitude", <<Word("value_pop2", "latitude", <<>>)>>),
       Unless("longitude", "longitude", <<Word("value_pop2", "longitude", <<>>)>>),
       Unless("altitude", "altitude", <<Word("value", "altitude",
         << Option("m", "none", "altitude-unit", "value_pop3"),
            Option("f", "none", "altitude-unit", "value_pop3") >>)>>),
       Unless("datum", "datum", <<Option("WGS84", "none", "datum", "value_pop2")>>) >>)

\* The table of civic address types is cut down to two of its entries.
register_commands_medloc_addr ==
  Keyword("address",
    << Ends("env", {"country"}, "medlocation_address"),
       Unless("country", "country", <<Word("value_pop2", "country", <<>>)>>),
       Unless("language", "Language", <<Word("value_pop2", "Language", <<>>)>>),
       Unless("street", "Street", <<Word("value_pop2", "Street", <<>>)>>) >>)

register_commands_medloc_elin ==
  Keyword("elin", <<Word("value", "elin", Runs("medlocation_elin"))>>)

register_commands_medloc ==
  Keyword("location", << register_commands_medloc_coord, register_commands_medloc_addr,
                         register_commands_medloc_elin >>)

\* The tables of applications and priorities are cut down to an entry or two.
register_commands_medpol ==
  Keyword("policy",
    << Ends("env", {"application"}, "medpolicy"),
       Unless("application", "application",
         << Given("voice", "application", "Voice"),
            Given("voice-signaling", "application", "Voice Signaling") >>),
       Option("unknown", "application_but_no", "unknown", "store_pop"),
       After("vlan", "application_but_no", "vlan", <<Word("value_pop2", "vlan", <<>>)>>),
       After("dscp", "application_but_no", "dscp", <<Word("value_pop2", "dscp", <<>>)>>),
       After("priority", "application_but_no", "priority",
         <<Given("video", "priority", "Video")>>) >>)

register_commands_medfast ==
  Unless("fast-start", "ports",
    << Keyword("enable", Runs("faststart")),
       Keyword("tx-interval", <<Word("value", "tx-interval", Runs("faststart"))>>) >>)

register_commands_nomedfast == Unless("fast-start", "ports", Runs("faststart"))

register_commands_pow_source ==
  << Option("unknown", "none", "source", "value_pop2"),
     Option("primary", "pse", "source", "value_pop2"),
     Option("backup", "pse", "source", "value_pop2"),
     Option("pse", "pd", "source", "value_pop2"),
     Option("local", "pd", "source", "value_pop2"),
     Option("both", "pd", "source", "value_pop2") >>

register_commands_pow_priority ==
  << Given("critical", "priority", "critical"), Given("high", "priority", "high") >>

register_commands_medpow ==
  Keyword("power",
    << Ends("env", {"device-type", "source", "priority", "value"}, "medpower"),
       Option("pd", "no_env", "device-type", "value_pop"),
       Option("pse", "no_env", "device-type", "value_pop"),
       After("source", "type_but_no", "source", register_commands_pow_source),
       After("priority", "type_but_no", "priority", register_commands_pow_priority),
       After("value", "type_but_no", "value", <<Word("value_pop2", "value", <<>>)>>) >>)

\* `configure dot3 power`; the table of classes is cut down to one entry.
register_commands_dot3pow ==
  Keyword("power",
    << Ends("env_power", "", "dot3power"),
       Option("pd", "no_env", "device-type", "value_pop"),
       Option("pse", "no_env", "device-type", "value_pop"),
       Option("supported", "type_but_no", "supported", "store_pop"),
       Option("enabled", "type_but_no", "enabled", "store_pop"),
       Option("paircontrol", "type_but_no", "paircontrol", "store_pop"),
       After("powerpairs", "type_but_no", "powerpairs",
         << Given("signal", "powerpairs", "signal"), Given("spare", "powerpairs", "spare") >>),
       After("class", "type_but_no", "class", <<Given("class-0", "class", "class 0")>>),
       After("type", "type_but_no", "typeat",
         << Option("1", "none", "typeat", "value_pop2"),
            Option("2", "none", "typeat", "value_pop2") >>),
       After("source", "typeat_but_no", "source", register_commands_pow_source),
       After("priority", "typeat_but_no", "priority", register_commands_pow_priority),
       After("requested", "typeat_but_no", "requested",
         <<Word("value_pop2", "requested", <<>>)>>),
       After("allocated", "typeat_but_no", "allocated",
         <<Word("value_pop2", "allocated", <<>>)>>) >>)

register_commands_configure_med ==
  Keyword("med", << register_commands_medloc, register_commands_medpol,
                    register_commands_medpow, register_commands_medfast >>)

register_commands_configure ==
  << commands_privileged(Keyword("configure",
       << cmd_restrict_ports, register_commands_configure_system,
          register_commands_configure_lldp, register_commands_configure_med,
          Keyword("dot3", <<register_commands_dot3pow>>) >>)),
     commands_privileged(Keyword("unconfigure",
       << cmd_restrict_ports, register_commands_unconfigure_system,
          Keyword("med", <<register_commands_nomedfast>>) >>)) >>

register_commands ==
  Keyword("",
    << register_commands_show, register_commands_watch,
       Keyword("update", <<commands_privileged(Ends("none", "", "update"))>>) >>
    \o register_commands_configure \o
    << Option("complete", "none", "complete", "store_pop"),
       Option("help", "none", "help", "store_pop"),
       Keyword("pause", Runs("pause")),
       Keyword("resume", Runs("resume")),
       Keyword("exit", Runs("exit")) >>)

-----------------------------------------------------------------------------
(* The environment and the checks on it                                    *)

Stored(key) == IF key \in DOMAIN env THEN env[key] ELSE <<>>
cmdenv_get(key) == Stored(key) # <<>>
cmdenv_put(key, value) ==
  [k \in DOMAIN env \cup {key} |-> IF k = key THEN Append(Stored(k), value) ELSE env[k]]

cmd_check_no_env(key) == ~cmdenv_get(key)

\* The elements whose key is in the list are counted, and the count compared
\* with the length of the list: a key stored twice would stand for another.
cmd_check_env(keys) ==
  Cardinality({<<k, i>> \in keys \X (1..2) : i <= Len(Stored(k))}) = Cardinality(keys)

cmd_check_no_detailed_nor_summary == ~cmdenv_get("detailed") /\ ~cmdenv_get("summary")
cmd_check_application_but_no(key) == cmdenv_get("application") /\ ~cmdenv_get(key)
cmd_check_type_but_no(key) == cmdenv_get("device-type") /\ ~cmdenv_get(key)
cmd_check_typeat_but_no(key) == cmdenv_get("typeat") /\ ~cmdenv_get(key)
cmd_check_type(type) == cmdenv_get("device-type") /\ Stored("device-type")[1] = type
cmd_check_pse == cmd_check_type("pse")
cmd_check_pd == cmd_check_type("pd")
cmd_check_env_power ==
  /\ cmdenv_get("device-type") /\ cmdenv_get("powerpairs")
  /\ cmdenv_get("typeat") =>
       \A k \in {"source", "priority", "requested", "allocated"} : cmdenv_get(k)

Validates(node) ==
  CASE node.check = "none" -> TRUE
    [] node.check = "no_env" -> cmd_check_no_env(node.key)
    [] node.check = "env" -> cmd_check_env(node.key)
    [] node.check = "plain" -> cmd_check_no_detailed_nor_summary
    [] node.check = "application_but_no" -> cmd_check_application_but_no(node.key)
    [] node.check = "type_but_no" -> cmd_check_type_but_no(node.key)
    [] node.check = "typeat_but_no" -> cmd_check_typeat_but_no(node.key)
    [] node.check = "pse" -> cmd_check_pse
    [] node.check = "pd" -> cmd_check_pd
    [] node.check = "env_power" -> cmd_check_env_power

CAN_EXECUTE(node) ==
  (~node.privileged \/ priv \/ cmdenv_get("complete")) /\ Validates(node)

-----------------------------------------------------------------------------
(* One word of the line                                                    *)

cmdenv_top ==
  LET node[i \in 1..Len(stack)] ==
        IF i = 1 THEN register_commands ELSE node[i - 1].kids[stack[i]]
  IN  node[Len(stack)]

Candidates(kids, word) ==
  {i \in DOMAIN kids : /\ kids[i].token # AnyWord
                       /\ word = kids[i].token \/ kids[i].token \in Begins[word]
                       /\ CAN_EXECUTE(kids[i])}

First(S) == {i \in S : \A j \in S : i <= j}

\* The walk through the children stops at an exact match; two inexact ones met
\* before it are an ambiguity.
Exact(kids, found, word) == First({i \in found : kids[i].token = word})
Inexact(exact, found) == {i \in found \ exact : \A e \in exact : i < e}

Wildcard(kids) == First({i \in DOMAIN kids : kids[i].token = AnyWord /\ CAN_EXECUTE(kids[i])})

\* (mutant) The three-word option pops as many nodes as the two-word ones.
PopsTwo(do) ==
  CASE do \in {"store_pop", "value_pop"} -> 1
    [] do \in {"value_pop2", "value_pop3", "given_pop2"} -> 2
    [] OTHER -> 0

\* How many nodes an execute function pops.
Pops(do) ==
  CASE do \in {"store_pop", "value_pop"} -> 1
    [] do \in {"value_pop2", "given_pop2"} -> 2
    [] do = "value_pop3" -> 3
    [] OTHER -> 0

Puts(node, word) ==
  CASE node.do = "store_pop" -> cmdenv_put(node.arg, node.arg)
    [] node.do \in {"value", "value_pop", "value_pop2", "value_pop3"} ->
         cmdenv_put(node.arg, word)
    [] node.do = "given_pop2" -> cmdenv_put(node.key, node.arg)
    [] OTHER -> env

\* Push the node and execute it.
Enter(node, i, word) ==
  /\ stack' = SubSeq(Append(stack, i), 1, Len(stack) + 1 - Pops(node.do))
  /\ env' = Puts(node, word)
  /\ ran' = IF node.do = "run" THEN node.arg ELSE ran
  /\ line' = IF word = NEWLINE THEN "accepted" ELSE "typing"

Stops(outcome) == line' = outcome /\ UNCHANGED <<stack, env, ran>>

\* One turn of the loop of _commands_execute on a word of the line.
ProcessWord(word) ==
  \E kids \in {cmdenv_top.kids} : \E found \in {Candidates(kids, word)} :
  \E exact \in {Exact(kids, found, word)} : \E inexact \in {Inexact(exact, found)} :
    \/ Cardinality(inexact) > 1 /\ Stops("ambiguous")
    \/ /\ Cardinality(inexact) <= 1
       /\ \E i \in IF exact # {} THEN exact ELSE inexact : Enter(kids[i], i, word)
    \/ /\ found = {} /\ word \in Values \cup {NEWLINE}
       /\ \E i \in Wildcard(kids) : Enter(kids[i], i, word)
    \/ /\ found = {} /\ Wildcard(kids) = {}
       /\ Stops(IF word = NEWLINE THEN "incomplete" ELSE "unknown")

\* The bound of the model: `help` and `complete`, which nothing keeps from being
\* written again and again, are written once each on a line.
AskedOnce(word) == word \in {"help", "complete"} => ~cmdenv_get(word)

Type(word) == line = "typing" /\ AskedOnce(word) /\ ProcessWord(word) /\ UNCHANGED priv

\* The end of the line: a word of its own, unless help or completions were
\* asked for, in which case the candidates are displayed and nothing is entered.
EndOfLine ==
  /\ line = "typing" /\ UNCHANGED priv
  /\ IF cmdenv_get("help") \/ cmdenv_get("complete") THEN Stops("helped")
     ELSE ProcessWord(NEWLINE)

\* The environment is freed, and another line begins.
cmdenv_free ==
  /\ line # "typing"
  /\ line' = "typing" /\ stack' = <<0>> /\ env' = <<>> /\ ran' = NoRun
  /\ priv' \in BOOLEAN

CmdInit ==
  /\ line = "typing" /\ stack = <<0>> /\ env = <<>> /\ ran = NoRun
  /\ priv \in BOOLEAN

CmdNext == EndOfLine \/ cmdenv_free \/ \E w \in Words : Type(w)

-----------------------------------------------------------------------------
(* Properties                                                              *)

Needs(command) ==
  CASE command = "medpower" -> {"device-type", "source", "priority", "value"}
    [] command = "dot3power" ->
         {"device-type", "powerpairs"} \cup
           IF cmdenv_get("typeat") THEN {"source", "priority", "requested", "allocated"}
                                   ELSE {}
    [] command = "medlocation_coordinate" ->
         {"latitude", "longitude", "altitude", "altitude-unit", "datum"}
    [] command = "medlocation_address" -> {"country"}
    [] command = "medpolicy" -> {"application"}
    [] OTHER -> {}

\* The functions behind the commands read their arguments without looking
\* whether they are there (cmd_dot3power compares the source of power with a
\* list of names as soon as a type is given).  In whatever order the options are
\* written, a command that runs has every argument it needs, each stored once,
\* and a source of power that fits the device type.
ArgumentsComplete ==
  /\ \A k \in DOMAIN env \ {"help", "complete"} : Len(env[k]) = 1
  /\ ran # NoRun => \A k \in Needs(ran) : cmdenv_get(k)
  /\ ran # NoRun /\ cmdenv_get("source") =>
       /\ env["source"][1] \in {"primary", "backup"} => env["device-type"][1] = "pse"
       /\ env["source"][1] \in {"pse", "local", "both"} => env["device-type"][1] = "pd"

=============================================================================
