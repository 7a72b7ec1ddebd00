------------------------------ MODULE Settings ------------------------------
(***************************************************************************)
(* Programs that change what lldpd does while it runs. A program that uses *)
(* liblldpctl, lldpcli first of all, reads the configuration or a port as  *)
(* an atom, a counted reference to a private copy, changes the copy and    *)
(* has the library send it back. Several programs do so at once, and the   *)
(* interfaces come and go between two requests of one command.             *)
(*                                                                         *)
(* Each program has one connection for all its commands. A request and its *)
(* answer are one step here (module Ctl has the bytes between them).       *)
(***************************************************************************)
EXTENDS Integers, Sequences, FiniteSets

CONSTANTS
  Programs,      \* programs with a connection to lldpd
  Interfaces,    \* names of the interfaces lldpd may have
  Restrictions,  \* the interfaces named in `ports`; all of them without it
  Numbers,       \* numbers typed where lldpcli wants one
  Strings,       \* numerals for the strings typed; 0 stands for NULL
  PortSets,      \* what the commands on ports ask for
  MaxCommands,   \* bound on commands, all programs together
  MaxSets,       \* bound on changes of the configuration
  MaxMoves       \* bound on interfaces appearing or disappearing

ASSUME SettingsAssumption ==
  Numbers \subseteq Int /\ Strings \subseteq Int /\ IsFiniteSet(Interfaces)

VARIABLES
  cfg,        \* lldpd's g_config
  ttl,        \* c_ttl of the local chassis
  kicks,      \* calls of levent_send_now and levent_update_now
  ports,      \* h_lport of each interface
  up,         \* interfaces lldpd has
  program,    \* each program: its command, copies and atoms
  commands, sets, moves,     \* counters for the bounds
  want, wantKicks            \* history: what the programs asked for

settingsVars == <<cfg, ttl, kicks, ports, up, program, commands, sets, moves,
                  want, wantKicks>>

-----------------------------------------------------------------------------
\* What lldpcli's configuration commands ask for: a key of the configuration
\* and its value, or text that is no number where a number is wanted.

Ask(key, value) == [key |-> key, number |-> TRUE, value |-> value]

NotANumber(key) == [key |-> key, number |-> FALSE, value |-> 0]

Numeric(key) == {Ask(key, n) : n \in Numbers} \cup {NotANumber(key)}

cmd_txdelay == Numeric("c_tx_interval")

cmd_txhold == Numeric("c_tx_hold")

cmd_faststart ==
  Numeric("c_tx_fast_interval") \cup {Ask("c_enable_fast_start", b) : b \in {0, 1}}

\* ifname and macaddress are the subtypes with a command.
cmd_portid_type == {Ask("c_lldp_portid_type", t) : t \in {3, 5}}

cmd_bondslave_srcmac_type == {Ask("c_bond_slave_src_mac_type", t) : t \in 1 .. 4}

cmd_iface_pattern == {Ask("c_iface_pattern", s) : s \in Strings}

cmd_management == {Ask("c_mgmt_pattern", s) : s \in Strings}

cmd_system_description == {Ask(k, s) : k \in {"c_description", "c_platform"}, s \in Strings}

cmd_hostname == {Ask("c_hostname", s) : s \in Strings}

cmd_update_descriptions == {Ask("c_set_ifdescr", b) : b \in {0, 1}}

cmd_iface_promisc == {Ask("c_promisc", b) : b \in {0, 1}}

cmd_update == {Ask("c_tx_interval", -1)}

\* cmd_pause_resume sends nothing when its copy has the wanted value already.
cmd_pause_resume(copy) == {Ask("c_paused", b) : b \in {0, 1} \ {copy["c_paused"]}}

ConfigCommands(copy) ==
  UNION {cmd_txdelay, cmd_txhold, cmd_faststart, cmd_portid_type,
         cmd_bondslave_srcmac_type, cmd_iface_pattern, cmd_management,
         cmd_system_description, cmd_hostname, cmd_update_descriptions,
         cmd_iface_promisc, cmd_update, cmd_pause_resume(copy)}

Keys == {"c_tx_interval", "c_tx_hold", "c_tx_fast_interval", "c_enable_fast_start",
         "c_lldp_portid_type", "c_bond_slave_src_mac_type", "c_iface_pattern",
         "c_mgmt_pattern", "c_description", "c_platform", "c_hostname",
         "c_set_ifdescr", "c_promisc", "c_paused"}

\* What lldpd starts with.
DefaultConfig ==
  [k \in Keys |->
     CASE k = "c_tx_interval" -> 30 [] k = "c_tx_hold" -> 4
       [] k = "c_tx_fast_interval" -> 1 [] k = "c_lldp_portid_type" -> 5
       [] k = "c_bond_slave_src_mac_type" -> 4 [] OTHER -> 0]

-----------------------------------------------------------------------------
\* The library's copy of the configuration, and lldpd's handler.

\* (mutant) The copy keeps every value, also one that is a request only.
KeptAlways(copy, ask) == [copy EXCEPT ![ask.key] = ask.value]

\* _lldpctl_atom_set_int_config and _lldpctl_atom_set_str_config: the copy
\* takes the value, except that an interval or hold must be positive.
Kept(copy, ask) ==
  IF ask.key \in {"c_tx_interval", "c_tx_hold"} /\ ask.value <= 0
  THEN copy ELSE [copy EXCEPT ![ask.key] = ask.value]

\* The values client_handle_set_configuration takes.
Takes(key, v) ==
  CASE key \in {"c_tx_interval", "c_tx_hold", "c_tx_fast_interval"} -> v > 0
    [] key = "c_lldp_portid_type" -> v \in 1 .. 7
    [] key = "c_bond_slave_src_mac_type" -> v \in 1 .. 4
    [] OTHER -> TRUE

Taken(old, config) == [k \in Keys |-> IF Takes(k, config[k]) THEN config[k] ELSE old[k]]

Updating == {"c_lldp_portid_type", "c_iface_pattern", "c_mgmt_pattern", "c_description",
             "c_platform", "c_hostname", "c_set_ifdescr", "c_promisc"}

Count(b) == IF b THEN 1 ELSE 0

\* levent_send_now for a negative interval and for a change of c_paused;
\* levent_update_now for each change of what the system announces.
Kicked(old, config) ==
  [send |-> Count(config["c_tx_interval"] < 0) + Count(config["c_paused"] # old["c_paused"]),
   update |-> Cardinality({k \in Updating : Taken(old, config)[k] # old[k]})]

\* c_ttl is a u_int16_t.
Ttl(interval, hold) == (interval * hold) % 65536

client_handle_set_configuration(config) ==
  LET new == Taken(cfg, config) IN
  /\ cfg' = new
  /\ ttl' = IF \E k \in {"c_tx_interval", "c_tx_hold"} : new[k] # cfg[k]
            THEN Ttl(new["c_tx_interval"], new["c_tx_hold"]) ELSE ttl
  /\ kicks' = [send |-> kicks.send + Kicked(cfg, config).send,
               update |-> kicks.update + Kicked(cfg, config).update]

-----------------------------------------------------------------------------
\* Atoms: counted references. A child holds its parent: the lists and items of
\* a port hold the port, those of a civic address hold the location. "empty" is
\* the list of the interfaces when there are none.

Atoms == {"config", "list", "empty", "iface", "port", "items", "item", "caels", "cael"}

ParentOf ==
  [k \in {"items", "item", "caels", "cael"} |-> IF k \in {"items", "item"} THEN "port" ELSE "item"]

NoAtoms == [k \in Atoms |-> 0]

\* (mutant) A list does not hold the port it is taken from.
NewLoose(a, k) ==
  [j \in Atoms |-> IF j = k THEN 1
                   ELSE a[j] + Count(k # "items" /\ k \in DOMAIN ParentOf /\ ParentOf[k] = j)]

\* _lldpctl_new_atom with the init functions of its builders.
_lldpctl_new_atom(a, k) ==
  [j \in Atoms |-> IF j = k THEN 1
                   ELSE a[j] + Count(k \in DOMAIN ParentOf /\ ParentOf[k] = j)]

OneLess(a, k) == [a EXCEPT ![k] = @ - 1]

\* The last reference is gone, and the one on the parent goes with it.
Releases(a, k) == a[k] = 0 /\ k \in DOMAIN ParentOf

\* The last reference frees the atom, which drops its own on the parent. A parent
\* may have a parent; that one has none.
lldpctl_atom_dec_ref(a, k) ==
  LET b == OneLess(a, k)
      c == OneLess(b, ParentOf[k])
  IN  IF ~Releases(b, k) THEN b
      ELSE IF ~Releases(c, ParentOf[k]) THEN c ELSE OneLess(c, ParentOf[ParentOf[k]])

-----------------------------------------------------------------------------
\* Ports. A change sent with SET_PORT has one of four forms.

APPTYPE_LAST == 8
LOCFORMAT_LAST == 3
PSE == 1
PD == 2

NoPolicy == [what |-> "policy", type |-> 0, vid |-> 0, priority |-> 0, dscp |-> 0]
NoLocation == [what |-> "location", format |-> 0, parsed |-> TRUE, country |-> 2,
               elements |-> {}]
NoPower == [what |-> "med_power", devicetype |-> 0, source |-> 0, priority |-> 0, val |-> 0]
NoDot3 == [what |-> "dot3_power", devicetype |-> 0, pairs |-> 0, class |-> 0, powertype |-> 0,
           source |-> 0, priority |-> 0, requested |-> 0, allocated |-> 0]

FreshPort ==
  [policy |-> [t \in 1 .. APPTYPE_LAST |-> NoPolicy],
   location |-> [f \in 1 .. LOCFORMAT_LAST |-> NoLocation],
   med_power |-> NoPower, dot3_power |-> NoDot3, caps |-> {"cap", "inventory"}]

\* What the setters of the library accept (_lldpctl_atom_set_int_* and
\* _lldpctl_atom_set_str_*). A text that names nothing in a map is -1.
VlanIds == 0 .. 4094

set_med_policy(p) ==
  p.type \in 0 .. APPTYPE_LAST /\ p.vid \in VlanIds /\ p.priority \in 0 .. 7
  /\ p.dscp \in 0 .. 63

set_med_caelement(el) == el \in 1 .. 128

\* Numbers of a coordinate must be understood, a country has two letters.
set_med_location(l) ==
  CASE l.format = 1 -> l.parsed
    [] l.format = 2 -> l.country = 2 /\ \A el \in l.elements : set_med_caelement(el)
    [] OTHER -> l.format \in {0, 3}

\* Primary and backup (2, 3) are for PSE; pse, local and both (5 .. 7) for PD.
set_med_power(p) ==
  /\ p.devicetype \in {0, PSE, PD}
  /\ p.source = 1 \/ (p.source \in {2, 3} /\ p.devicetype = PSE)
     \/ (p.source \in 5 .. 7 /\ p.devicetype = PD)
  /\ p.priority \in 0 .. 3 /\ p.val >= 0

set_dot3_power(p) ==
  /\ p.devicetype \in {0, PSE, PD} /\ p.pairs \in {1, 2} /\ p.class \in 0 .. 5
  /\ p.powertype \in 0 .. 2
  /\ p.powertype # 0 => /\ p.source \in 0 .. 3 /\ p.priority \in 0 .. 3
                        /\ p.requested >= 0 /\ p.allocated >= 0

SettersAccept(set) ==
  CASE set.what = "policy" -> set_med_policy(set)
    [] set.what = "location" -> set_med_location(set)
    [] set.what = "med_power" -> set_med_power(set)
    [] set.what = "dot3_power" -> set_dot3_power(set)

\* (mutant) The other device type stays announced.
PortWithBothTypes(port, set) ==
  CASE set.what = "policy" /\ set.type > 0 ->
         [port EXCEPT !.policy[set.type] = set, !.caps = @ \cup {"policy"}]
    [] set.what = "location" /\ set.format > 0 ->
         [port EXCEPT !.location[set.format] = set, !.caps = @ \cup {"location"}]
    [] set.what = "med_power" ->
         [port EXCEPT !.med_power = set,
                      !.caps = @ \cup CASE set.devicetype = PD -> {"pd"}
                                        [] set.devicetype = PSE -> {"pse"}
                                        [] OTHER -> {}]
    [] set.what = "dot3_power" -> [port EXCEPT !.dot3_power = set]
    [] OTHER -> port

\* client_handle_set_port on the port it has found.
PortWith(port, set) ==
  CASE set.what = "policy" /\ set.type > 0 ->
         [port EXCEPT !.policy[set.type] = set, !.caps = @ \cup {"policy"}]
    [] set.what = "location" /\ set.format > 0 ->
         [port EXCEPT !.location[set.format] = set, !.caps = @ \cup {"location"}]
    [] set.what = "med_power" ->
         [port EXCEPT !.med_power = set,
                      !.caps = CASE set.devicetype = PD -> (@ \cup {"pd"}) \ {"pse"}
                                 [] set.devicetype = PSE -> (@ \cup {"pse"}) \ {"pd"}
                                 [] OTHER -> @]
    [] set.what = "dot3_power" -> [port EXCEPT !.dot3_power = set]
    [] OTHER -> port

-----------------------------------------------------------------------------
\* The programs. "config": one that holds the configuration. "iterate": a
\* command between two interfaces. "set": one that has a port and its settings.
\* "end": one that drops what it holds, in order.

NoSet == NoDot3

Idle == [pc |-> "idle", copy |-> DefaultConfig, stale |-> FALSE, set |-> NoSet,
         todo |-> <<>>, held |-> {}, atoms |-> NoAtoms,
         state |-> "idle", error |-> "none"]

SettingsInit ==
  /\ cfg = DefaultConfig /\ want = DefaultConfig
  /\ ttl = 120
  /\ kicks = [send |-> 0, update |-> 0] /\ wantKicks = kicks
  /\ ports = [i \in Interfaces |-> FreshPort] /\ up \in SUBSET Interfaces
  /\ program = [c \in Programs |-> Idle]
  /\ commands = 0 /\ sets = 0 /\ moves = 0

Daemon == <<cfg, ttl, kicks, ports, up>>
History == <<want, wantKicks>>

Now(c, r) == program' = [program EXCEPT ![c] = r]

\* _lldpctl_do_something after a refusal: the connection still waits for the
\* answer it has discarded, and every other request fails.
Usable(p) == p.state = "idle"

Refused(p, state) == [p EXCEPT !.state = state, !.error = "serialization"]

NotUsable(p) == [p EXCEPT !.error = "invalid_state"]

\* lldpctl_get_configuration at the beginning of a command.
lldpctl_get_configuration(c) ==
  LET p == program[c] IN
  /\ p.pc = "idle" /\ commands < MaxCommands
  /\ commands' = commands + 1
  /\ Now(c, IF Usable(p)
            THEN [p EXCEPT !.pc = "config", !.copy = cfg, !.stale = FALSE, !.error = "none",
                           !.held = {"config"},
                           !.atoms = _lldpctl_new_atom(@, "config")]
            ELSE NotUsable(p))
  /\ UNCHANGED <<Daemon, sets, moves, History>>

\* lldpctl_atom_set_int or lldpctl_atom_set_str on it: the whole copy is sent.
\* lldpcli does this once; a program may keep the atom and change more.
lldpctl_atom_set(c, ask) ==
  LET p == program[c]
      config == [p.copy EXCEPT ![ask.key] = ask.value]
  IN /\ p.pc = "config" /\ ask.number /\ sets < MaxSets
     /\ sets' = sets + 1
     /\ client_handle_set_configuration(config)
     /\ program' = [d \in Programs |->
          IF d = c THEN [p EXCEPT !.copy = Kept(p.copy, ask)]
          ELSE [program[d] EXCEPT !.stale = @ \/ (program[d].pc = "config" /\ cfg' # cfg)]]
     /\ want' = IF p.stale THEN cfg'
                ELSE IF Takes(ask.key, ask.value) THEN [want EXCEPT ![ask.key] = ask.value]
                ELSE want
     /\ wantKicks' = IF p.stale THEN kicks'
                     ELSE [send |-> wantKicks.send
                             + Count(\/ ask.key = "c_tx_interval" /\ ask.value < 0
                                     \/ ask.key = "c_paused" /\ ask.value # want["c_paused"]),
                           update |-> wantKicks.update
                             + Count(ask.key \in Updating /\ want'[ask.key] # want[ask.key])]
     /\ UNCHANGED <<ports, up, commands, moves>>

\* Text that is no number: nothing is sent.
lldpctl_atom_set_str_fails(c, ask) ==
  /\ program[c].pc = "config" /\ ~ask.number /\ program[c].error = "none"
  /\ Now(c, [program[c] EXCEPT !.error = "not_exist"])
  /\ UNCHANGED <<Daemon, commands, sets, moves, History>>

\* What each command on ports asks for.
cmd_medpolicy == {s \in PortSets : s.what = "policy"}

_cmd_medlocation == {s \in PortSets : s.what = "location"}

cmd_medpower == {s \in PortSets : s.what = "med_power"}

cmd_dot3power == {s \in PortSets : s.what = "dot3_power"}

PortCommands == UNION {cmd_medpolicy, _cmd_medlocation, cmd_medpower, cmd_dot3power}

\* The orders in which lldpd may list interfaces.
Orders(S) == {o \in [1 .. Cardinality(S) -> S] : \A j, k \in DOMAIN o : j # k => o[j] # o[k]}

\* A command on ports begins: cmd_iterate_on_interfaces gets the interfaces and
\* keeps those named in `ports`. With no interface at all the list stays, and
\* nothing refers to it.
PortCommand(c, set, named) ==
  LET p == [program[c] EXCEPT !.error = "none"]
  IN /\ p.pc = "idle" /\ commands < MaxCommands
     /\ commands' = commands + 1
     /\ \E todo \in Orders(up \cap named) :
          Now(c, IF ~Usable(p) THEN NotUsable(p)
                 ELSE IF up = {} THEN [p EXCEPT !.atoms = _lldpctl_new_atom(@, "empty")]
                 ELSE [p EXCEPT !.pc = "iterate", !.set = set, !.todo = todo,
                                !.held = {"list", "iface"},
                                !.atoms = _lldpctl_new_atom(_lldpctl_new_atom(@, "list"), "iface")])
     /\ UNCHANGED <<Daemon, sets, moves, History>>

\* lldpctl_get_port, then lldpctl_atom_get for the settings, and for policies
\* and locations an item of the list.
lldpctl_get_port(c) ==
  LET p == program[c]
      isList == p.set.what \in {"policy", "location"}
      a1 == _lldpctl_new_atom(p.atoms, "port")
      a2 == IF isList THEN _lldpctl_new_atom(a1, "items") ELSE a1
  IN /\ p.pc = "iterate" /\ p.todo # <<>>
     /\ Now(c, IF ~Usable(p) THEN [NotUsable(p) EXCEPT !.todo = Tail(@)]
               ELSE IF Head(p.todo) \notin up
               THEN [Refused(p, "get_port") EXCEPT !.todo = Tail(@)]
               ELSE [p EXCEPT !.pc = "set", !.atoms = _lldpctl_new_atom(a2, "item"),
                              !.held = @ \cup {"item", "port"} \cup IF isList THEN {"items"} ELSE {}])
     /\ UNCHANGED <<Daemon, commands, sets, moves, History>>

\* The fields are set in the copy; for an element of a civic address there are
\* an atom of their list and one of its own.
SetFields(c) ==
  LET p == program[c]
      civic == p.set.what = "location" /\ p.set.format = 2 /\ p.set.country = 2
               /\ p.set.elements # {}
      q == [p EXCEPT !.pc = "fields",
                     !.error = IF SettersAccept(p.set) THEN @ ELSE "bad_value"]
  IN /\ p.pc = "set"
     /\ Now(c, IF civic
               THEN [q EXCEPT !.held = @ \cup {"cael", "caels"},
                              !.atoms = _lldpctl_new_atom(_lldpctl_new_atom(@, "caels"), "cael")]
               ELSE q)
     /\ UNCHANGED <<Daemon, commands, sets, moves, History>>

\* lldpctl_atom_set(port): SET_PORT, unless a field was bad.
SetPort(c) ==
  LET p == [program[c] EXCEPT !.pc = "end"]
      name == Head(p.todo)
  IN /\ program[c].pc = "fields" /\ p.held \cap {"cael", "caels"} = {}
     /\ CASE p.error = "bad_value" -> Now(c, p) /\ UNCHANGED ports
          [] p.error # "bad_value" /\ name \notin up ->
               Now(c, Refused(p, "set_port")) /\ UNCHANGED ports
          [] OTHER -> Now(c, p) /\ ports' = [ports EXCEPT ![name] = PortWith(@, p.set)]
     /\ UNCHANGED <<cfg, ttl, kicks, up, commands, sets, moves, History>>

\* The atoms a program drops at the end of a command, of an element, or of an
\* interface, and the order in which its functions do so.
Dropping(p) ==
  CASE p.pc = "config" -> {"config"}
    [] p.pc = "fields" -> {"cael", "caels"}
    [] p.pc = "end" -> {"item", "items", "port"}
    [] p.pc = "iterate" /\ p.todo = <<>> -> {"list", "iface"}
    [] OTHER -> {}

Turn == [k \in Atoms |-> CASE k = "caels" -> 1 [] k = "items" -> 1 [] k = "port" -> 2
                           [] k = "list" -> 1 [] OTHER -> 0]

DropRef(c, k) ==
  LET p == program[c]
      left == p.held \ {k}
      next == p.pc = "end" /\ left \cap {"item", "items", "port"} = {}
  IN /\ k \in p.held \cap Dropping(p)
     /\ \A j \in p.held \cap Dropping(p) : Turn[k] <= Turn[j]
     /\ Now(c, [p EXCEPT !.held = left,
                         !.atoms = lldpctl_atom_dec_ref(@, k),
                         !.pc = IF left = {} THEN "idle" ELSE IF next THEN "iterate" ELSE @,
                         !.todo = IF next THEN Tail(@) ELSE @])
     /\ UNCHANGED <<Daemon, commands, sets, moves, History>>

\* An interface disappears, or appears with fresh settings (lldpd_alloc_hardware).
InterfaceMoves(i) ==
  /\ moves < MaxMoves
  /\ moves' = moves + 1
  /\ up' = IF i \in up THEN up \ {i} ELSE up \cup {i}
  /\ ports' = [ports EXCEPT ![i] = FreshPort]
  /\ UNCHANGED <<cfg, ttl, kicks, program, commands, sets, History>>

ConfigNext ==
  \E c \in Programs :
    \/ lldpctl_get_configuration(c)
    \/ \E ask \in ConfigCommands(program[c].copy) :
         lldpctl_atom_set(c, ask) \/ lldpctl_atom_set_str_fails(c, ask)
    \/ \E k \in Atoms : DropRef(c, k)

PortNext ==
  \/ \E c \in Programs :
       \/ \E set \in PortCommands, named \in Restrictions : PortCommand(c, set, named)
       \/ lldpctl_get_port(c) \/ SetFields(c) \/ SetPort(c) \/ \E k \in Atoms : DropRef(c, k)
       \/ lldpctl_get_configuration(c)
  \/ \E i \in Interfaces : InterfaceMoves(i)

SettingsNext == ConfigNext \/ PortNext

SettingsSpec == SettingsInit /\ [][SettingsNext]_settingsVars

-----------------------------------------------------------------------------
\* A program that changes one setting of an up-to-date copy changes that one
\* setting and causes the rounds it asks for and no others, although the whole
\* copy is sent every time: neither a value lldpd did not take nor an earlier
\* request for an immediate round is sent again with the next change. The
\* lifetime follows interval and hold (_lldpctl_atom_set_int_config and
\* client_handle_set_configuration).
SetsOne ==
  /\ cfg = want /\ kicks = wantKicks
  /\ ttl = Ttl(cfg["c_tx_interval"], cfg["c_tx_hold"])

\* What a port announces matches its settings: a slot holds the policy or
\* location of its own type, each of these capabilities is announced exactly when
\* there is one. A port with a role in power supply announces that role and not
\* the other; one whose role is taken back goes on announcing the last
\* (client_handle_set_port).
PortConsistent ==
  \A i \in Interfaces :
    LET p == ports[i] IN
    /\ \A t \in DOMAIN p.policy : p.policy[t].type \in {0, t}
    /\ \A f \in DOMAIN p.location : p.location[f].format \in {0, f}
    /\ "policy" \in p.caps <=> \E t \in DOMAIN p.policy : p.policy[t].type # 0
    /\ "location" \in p.caps <=> \E f \in DOMAIN p.location : p.location[f].format # 0
    /\ ~({"pd", "pse"} \subseteq p.caps)
    /\ p.med_power.devicetype = PD => "pd" \in p.caps
    /\ p.med_power.devicetype = PSE => "pse" \in p.caps

\* An atom lives exactly as long as the program or a living child refers to it:
\* nothing is freed under a child, and between commands nothing is left, also
\* when a port is gone, a value is bad or a request is refused. The exception is
\* the list of a system without interfaces, which cmd_iterate_on_interfaces
\* does not drop (lldpctl_atom_dec_ref and the free functions of the builders).
AtomsExact ==
  \A c \in Programs, k \in Atoms \ {"empty"} :
    LET p == program[c] IN
    p.atoms[k] = Count(k \in p.held)
                 + Cardinality({j \in DOMAIN ParentOf : ParentOf[j] = k /\ p.atoms[j] > 0})

=============================================================================
