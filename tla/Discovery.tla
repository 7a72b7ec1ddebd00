----------------------------- MODULE Discovery -----------------------------
(***************************************************************************)
(* How lldpd built for a plain Linux host finds its ports: the kernel's    *)
(* links, the netlink notifications, and interfaces_update, which turns a  *)
(* dump of the links into the list of hardware ports (interfaces-linux.c,  *)
(* interfaces.c, netlink.c, pattern.c).  lldpd_update_localports, which    *)
(* clears every port's flags, runs it and sweeps the ports left unflagged, *)
(* is one step.                                                            *)
(***************************************************************************)
EXTENDS Naturals, Sequences, FiniteSets, SequencesExt

CONSTANTS
    Order,      \* the links of the host, in the order of a dump
    Kind,       \* phys, bond, bridge, vlan, veth or dummy
    Link,       \* what a VLAN is on top of
    Settings,   \* interface and management patterns (-I, -m) and routing
    Members,    \* links in a bond or a bridge when the daemon starts
    Addresses,  \* addresses of the host, in the order of a dump
    NoDev,      \* no link
    MaxChanges  \* bound on changes of the kernel and on failed system calls

Devs == Range(Order)

VARIABLES
    kern,      \* the links: up, the master and the MAC address
    mcast,     \* links the kernel receives discovery frames on
    hw,        \* g_hardware
    mgmt,      \* management addresses of the local chassis
    cid,       \* the chassis ID: none, the name, or the address of a port
    caps,      \* enabled capabilities of the local chassis
    pattern,   \* c_iface_pattern and c_mgmt_pattern, and whether the host routes
    sock,      \* netlink notifications: empty, data or overrun
    timer,     \* the one-second timer of levent_iface_recv
    subscribed, \* g_iface_event is set
    unopened,  \* links a socket could not be opened for, once
    round,     \* parity of the number of times the main loop ran
    changes

discVars == <<kern, mcast, hw, mgmt, cid, caps, pattern, sock, timer,
              subscribed, unopened, round, changes>>

\* Op(v), with v evaluated once.
On(v, Op(_)) == CHOOSE r \in {Op(x) : x \in {v}} : TRUE

-----------------------------------------------------------------------------
(* pattern_match.  A pattern has 0, 1 or 2 "!", and is a name or "*".      *)

Matches(p, name) == p.glob = "*" \/ p.glob = name

\* (mutant) The last pattern that matches decides, whatever the others say.
PatternStepLast(name, acc, p) ==
    CASE acc.done -> acc
      [] ~acc.done /\ p.bangs = 2 /\ Matches(p, name) ->
             [acc EXCEPT !.done = TRUE, !.found = IF p.glob = name THEN 2 ELSE 1]
      [] ~acc.done /\ p.bangs = 1 /\ Matches(p, name) ->
             [acc EXCEPT !.black = TRUE, !.found = 0]
      [] ~acc.done /\ p.bangs = 0 /\ Matches(p, name) ->
             [acc EXCEPT !.found = IF p.glob = name THEN 2 ELSE IF @ < 2 THEN 1 ELSE @]
      [] OTHER -> acc

\* One more pattern, unless a "!!" has ended the search.
PatternStep(name, acc, p) ==
    CASE acc.done -> acc
      [] ~acc.done /\ p.bangs = 2 /\ Matches(p, name) ->
             [acc EXCEPT !.done = TRUE, !.found = IF p.glob = name THEN 2 ELSE 1]
      [] ~acc.done /\ p.bangs = 1 /\ Matches(p, name) ->
             [acc EXCEPT !.black = TRUE, !.found = 0]
      [] ~acc.done /\ p.bangs = 0 /\ ~acc.black /\ Matches(p, name) ->
             [acc EXCEPT !.found = IF p.glob = name THEN 2 ELSE IF @ < 2 THEN 1 ELSE @]
      [] OTHER -> acc

pattern_match(name, patterns, found) ==
    LET step(acc, p) == On(acc, LAMBDA a : PatternStep(name, a, p))
    IN  FoldLeft(step, [found |-> found, black |-> FALSE, done |-> FALSE], patterns).found

-----------------------------------------------------------------------------
(* From the dump to the typed list of interfaces.                          *)

\* A member of a bond carries the address of the bond.
Address(d) ==
    IF kern[d].master # NoDev /\ Kind[kern[d].master] = "bond"
    THEN kern[kern[d].master].mac ELSE d

\* A VLAN runs when the link it is on does.
Runs(d) == kern[d].up /\ (Link[d] # NoDev => kern[Link[d]].up)

\* The interfaces are records; upper and lower name other ones.
Iface(ifs, d) == CHOOSE i \in ifs : i.name = d

\* netlink_parse_link drops a link that is down; upper and lower are only
\* found among the links of the dump.
netlink_get_interfaces ==
    LET up == {d \in Devs : Runs(d)}
        ref(d) == IF d \in up THEN d ELSE NoDev
    IN  {[name |-> d, flags |-> TRUE, type |-> {}, address |-> Address(d),
          upper |-> ref(kern[d].master), lower |-> ref(Link[d])] : d \in up}

Virtual == {"physical", "vlan", "bond", "bridge"}

\* What the kernel says of a link when asked by ioctl or through /sys.
iflinux_is_bridge(i) == Kind[i.name] = "bridge"
iflinux_is_bond(i) == Kind[i.name] = "bond"
iflinux_is_vlan(i) == Kind[i.name] = "vlan"

\* The links of one kind that no earlier handler has claimed.
Typed(ifs, kind, Is(_)) ==
    {IF i.type \cap Virtual = {} /\ Is(i) THEN [i EXCEPT !.type = {kind}] ELSE i : i \in ifs}

\* The notification of every link names its master, so that the fallback for
\* kernels whose notifications do not finds nothing left to set.
iflinux_add_bridge(ifs) == Typed(ifs, "bridge", iflinux_is_bridge)

iflinux_add_bond(ifs) == Typed(ifs, "bond", iflinux_is_bond)

iflinux_add_vlan(ifs) == Typed(ifs, "vlan", iflinux_is_vlan)

\* The drivers taken for granted.
Regular == {"veth", "dsa"}

\* Whether iflinux_add_physical reaches its end with this link.
IsReal(i) == i.lower = NoDev /\ Kind[i.name] # "dummy"

\* A member of a bond is known by its permanent address.
iflinux_get_permanent_mac(ifs, i) ==
    IF i.upper # NoDev /\ "bond" \in Iface(ifs, i.upper).type THEN i.name ELSE i.address

iflinux_add_physical(ifs) ==
    {IF i.type \cap {"vlan", "bond", "bridge"} # {} THEN i
     ELSE [i EXCEPT
             !.type = IF Kind[i.name] \in Regular \/ IsReal(i) THEN {"physical"} ELSE {},
             !.address = IF IsReal(i) THEN iflinux_get_permanent_mac(ifs, i) ELSE @] : i \in ifs}

\* Blacklisted links are passed over; one named exactly is taken as physical.
Whitelisted(i) ==
    LET m == pattern_match(i.name, pattern.ifaces, 0)
    IN  CASE m = 0 -> [i EXCEPT !.flags = FALSE]
          [] m = 1 -> i
          [] m = 2 -> [i EXCEPT !.type = @ \cup {"physical"}]

interfaces_helper_whitelist(ifs) ==
    IF pattern.ifaces = <<>> THEN ifs ELSE {Whitelisted(i) : i \in ifs}

Listed ==
    interfaces_helper_whitelist(iflinux_add_physical(iflinux_add_vlan(
        iflinux_add_bond(iflinux_add_bridge(netlink_get_interfaces)))))

-----------------------------------------------------------------------------
(* From the list of interfaces to the ports.  The handlers pass on what    *)
(* they changed: the ports, the interfaces and the multicast filters.      *)

Work(h, ifs, mc) == [hw |-> h, ifs |-> ifs, mcast |-> mc]

\* lldpd_get_hardware, for one kind of port or any: its position, or 0.
PositionOf(h, d, ops) ==
    SelectInSeq(h, LAMBDA p : p.name = d /\ p.ops \in ops)

lldpd_alloc_hardware(d, ops) ==
    [name |-> d, ops |-> ops, flags |-> FALSE, master |-> NoDev, mac |-> NoDev,
     aggregate |-> NoDev, vlans |-> {}]

\* What both handlers write into a port they have found or created.
Filled(w, n, i, master) ==
    [w EXCEPT
       !.hw[n] = [@ EXCEPT !.flags = TRUE, !.mac = i.address, !.vlans = {},
                           !.master = IF w.hw[n].ops = "bond" THEN master ELSE NoDev,
                           !.aggregate = IF master = NoDev THEN @ ELSE master],
       !.ifs = (@ \ {i}) \cup {[i EXCEPT !.flags = FALSE]}]

BondMaster(ifs, i) ==
    IF i.upper # NoDev /\ "bond" \in Iface(ifs, i.upper).type THEN i.upper ELSE NoDev

\* Add or remove the addresses of the protocols to what a link receives; the
\* kernel does not count how often.
interfaces_setup_multicast(mc, d, remove) == IF remove THEN mc \ {d} ELSE mc \cup {d}

\* Opening the sockets of a port, and what is joined when that fails half-way;
\* `fails` says for which links priv_iface_init fails.  A bonded port listens
\* on its master too.
iflinux_eth_init(mc, d, fails) ==
    IF d \in fails THEN [ok |-> FALSE, mcast |-> mc]
    ELSE [ok |-> TRUE, mcast |-> interfaces_setup_multicast(mc, d, FALSE)]

iface_bond_init(mc, d, master, fails) ==
    LET own == interfaces_setup_multicast(mc, d, FALSE)
    IN  CASE d \in fails -> [ok |-> FALSE, mcast |-> mc]
          [] d \notin fails /\ master \in fails -> [ok |-> FALSE, mcast |-> own]
          [] OTHER -> [ok |-> TRUE, mcast |-> interfaces_setup_multicast(own, master, FALSE)]

\* Find the port of a link, or create it, and fill it in.
WithPort(w, i, ops, master, init) ==
    LET n == PositionOf(w.hw, i.name, {ops})
    IN  CASE n # 0 /\ w.hw[n].flags -> w
          [] n # 0 /\ ~w.hw[n].flags -> Filled(w, n, i, master)
          [] n = 0 /\ ~init.ok -> [w EXCEPT !.mcast = init.mcast]
          [] OTHER -> Filled([w EXCEPT !.hw = Append(@, lldpd_alloc_hardware(i.name, ops)),
                                       !.mcast = init.mcast],
                             Len(w.hw) + 1, i, master)

\* The links a handler takes up, one after the other.
ForEach(w, Op(_, _), Wanted(_, _)) ==
    LET mine(a, d) == {i \in a.ifs : i.name = d /\ i.flags /\ "physical" \in i.type
                                     /\ Wanted(a, i)}
        step(b, d) == On(b, LAMBDA a : IF mine(a, d) = {} THEN a
                                       ELSE Op(a, CHOOSE i \in mine(a, d) : TRUE))
    IN  FoldLeft(step, w, Order)

iflinux_handle_bond(w, fails) ==
    ForEach(w, LAMBDA a, i :
                   LET m == BondMaster(a.ifs, i)
                   IN  WithPort(a, i, "bond", m, iface_bond_init(a.mcast, i.name, m, fails)),
               LAMBDA a, i : BondMaster(a.ifs, i) # NoDev)

interfaces_helper_physical(w, fails) ==
    ForEach(w, LAMBDA a, i :
                   WithPort(a, i, "eth", BondMaster(a.ifs, i),
                            iflinux_eth_init(a.mcast, i.name, fails)),
               LAMBDA a, i : TRUE)

\* iface_append_vlan_to_lower: one level down from a link that is not the end.
Down(ifs, u) ==
    LET i == Iface(ifs, u)
    IN  IF i.lower # NoDev THEN {i.lower}
        ELSE IF "physical" \in i.type THEN {}
        ELSE {x.name : x \in {x \in ifs : x.upper = u}}

\* The physical links reached from a VLAN.
Bottom(ifs, v) ==
    LET reach[n \in 0..Cardinality(Devs)] ==
            IF n = 0 THEN {v}
            ELSE reach[n - 1] \cup UNION {Down(ifs, u) : u \in reach[n - 1]}
    IN  {i.name : i \in {i \in ifs : i.name \in reach[Cardinality(Devs)]
                                  /\ i.lower = NoDev /\ "physical" \in i.type}}

\* Every VLAN link goes to the first port found for each link below it.
VlansAdded(w) ==
    LET carried == {<<i.name, Bottom(w.ifs, i.name)>> :
                        i \in {i \in w.ifs : i.flags /\ "vlan" \in i.type}}
        gets(n) == {c[1] : c \in {c \in carried : w.hw[n].name \in c[2]
                                  /\ PositionOf(w.hw, w.hw[n].name, {"eth", "bond"}) = n}}
    IN  [w EXCEPT !.hw = [n \in DOMAIN @ |-> [@[n] EXCEPT !.vlans = @ \cup gets(n)]]]

interfaces_helper_vlan(w) == On(w, VlansAdded)

\* interfaces_helper_mgmt.  A pattern that is one plain word is an address to
\* announce.  Otherwise one address of each family is taken, unless the pattern
\* asks for more than it excludes.
interfaces_helper_mgmt ==
    LET pat == pattern.mgmt
        plain == Len(pat) = 1 /\ pat[1].bangs = 0 /\ pat[1].glob # "*"
        negative == \A n \in DOMAIN pat : pat[n].bangs > 0
        taken(f) == SelectSeq(Addresses, LAMBDA a :
                        /\ a.family = f /\ a.global
                        /\ pat = <<>> \/ pattern_match(a.addr, pat, IF negative THEN 1 ELSE 0) > 0)
        chosen(f) == IF negative /\ taken(f) # <<>> THEN <<Head(taken(f))>> ELSE taken(f)
        words(l) == [n \in DOMAIN l |-> l[n].addr]
    IN  IF plain THEN <<pat[1].glob>> ELSE words(chosen("v4") \o chosen("v6"))

\* The address of the first physical link that has a port, once and for all.
ChassisId(w) ==
    LET ports == SelectSeq(Order, LAMBDA d :
                     /\ \E i \in w.ifs : i.name = d /\ "physical" \in i.type
                     /\ PositionOf(w.hw, d, {"eth", "bond"}) # 0)
    IN  IF cid.is = "address" \/ ports = <<>> THEN cid
        ELSE [is |-> "address",
              val |-> w.hw[PositionOf(w.hw, Head(ports), {"eth", "bond"})].mac]

ChassisCaps(w, enabled) ==
    LET kept == enabled \ {"bridge", "station"}
        now == kept \cup (IF \E i \in w.ifs : "bridge" \in i.type
                          THEN {"bridge"} ELSE {})
    IN  IF now = {} THEN {"station"} ELSE now

\* lldpd_update_localchassis: the router bit, and a chassis ID of last resort.
lldpd_update_localchassis(enabled) ==
    LET now == (enabled \ {"router"}) \cup (IF pattern.routing THEN {"router"} ELSE {})
    IN  IF now = {} THEN {"station"} ELSE now

NamedChassis(id) == IF id.is = "none" THEN [is |-> "name", val |-> NoDev] ELSE id

\* The handler of a port leaves the groups of its links.
iflinux_eth_close(mc, p) == interfaces_setup_multicast(mc, p.name, TRUE)

iface_bond_close(mc, p) ==
    interfaces_setup_multicast(interfaces_setup_multicast(mc, p.name, TRUE), p.master, TRUE)

lldpd_hardware_cleanup(mc, p) ==
    IF p.ops = "bond" THEN iface_bond_close(mc, p) ELSE iflinux_eth_close(mc, p)

\* lldpd_cleanup of the ports not seen.
Swept(w) ==
    [w EXCEPT !.hw = SelectSeq(@, LAMBDA p : p.flags),
              !.mcast = FoldLeft(lldpd_hardware_cleanup, @, SelectSeq(w.hw, LAMBDA p : ~p.flags))]
-----------------------------------------------------------------------------
(* The steps.                                                              *)

Linked(m) ==
    [d \in Devs |->
        [up |-> TRUE, master |-> m[d],
         mac |-> IF \E x \in Devs : m[x] = d
                 THEN CHOOSE x \in Devs : m[x] = d ELSE NoDev]]

DiscInit ==
    /\ \E m \in Members : kern = Linked(m)
    /\ mcast = {} /\ hw = <<>> /\ mgmt = <<>> /\ cid = [is |-> "none", val |-> NoDev]
    /\ caps = {} /\ pattern \in Settings
    /\ sock = "empty" /\ timer = FALSE /\ subscribed = FALSE /\ unopened = {} /\ round = 0 /\ changes = 0

\* lldpd_update_localports clears the flags of the ports, updates them and
\* sweeps.
Cleared == [n \in DOMAIN hw |-> [hw[n] EXCEPT !.flags = FALSE]]

UpdateLocalports(enabled, fails) ==
    On(interfaces_helper_vlan(interfaces_helper_physical(
           iflinux_handle_bond(Work(Cleared, Listed, mcast), fails), fails)),
       LAMBDA w : [hw |-> Swept(w).hw, mcast |-> Swept(w).mcast,
                   mgmt |-> interfaces_helper_mgmt,
                   cid |-> ChassisId(w), caps |-> ChassisCaps(w, enabled)])

\* Netlink could not be asked: nothing is flagged, the sweep takes every port.
UpdateNothing(enabled) ==
    On(Swept(Work(Cleared, {}, mcast)),
       LAMBDA w : [hw |-> w.hw, mcast |-> w.mcast, mgmt |-> mgmt, cid |-> cid,
                   caps |-> enabled])

\* One update: it works, or a system call in it fails: a socket cannot be
\* opened, the notifications not subscribed to, or netlink not asked.
Update(enabled, Then(_)) ==
    \/ /\ Then(UpdateLocalports(enabled, {})) /\ subscribed' = TRUE
       /\ UNCHANGED <<unopened, changes>>
    \/ /\ changes < MaxChanges /\ changes' = changes + 1
       /\ \/ \E d \in Devs : /\ Kind[d] \in {"phys", "bond"} /\ subscribed' = TRUE
                             /\ unopened' = unopened \cup {d}
                             /\ Then(UpdateLocalports(enabled, {d}))
          \/ Then(UpdateLocalports(enabled, {})) /\ UNCHANGED <<subscribed, unopened>>
          \/ Then(UpdateNothing(enabled)) /\ UNCHANGED <<subscribed, unopened>>

Apply(r) == \E u \in {r} : /\ hw' = u.hw /\ mcast' = u.mcast /\ mgmt' = u.mgmt
                           /\ cid' = u.cid /\ caps' = u.caps

\* levent_update_and_send: lldpd_loop forgets the capabilities, updates the
\* ports, then the chassis.
MainLoop ==
    /\ Update({}, LAMBDA u : Apply([u EXCEPT !.cid = NamedChassis(@),
                                             !.caps = lldpd_update_localchassis(@)]))
    /\ round' = 1 - round
    /\ UNCHANGED <<kern, pattern, sock, timer>>

\* levent_iface_trigger.
IfaceTrigger ==
    /\ timer /\ timer' = FALSE
    /\ Update(caps, Apply)
    /\ UNCHANGED <<kern, pattern, sock, round>>

\* levent_iface_recv empties the socket and (re)starts the timer; a read that
\* fails because notifications were dropped returns before that.
IfaceRecv ==
    /\ sock = "data" /\ sock' = "empty" /\ timer' = TRUE
    /\ UNCHANGED <<kern, mcast, hw, mgmt, cid, caps, pattern, subscribed, unopened, round, changes>>

IfaceOverrun ==
    /\ sock = "overrun" /\ sock' = "empty"
    /\ UNCHANGED <<kern, mcast, hw, mgmt, cid, caps, pattern, timer,
                   subscribed, unopened, round, changes>>

\* The kernel changes a link and tells those who listen, or drops the message.
KernelChange(k) ==
    /\ changes < MaxChanges /\ changes' = changes + 1
    /\ kern' = k
    /\ sock' \in (IF subscribed THEN {"data", "overrun"} ELSE {sock})
    /\ UNCHANGED <<mcast, hw, mgmt, cid, caps, pattern, timer, subscribed, unopened, round>>

Toggle == \E d \in Devs : Kind[d] \in {"phys", "bond"}
                         /\ KernelChange([kern EXCEPT ![d].up = ~@])

\* A bond takes the address of its first member.
Enslave ==
    \E d \in Devs, m \in Devs :
        /\ Kind[d] = "phys" /\ Kind[m] \in {"bond", "bridge"} /\ kern[d].master = NoDev
        /\ KernelChange([kern EXCEPT ![d].master = m,
                            ![m].mac = IF @ = NoDev THEN d ELSE @])

Release ==
    \E d \in Devs :
        /\ kern[d].master # NoDev
        /\ KernelChange([kern EXCEPT ![d].master = NoDev])

DiscNext ==
    \/ MainLoop \/ IfaceTrigger \/ IfaceRecv \/ IfaceOverrun
    \/ Toggle \/ Enslave \/ Release

\* levent_update_and_send adds its timer again at its end: the main loop runs
\* again and again.
Loops == WF_round(round' = 1 - round)

DiscSpec == DiscInit /\ [][DiscNext]_discVars /\ Loops

-----------------------------------------------------------------------------
(* What the documentation of the patterns and of the supported links says  *)
(* the ports should be, without saying how they are found.                 *)

\* "If a pattern is found matching and blacklisted at the same time, it will be
\* blacklisted.  If it is both whitelisted and blacklisted, it will be
\* whitelisted."
Means(name, pats, found) ==
    LET hits(b) == {p \in Range(pats) : p.bangs = b /\ Matches(p, name)}
        first == SelectInSeq(pats, LAMBDA p : p.bangs = 2 /\ Matches(p, name))
    IN  IF first # 0 THEN (IF pats[first].glob = name THEN "exact" ELSE "in")
        ELSE IF hits(1) # {} THEN "out"
        ELSE IF \E p \in hits(0) : p.glob = name THEN "exact"
        ELSE IF hits(0) # {} \/ found THEN "in" ELSE "out"

Named(d) == pattern.ifaces # <<>> /\ Means(d, pattern.ifaces, FALSE) = "exact"
Excluded(d) == pattern.ifaces # <<>> /\ Means(d, pattern.ifaces, FALSE) = "out"

\* Links frames are sent on: the named ones, and real ones not on top of others.
Physical(d) == Runs(d) /\ (Kind[d] \in {"phys", "veth"} \/ Named(d))

InBond(d) == LET m == kern[d].master
             IN  m # NoDev /\ Kind[m] = "bond" /\ Runs(m)

\* A VLAN is on the physical links at the end of every way down from it.
Closed(S) ==
    \A u \in S :
        IF Link[u] # NoDev THEN Link[u] \in S
        ELSE ~Physical(u) => \A x \in Devs : kern[x].master = u /\ Runs(x) => x \in S

Carries(d, v) ==
    /\ Kind[v] = "vlan" /\ Runs(v) /\ ~Excluded(v) /\ ~Named(v)
    /\ \A S \in SUBSET (Devs \ {d}) : v \in S => ~Closed(S)

Expected ==
    {[name |-> d, bond |-> IF InBond(d) THEN kern[d].master ELSE NoDev,
      mac |-> IF InBond(d) THEN d ELSE Address(d),
      vlans |-> {v \in Devs : Carries(d, v)}] : d \in {d \in Devs : Physical(d) /\ ~Excluded(d)}}

\* Of each family the first address that is not excluded, or all that are asked
\* for.
Managed ==
    LET pats == pattern.mgmt
        open == \A p \in Range(pats) : p.bangs > 0
        ok == {n \in DOMAIN Addresses : Addresses[n].global
                  /\ Means(Addresses[n].addr, pats, open) # "out"}
        first(n) == \A k \in ok : Addresses[k].family = Addresses[n].family => n <= k
    IN  IF \E g \in {p.glob : p \in Range(pats)} : g # "*" /\ pats = <<[bangs |-> 0, glob |-> g]>>
        THEN {pats[1].glob} ELSE {Addresses[n].addr : n \in {n \in ok : open => first(n)}}

Announced ==
    {[name |-> hw[n].name, bond |-> hw[n].master, mac |-> hw[n].mac,
      vlans |-> hw[n].vlans] : n \in DOMAIN hw}

\* Where the socket of a bond could not be opened its members are taken for
\* ordinary links, aggregated; as such they keep the aggregation when they leave.
Aggregated ==
    unopened = {} => \A n \in DOMAIN hw :
        hw[n].aggregate = IF InBond(hw[n].name) THEN kern[hw[n].name].master ELSE NoDev

Settled ==
    /\ Announced = Expected /\ Aggregated
    /\ Range(mgmt) = Managed /\ Len(mgmt) = Cardinality(Managed)

=============================================================================
