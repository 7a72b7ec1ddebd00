------------------------------ MODULE PrivOps ------------------------------
(***************************************************************************)
(* What the privileged half of lldpd is asked to do, and what the kernel   *)
(* may answer.  A request is one call of a priv_* proxy (priv.c,           *)
(* priv-linux.c); Outcomes gives, for the privileged state of the host,    *)
(* every state and answer the asroot_* function serving it can produce.    *)
(* An answer is the sequence of datagrams the proxy reads back.            *)
(***************************************************************************)
EXTENDS Integers, Sequences

CONSTANTS
    Ifaces,      \* names of interfaces
    Files,       \* files the daemon asks the monitor to open
    Authorized,  \* those among them that match a pattern of asroot_open
    Peers,       \* descriptions written to an interface: names of neighbors
    Addrs,       \* addresses of the AgentX master
    Nobody       \* "no address yet"

\* An empty text, sent as a length of zero.
NoText == ""

ASSUME PrivAssumption == /\ Authorized \subseteq Files
                         /\ NoText \notin Peers \cup Files \cup Ifaces
                         /\ Nobody \notin Addrs

Ask(cmd, name, arg) == [cmd |-> cmd, name |-> name, arg |-> arg]

\* The datagrams: a number (a return code or a length), bytes, a descriptor.
Number(n) == [is |-> "number", val |-> n]
Bytes(x)  == [is |-> "bytes", val |-> x]
Passed    == [is |-> "descriptor", val |-> "open"]

Ping == {Ask("ping", NoText, NoText)}

CtlCleanup == {Ask("ctl_cleanup", "ctl", NoText)}

Hostname == {Ask("gethostbyname", NoText, NoText)}

Opens == {Ask("open", f, NoText) : f \in Files}

Ethtools == {Ask("ethtool", i, NoText) : i \in Ifaces}

Inits == {Ask("iface_init", i, "index") : i \in Ifaces}

Multicasts == {Ask("multicast", i, a) : i \in Ifaces, a \in {"add", "del"}}

Descriptions == {Ask("description", i, t) : i \in Ifaces, t \in Peers \cup {NoText}}

Promiscs == {Ask("promisc", i, NoText) : i \in Ifaces}

AgentSockets == {Ask("snmp_socket", a, NoText) : a \in Addrs}

Requests == Ping \cup CtlCleanup \cup Hostname \cup Opens \cup Ethtools \cup Inits
            \cup Multicasts \cup Descriptions \cup Promiscs \cup AgentSockets

-----------------------------------------------------------------------------
(* The state of the host only root can change.                             *)

\* An ifalias: written by lldpd or not, "was" or not, and its text.
Alias(own, was, text) == [own |-> own, was |-> was, text |-> text]
NoAlias == Alias(FALSE, FALSE, NoText)

\* Before the monitor is forked: the control socket is bound, nothing else done.
KernelInits ==
    {[ctl |-> TRUE, multi |-> {}, promisc |-> {}, alias |-> a, agent |-> Nobody] :
        a \in [Ifaces -> {NoAlias, Alias(FALSE, FALSE, "operator")}]}

Gives(k, answer) == [kernel |-> k, answer |-> answer]
Fails(k, rc) == Gives(k, <<Number(rc)>>)
Succeeds(k) == Gives(k, <<Number(0)>>)

Errno == 19      \* the error of a failed system call

asroot_ping(k) == {Gives(k, <<Number(1)>>)}

\* unlink by root; when the socket is gone already that is only logged.
asroot_ctl_cleanup(k) == {Succeeds([k EXCEPT !.ctl = FALSE])}

\* The canonical name, or the node name when it does not resolve.
asroot_gethostbyname(k) ==
    {Gives(k, <<Number(1), Bytes(n)>>) : n \in {"canonical", "nodename"}}

\* The return code of a successful open is the monitor's descriptor number.
asroot_open(k, file) ==
    {Fails(k, -1)}
    \cup (IF file \in Authorized THEN {Gives(k, <<Number(5), Passed>>)} ELSE {})

asroot_ethtool(k) ==
    {Fails(k, -1), Gives(k, <<Number(0), Bytes("settings")>>)}

\* A raw socket bound to the interface and filtered, or the errno of a step.
asroot_iface_init(k) ==
    {Fails(k, Errno), Gives(k, <<Number(0), Passed>>)}

\* Adding an address twice is not an error.
asroot_iface_multicast(k, i, how) ==
    {Fails(k, Errno),
     Succeeds([k EXCEPT !.multi = IF how = "add" THEN @ \cup {i} ELSE @ \ {i}])}

\* The alias asroot_iface_description_os leaves.  fgets reads nothing from an
\* interface without alias, and such an interface is "connected to" the text
\* even when the text is empty.
Described(a, text) ==
    IF text # NoText \/ a = NoAlias THEN Alias(TRUE, FALSE, text)
    ELSE IF a.own THEN Alias(TRUE, TRUE, a.text)
    ELSE Alias(TRUE, FALSE, "no neighbor")

asroot_iface_description(k, i, text) ==
    {Fails(k, -1), Fails(k, Errno),
     Succeeds([k EXCEPT !.alias[i] = Described(@, text)])}

asroot_iface_promisc(k, i) ==
    {Fails(k, Errno), Succeeds([k EXCEPT !.promisc = @ \cup {i}])}

\* The first address asked for is the one every later call connects to.
asroot_snmp_socket(k, addr) ==
    LET k1 == [k EXCEPT !.agent = IF @ = Nobody THEN addr ELSE @]
    IN  {Fails(k1, -1), Gives(k1, <<Number(0), Passed>>)}

\* The dispatch table.
Outcomes(k, r) ==
    CASE r.cmd = "ping"          -> asroot_ping(k)
      [] r.cmd = "ctl_cleanup"   -> asroot_ctl_cleanup(k)
      [] r.cmd = "gethostbyname" -> asroot_gethostbyname(k)
      [] r.cmd = "open"          -> asroot_open(k, r.name)
      [] r.cmd = "ethtool"       -> asroot_ethtool(k)
      [] r.cmd = "iface_init"    -> asroot_iface_init(k)
      [] r.cmd = "multicast"     -> asroot_iface_multicast(k, r.name, r.arg)
      [] r.cmd = "description"   -> asroot_iface_description(k, r.name, r.arg)
      [] r.cmd = "promisc"       -> asroot_iface_promisc(k, r.name)
      [] r.cmd = "snmp_socket"   -> asroot_snmp_socket(k, r.name)
=============================================================================
