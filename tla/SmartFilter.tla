---------------------------- MODULE SmartFilter ----------------------------
(***************************************************************************)
(* The smart filter of one interface: which neighbours are shown (incoming *)
(* filter) and which protocols are spoken (outgoing filter). The filter is *)
(* run by lldpd_recv, after every frame on any interface, and by nobody    *)
(* else; neighbours expire without it. lldpd_send reads what it left.      *)
(*                                                                         *)
(* A protocol is its LLDPD_MODE_ number, which orders protos[] too.        *)
(***************************************************************************)
EXTENDS Integers, Sequences, FiniteSets

CONSTANTS
  Modes,    \* LLDPD_MODE_ numbers of the protocols that are compiled in
  Lldp,     \* LLDPD_MODE_LLDP
  Ids,      \* MSAPs of one protocol
  MaxNbrs,  \* c_max_neighbors, for each protocol
  Hides,    \* the values of -H to start with
  Levels    \* how often the options name each protocol (enabled)

ASSUME ModesAssumption ==
  /\ Modes \subseteq Nat
  /\ Lldp \in Modes
  /\ Hides \subseteq 0 .. 19
  /\ Levels \subseteq [Modes -> 0 .. 2]

VARIABLES
  smart,    \* c_smart
  enabled,  \* enabled field of protos[]: off, on, forced
  rports,   \* h_rports
  sent      \* protocols of the frames of the last lldpd_send

filterVars == <<smart, enabled, rports, sent>>

Ways == {"in", "out"}

SmartFlags(in, out) == {<<"in", f>> : f \in in} \cup {<<"out", f>> : f \in out}

\* filters[] of lldpd.c: what -H selects.
Filters(h) ==
  LET all   == {"filter"}
      proto == {"filter", "proto"}
      neigh == {"filter", "neigh"}
      both  == {"filter", "proto", "neigh"}
  IN IF h = 0 THEN {}
     ELSE << SmartFlags(proto, proto), SmartFlags(proto, {}),    SmartFlags({}, proto),
             SmartFlags(all, all),     SmartFlags(all, {}),      SmartFlags({}, all),
             SmartFlags(both, proto),  SmartFlags(both, {}),     SmartFlags(neigh, proto),
             SmartFlags({}, neigh),    SmartFlags(neigh, {}),    SmartFlags(neigh, neigh),
             SmartFlags(neigh, all),   SmartFlags(proto, neigh), SmartFlags(proto, all),
             SmartFlags(both, neigh),  SmartFlags(both, all),    SmartFlags(all, neigh),
             SmartFlags(all, proto) >>[h]

FilterInit ==
  /\ smart \in {Filters(h) : h \in Hides}
  /\ enabled \in Levels
  /\ rports = <<>>
  /\ sent = {}

-----------------------------------------------------------------------------
\* lldpd_hide_ports. r is a list of neighbours.

Spoken(r) == {r[k].mode : k \in DOMAIN r}

CountOf(r, m) == Cardinality({k \in DOMAIN r : r[k].mode = m})

LeastUsed(r) == {m \in Spoken(r) : \A n \in Spoken(r) : CountOf(r, m) <= CountOf(r, n)}

\* The protocols that stay: the least used ones, or the first of them.
Kept(r, d) ==
  {m \in LeastUsed(r) : <<d, "proto">> \in smart => \A n \in LeastUsed(r) : m <= n}

Hidden(r, d, k) ==
  \/ r[k].mode \notin Kept(r, d)
  \/ <<d, "neigh">> \in smart /\ \E j \in DOMAIN r : j < k /\ r[j].mode \in Kept(r, d)

\* lldpd_hide_all; a direction without filter keeps its flags.
HideAll(r) ==
  [k \in DOMAIN r |->
     [r[k] EXCEPT !.hidden = [d \in Ways |-> IF <<d, "filter">> \in smart
                                             THEN Hidden(r, d, k) ELSE @[d]]]]

-----------------------------------------------------------------------------
New(id, m) == [id |-> id, mode |-> m, hidden |-> [d \in Ways |-> FALSE]]

\* An entry without the k-th element.
Without(r, k) == [i \in 1 .. Len(r) - 1 |-> IF i < k THEN r[i] ELSE r[i + 1]]

Receives(m) == m \in Modes /\ enabled[m] > 0

\* Every reception ends with the filter.
RecvNew(id, m) ==
  /\ Receives(m)
  /\ \A k \in DOMAIN rports : <<rports[k].id, rports[k].mode>> # <<id, m>>
  /\ CountOf(rports, m) < MaxNbrs
  /\ rports' = HideAll(Append(rports, New(id, m)))
  /\ UNCHANGED <<smart, enabled, sent>>

\* A known neighbour with news is unlinked and added at the end.
RecvChanged(k) ==
  /\ Receives(rports[k].mode)
  /\ rports' = HideAll(Append(Without(rports, k), New(rports[k].id, rports[k].mode)))
  /\ UNCHANGED <<smart, enabled, sent>>

\* (mutant) A frame that changes no neighbour returns before the filter.
RecvOtherReturns ==
  /\ UNCHANGED filterVars

\* A duplicate, a frame that is not decoded, one there is no room for, or any
\* frame on another interface.
RecvOther ==
  /\ rports' = HideAll(rports)
  /\ UNCHANGED <<smart, enabled, sent>>

Survivors(r) ==
  {f \in UNION {[1 .. n -> DOMAIN r] : n \in 0 .. Len(r) - 1} :
     \A i, j \in DOMAIN f : i < j => f[i] < f[j]}

\* lldpd_remote_cleanup unlinks any number of neighbours.
Expire ==
  /\ \E f \in Survivors(rports) : rports' = [i \in DOMAIN f |-> rports[f[i]]]
  /\ UNCHANGED <<smart, enabled, sent>>

Forced == {m \in Modes : enabled[m] > 1}

Wanted == {m \in Modes : enabled[m] = 1 /\ \E k \in DOMAIN rports : rports[k].mode = m /\ ~rports[k].hidden["out"]}

SpokenTo == Forced \cup Wanted

Fallback == {m \in Modes : enabled[m] > 0 /\ \A n \in Modes : enabled[n] > 0 => m <= n}

\* lldpd_send on an interface that may transmit.
Send ==
  /\ sent' = IF SpokenTo # {} THEN SpokenTo ELSE Fallback
  /\ UNCHANGED <<smart, enabled, rports>>

\* lldpd_apply_global_changes sets LLDP to on or off, which replaces the
\* lldpd_hardware.
SetLldp(level) ==
  /\ enabled[Lldp] # level
  /\ enabled' = [enabled EXCEPT ![Lldp] = level]
  /\ rports' = <<>>
  /\ UNCHANGED <<smart, sent>>

FilterNext ==
  \/ \E id \in Ids, m \in Modes : RecvNew(id, m)
  \/ \E k \in DOMAIN rports : RecvChanged(k)
  \/ RecvOther \/ Expire \/ Send
  \/ SetLldp(0) \/ SetLldp(1)

FilterSpec == FilterInit /\ [][FilterNext]_filterVars

\* A neighbour that is in the table is heard again, or it expires; so the table
\* does not stay as it is without a frame that runs the filter.
FilterFairSpec == FilterSpec /\ WF_filterVars(RecvOther)

-----------------------------------------------------------------------------
Visible(d) == {k \in DOMAIN rports : ~rports[k].hidden[d]}

\* The variables have their types.
FilterTypeOK ==
  /\ smart \subseteq Ways \X {"filter", "proto", "neigh"}
  /\ enabled \in [Modes -> 0 .. 2]
  /\ rports \in Seq([id : Ids, mode : Modes, hidden : [Ways -> BOOLEAN]])
  /\ sent \subseteq Modes

\* "1proto": whatever arrives and expires in which order, the neighbours that
\* are not hidden speak one protocol.
OneProto ==
  \A d \in Ways : {<<d, "filter">>, <<d, "proto">>} \subseteq smart =>
     \A j, k \in Visible(d) : rports[j].mode = rports[k].mode

\* "1neigh": at most one neighbour is not hidden.
OneNeigh ==
  \A d \in Ways : {<<d, "filter">>, <<d, "neigh">>} \subseteq smart =>
     \A j, k \in Visible(d) : j = k

\* With an outgoing filter that keeps one protocol or one neighbour, and no
\* protocol forced, lldpd_send never sends with two protocols.
OneSpoken ==
  [][Send => \/ Cardinality(sent') <= 1
             \/ \E m \in Modes : enabled[m] > 1
             \/ smart \cap {<<"out", "proto">>, <<"out", "neigh">>} = {}]_filterVars

\* The filter never makes an interface silent: as long as a protocol is on,
\* lldpd_send sends something, also when all neighbours of the interface are
\* hidden.
NeverSilent == [][Send => sent' # {} \/ \A m \in Modes : enabled[m] = 0]_filterVars

\* An interface with neighbours shows one of them, or will: when those the
\* filter had selected expire (lldpd_cleanup does not run it again), the next
\* frame of any kind makes it select another (lldpd_recv), or nobody is left.
ShownAgain == rports # <<>> ~> Visible("in") # {} \/ rports = <<>>

=============================================================================
