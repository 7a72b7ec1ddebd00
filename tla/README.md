# A TLA+ model of lldpd with OVSDB

lldpd speaks LLDP (and CDP, FDP, EDP, SONMP) on the interfaces of a host. This
variant belongs to a switch whose configuration and state live in a database,
OVSDB: interfaces, timers and enabling come from database columns, and
neighbours and counters are written to them. The modules in this directory
model the parts of it that keep state, TLC checks them on small instances, and
TLAPS proves the main safety properties for instances of any size.

## 1. The system and its parts

The daemon is one thread around a libevent loop. Every callback runs to its
end before the next one starts, so **an action of a module is one callback**,
with everything that the callback calls. What interleaves is the callbacks:
frames, timers, netlink events, client requests and database changes, in any
order; and, outside the daemon, the database server, sessions of vtysh, clients
of the control socket, the privileged monitor process and the SNMP daemon.

| Part | Source (below `src/src/`) | What it does | Modules |
| --- | --- | --- | --- |
| Remote table | `daemon/lldpd.c`, `lldpd-structs.c`, `daemon/event.c` | neighbours per interface, systems shared by neighbours through reference counts, one timer for ageing, notification of subscribers | `RemoteTable` |
| Smart filter | `daemon/lldpd.c` | which neighbours are shown, which protocols are spoken (`-H`) | `SmartFilter` |
| Transmission | `daemon/event.c`, `daemon/lldpd.c`, `daemon/client.c`, `daemon/lldpd_ovsdb_if.c` | per-interface timer, fast start, reinit delay, lifetime announced to neighbours | `TxTimer` |
| Neighbours to OVSDB | `daemon/lldpd_ovsdb_if.c`, `daemon/lldpd.c` | one change request per interface, one confirmed transaction, ageing of database entries | `NbrSync` |
| Interfaces and counters in OVSDB | `daemon/lldpd_ovsdb_if.c`, `daemon/lldpd.c` | the hash that joins database rows and kernel interfaces, their configuration and statistics | `OvsdbIfaces` |
| Ports in OVSDB | `daemon/lldpd_ovsdb_if.c` | the VLANs announced on the interfaces of a port | `OvsdbPorts` |
| System configuration in OVSDB | `cli/lldp_vty.c`, `daemon/lldpd_ovsdb_if.c` | commands of vtysh write the System row, the daemon applies it, clears on request and reports counters | `SystemRow`, `Vty`, `GlobalConfig` |
| Frames | `daemon/lldp.c`, `daemon/cdp.c`, `daemon/edp.c`, `daemon/sonmp.c`, `daemon/frame.c`, `daemon/frame.h` | building and reading the frames of five protocols | `LldpCodec`; `NeighborFrames`, `CdpCodec`, `EdpCodec`, `SonmpCodec`, `Dialects`; `Codecs` |
| Control socket and library | `ctl.c`, `daemon/client.c`, `daemon/event.c`, `lib/connection.c`, `lib/atom.c` | requests, answers and notifications between a program and the daemon | `Ctl` |
| lldpcli | `client/commands.c`, `client/lldpcli.c` | the tree of commands and the walk over it | `Commands` |
| Settings by clients | `lib/atom.c`, `lib/atom-private.c`, `daemon/client.c`, `client/` | copies of the configuration and of ports that programs change and send back | `Settings`, `Client` |
| Privilege separation | `daemon/priv.c`, `daemon/priv-linux.c`, `daemon/privsep_io.c` | calls of the unprivileged daemon to the monitor | `PrivOps`, `PrivCalls`, `Privsep` |
| Life of the daemon | `daemon/lldpd.c`, `ctl.c` | control socket as a lock, the lldpcli that resumes the daemon, exit | `Startup` |
| Discovery of interfaces | `daemon/interfaces-linux.c`, `daemon/interfaces.c`, `daemon/netlink.c`, `daemon/pattern.c` | links of the kernel become ports | `Discovery`, `Host` |
| SNMP | `daemon/agent.c`, `snmp/`, `daemon/LLDP_MIB_traps.c` | the LLDP MIB by AgentX and by a plug-in that reads OVSDB | `Agent`, `SnmpTables`, `Snmp` |

The parts meet in these places. `lldpd_recv` decodes a frame into the remote
table, leaves a change request for the database, runs the smart filter, arms
the cleanup timer again and may start fast start. The cleanup timer removes
neighbours, leaves change requests, and tells subscribers. `lldpd_run`, called
for every event of the database connection and for requests to update
neighbours or statistics, applies configuration (`lldpd_reconfigure`), then
writes neighbours and counters. Interface changes seen by netlink or by the
database create and remove `lldpd_hardware` structures, on which all of the
above hang.

## 2. Modules, state and actions

Each module says at its head what it abstracts. Names of operators follow the
functions they translate; `PROJECT.json` gives the lines of each. Operators
whose comment begins with `(mutant)` are altered copies of another one; each run
is repeated with them in place of the original and has to fail.

Modules whose state does not meet are checked by one run. There a variable
`focus`, chosen at the start, says which of them a behaviour is about (`Client`,
`Codecs`, `Host`, `Snmp`, `MCLocalPorts`, `MCNbrSync`, `MCOvsdbConfig`); the others stand
still.

**RemoteTable.** `hw` is `g_hardware`, `port` and `chassis` are heaps of
`lldpd_port` and `lldpd_chassis` cells, `due` is `g_cleanup_timer`, `told` is
what a subscribed client has been told, `said` (history) the lifetime each system
announced last. A cell that is freed while something
points to it is a reachable state unless the reference counts are right. One
action per path through `lldpd_decode` (duplicate, known neighbour, new
neighbour of a known system, new system, discarded), cleanup by timer and by
main loop, creation and removal of an interface, clear request, change of the
local lifetime, and the tick of the clock. A frame is who sent it, its lifetime
and one value for all the rest.

**SmartFilter.** One interface; `rports` is the list of its neighbours with
`p_hidden_in` and `p_hidden_out`, `enabled` the protocols that are on or forced,
`sent` what `lldpd_send` did last. `HideAll` is `lldpd_hide_all`: count the
neighbours of each protocol, keep the least used, keep the first neighbour.

**TxTimer.** One interface; `timer` is `h_timer`, `reinit` is
`h_reinit_delay`, `fast` is `h_tx_fast`, `ttl` is `c_ttl` with its width. `left`
is how long the neighbour still keeps the last PDU, `slow` says that the timer was
armed with a fast interval above the lifetime. Reasons not to transmit
(paused, direction, link, not running) are a set. The other interfaces of the
daemon appear as `SendNow`, since `levent_send_now` runs every timer.

**NbrSync.** `op` is `h_rport_change_opcode`, `db` the column
`lldp_neighbor_info`, `txn` is `confirm_txn` between commit and answer,
`tryAgain` is `confirm_txn_try_again`. `lldpd_run` is four actions, one per way
through it: writing requests and ageing (`RunNbrs`), clear request, writing
everything after a failure (`RunChangeAll`), and taking note of the outcome
(`RunFinish`).

**OvsdbIfaces.** `db` is the Interface table at the server, `idl` the copy that
`lldpd_reconfigure` has applied, `kern` what the kernel has, `itf` the hash
`all_interfaces`, `hw` the `lldpd_hardware` structures, `txn` is
`lldp_stats_txn`, `aging` the rows whose entry `confirm_txn` removes for its age.
`Run` is `lldpd_run`: configuration first, then, when the interval has passed, the
counters, then the ageing pass, which writes zeros over counters. An interface may
fail to initialize. `UpdateLocalports` is the main loop looking at the kernel. A restart loses everything but `db` and `kern`, and decides only then
whether a transaction on its way is applied.

**OvsdbPorts.** `portRow` is the Port table, `port` the hash `all_ports`,
`portdata` the pointer of each interface to its port (or to a freed one), `lport`
the VLANs of the hardware. `ApplyPortChanges` is `lldpd_apply_port_changes`,
`UpdateLocalports` wipes the VLANs and restores them through the pointers.

**SystemRow, Vty, GlobalConfig.** `db` holds the System row and what else carries
configuration of LLDP; a map is a function that is `None` at absent keys. `seen`
is the replica of each vtysh session, which may be behind, and a command writes
back the whole column it read. `cfg` is `g_config` with the local chassis, `idl`
what `lldpd_reconfigure` saw last, `landing` the status column `confirm_txn` is
about to write, `sent` the counters `lldp_stats_txn` is about to write, `hw` the
neighbours and counters. `ShowConfig`,
`ShowLocalDevice` and `RunningConfig` are what the show commands compute.

**LldpCodec.** One frame from `lldp_send` of one system to `lldp_decode` of
another. `local` is what the sender has to say per kind of TLV, `flags` what the
database has enabled, `frame` a sequence of TLVs in wire form with their sizes,
`got` and `enabled` what the receiver has built so far. Bit fields are packed and
unpacked as in the code; strings are a length and a content. `Meaning` and
`Announced` say, without reference to the layout, what should arrive.

**CdpCodec, EdpCodec, SonmpCodec, Dialects.** The frames of the other protocols as
`cdp_send`, `edp_send` and `sonmp_send` write them, and their decoders. In
`Dialects` a neighbour announces itself several times over a line that loses
frames and damages bytes, `lldpd_guess_type` finds the protocol, and `chassis` and
`rports` are what the receiver knows; EDP needs two frames to be put together.
`frame_checksum` is computed on a few bytes that stand for the content.

**Ctl.** `conn` is `lldpctl_conn_t` with its input buffer, `client` the daemon's
`lldpd_one_client`, `toServer` and `toClient` are the two directions of the
socket as sequences of headers and payloads, so that a read may end between the
two. `Read` and `Arrive` are the two ways bytes enter the library (synchronous
callback, `lldpctl_recv`), `TakeAnswer` the second half of
`_lldpctl_do_something`.

**Commands.** `stack` and `env` are those of `cmd_env`; `Type` enters a node for a
word, `EndOfLine` runs a command. The tree is a constant expression translated
from `register_commands_*`.

**Settings.** `cfg` and `ports` are lldpd's; `program` has for each program its
copies, the atoms with their reference counts and where in its command it is.
Requests of two programs, and interfaces that come and go, interleave.

**PrivOps, PrivCalls, Privsep.** `PrivOps` says what each privileged operation
takes, does and answers. `PrivCalls` is the promise: a procedure call, carried out
once. `Privsep` is the code: each datagram written or read is a step of the child
or of the monitor, which also handle signals and the death of the other.

**Startup.** `pc` is where each process is in `lldpd_main`, `file` whose socket the
name is bound to, `listening` who answers on it; `overlap` is set when a start
overlaps another one or an exit. `cli` is the lldpcli of each process; `refused` has
those with a refused line, `undone` those that were killed or could not resume.

**Discovery.** `kern` is the kernel's links, `hw` is `g_hardware`, `sock` the queue of
netlink notifications, which may overrun, `timer` the delay of
`levent_iface_recv`. `Update` runs the whole of `lldpd_update_localports`.

**Agent, SnmpTables.** `Agent` has the table of neighbours with the time each last
changed; `Serve` is the search of a header function for the next OID, `walk` a
manager that follows it. `SnmpTables` has the database, its replica, a cache that
loads tables; for traps `turn` is the receiver that is served with the local
variables of the loop, `told` the round each receiver was sent the values of, and
`fate` what became of its turn.

## 3. Runs and what they show

| Run | Module | Properties | What it shows |
| --- | --- | --- | --- |
| `remote_table` | `MCRemoteTable` | `RefcountExact`, `OnlyOwnEnd`, `SilentLeaves`, `OrphanFreed` | Two interfaces with room for one neighbour of each protocol share remote systems while neighbours age, change and shut down, interfaces come and go and the table is cleared: reference counts are exact, a live neighbour is ended only by what its own system announces on either interface, a silent one ages out although every received frame arms the cleanup timer again, and a system left without neighbours is freed. |
| `nbr_sync` | `MCNbrSync` | `SingleInSync`, `CrowdedEmptied`, `CrowdedShown` | With one neighbour at a time per link and transactions that fail only with TXN_TRY_AGAIN, the database column equals the table whenever no request, transaction or retry is left; with two neighbours per link and every kind of failure, an empty table empties the column and a table with neighbours gets one of them into it. |
| `local_ports` | `MCLocalPorts` | `KeptAlive`, `ShownAgain`, `QuietAfterUp`, `SendsEventually` | What an interface shows and when it transmits. For all twenty values of -H and all ways of enabling two protocols, another neighbour is shown after the next frame when the shown ones expire. With changing intervals, holds, links, pauses and fast start, an unobstructed interface transmits again before its neighbour forgets it unless a client asked for a fast interval above the lifetime, the reinit delay is kept unless a PDU is asked for, and the timer is never lost. |
| `ifaces` | `MCOvsdbIfaces` | `HashExact`, `ConfigApplied`, `CountersKept`, `CountersReach` | Rows and hardware stay connected, configured and counted whatever order they come and go in, across restarts, failed transactions, interfaces that cannot be initialized and the ageing pass that writes zeros over counters, and what was counted reaches the database again. |
| `codecs` | `MCCodecs` | `RoundTrip`, `Understood`, `DamagedRefused` | Whatever one lldpd has to say, with any TLV switched on or off and values at the ends of their ranges, another one accepts and stores as it was meant (but for the identifier of the system, of which only the length arrives), or the frame is not sent because it is larger than the MTU; with CDP, FDP, EDP and SONMP, too, and after frames were lost or damaged. |
| `config` | `MCOvsdbConfig` | `ShownIsApplied`, `RunningConfigRestores`, `TotalNoWrap`, `TableServed`, `VlansOfMembers` | The commands of vtysh, the rows they write and the daemon that applies them agree; requests to clear are served and ports keep the VLANs of their rows, across stale replicas, late transactions and restarts. |
| `snmp` | `MCSnmp` | `WalkComplete`, `TrapAnswered`, `MibRecent`, `RoundServed` | The LLDP MIB: walks over tables whose rows move return what stays, notifications name what can be asked for, every receiver has its turn in a round of traps whatever fails for the others, and what the plug-in answers was in its replica at most one cache time ago. |
| `host` | `MCHost` | `OneDaemon`, `Implements`, `CallReturns`, `NeverAlone`, `LinksSettle`, `Resumes` | A plain Linux host. Links enter and leave bonds and bridges, go up and down, notifications are dropped and system calls fail, and the ports and their aggregation end up being those of the links there are. lldpd processes start, crash and exit around one control socket, and what an lldpcli leaves paused is told from what it resumes. Whatever order daemon and monitor write, read, die and stop in, their datagrams implement a procedure call (refinement of PrivCalls), every call returns, and the monitor does not outlive the child. |
| `client` | `MCClient` | `OwnAnswer`, `InOrder`, `ArgumentsComplete`, `SetsOne`, `PortConsistent`, `AtomsExact`, `Answered` | lldpcli and its library. A program with synchronous or asynchronous callbacks gets the answer to the request it made and the notifications in order, while both cross in the socket and are cut into pieces. A command that runs has the arguments it needs, in whatever order they were given. Two programs that change settings, one of them with an old copy, change what they ask for, ports announce what was set, and every atom is freed exactly when its last user is gone, also when interfaces vanish between two requests. |

`CHECK_DEADLOCK FALSE` is set where events are bounded and a behaviour may simply
have used them up.

### Disagreements between code and documentation

Runs expected to fail check one sentence of a document or comment each.

- `nbr_error` (`NbrSync`, `InSync`): lldpd_run sets confirm_txn_try_again only for TXN_TRY_AGAIN; for TXN_ERROR, TXN_NOT_LOCKED or TXN_ABORTED it clears it, and the requests of the transaction were already reset. ops/docs/DESIGN.md:187 says: "Any neighbor transaction failure triggers a full synchronization of LLDP internal neighbor iinformation in the database". The run ends with no request, no transaction, no retry and a neighbour that the column does not show.
- `tx_wrap` (`MCLocalPorts`, `KeptAlive`): The product of interval and hold is stored in a u_int16_t without the MIN(UINT16_MAX, ...) of lldpd_apply_global_changes; it wraps. src/src/client/lldpcli.8.in:345 says the hold "is used to compute the TTL of transmitted packets which is the product of this value and of the transmit delay". The run shows a timer that runs after the neighbour forgot the PDU.
- `ifaces_reindex` (`MCOvsdbIfaces`, `HashExact`): When an interface disappears and comes back with another index before the next update, lldpd_update_localports adds the new hardware to the entry first and then removes the old one by name, which clears the entry's pointer to the new one (or frees the entry); src/ops/docs/DESIGN.md:171 says "This holds a pointer to the OVSDB row entry of the interface and corresponding lldpd_hardware that is maintained by lldpd."

Further disagreements and limits show in the models without a run of their own:

- The identifier of a system that is stored is not the one it sent:
  `lldp_decode` copies the value of the TLV and then, with OVSDB, overwrites it with
  as many bytes of the frame from the source address on (`daemon/lldp.c:647`), which
  is the sender's interface and what follows. `tests/check_lldp.c:34` asserts that the
  identifier received is the one that was sent. `RoundTrip` compares all but these
  bytes.
- An lldpcli that is killed, or has a line of its configuration refused before its
  last command, leaves the daemon that started it paused for good
  (`daemon/lldpd.c:1273`, `lib/atom.c:345`); `Resumes` says that nothing else does.
- A client's fast interval is compared with nothing (`daemon/client.c:112`); one above
  the lifetime lets neighbours forget the system during fast start (`KeptAlive`
  excludes it).
- The pass that removes aged neighbour entries writes zeros over the counters of the
  row (`daemon/lldpd_ovsdb_if.c:2258`); the next statistics correct them, unless the
  process ends before (`CountersKept`, `CountersReach`).
- `send_lldpRemTablesChange` leaks the PDU of a v1 receiver without community and of an
  inform whose variables cannot be added (`daemon/LLDP_MIB_traps.c:185`; `RoundServed`).
- `del_old_port` follows a pointer to hardware that may be missing
  (`daemon/lldpd_ovsdb_if.c:996`); `OvsdbPorts` reaches it (`Crash`) and
  `VlansOfMembers` is about daemons to which it has not happened.
- A clear request removes neighbours without the callback
  (`daemon/lldpd_ovsdb_if.c:2033` and `:2091`), so subscribers are not told of
  them, while the comment at `lldpd-structs.c:112` says that `expire` "should be
  called when a remote port is removed". `Watched` holds of all other removals
  (theorem `SubscribersInformed`).
- A frame that is not decoded resets the interface's change request
  (`daemon/lldpd.c:504`) and with it an addition that was not written yet; the
  neighbour's next frame writes it (`CrowdedShown`).
- When an interface has two neighbours, keepalives of one stamp the entry of the
  other (`daemon/lldpd_ovsdb_if.c:2199`); an entry whose neighbour has gone can
  stay as long as another neighbour speaks.
- The smart filter is not run when a neighbour expires (`daemon/lldpd.c:1009`), so
  that an interface shows none of its neighbours until the next frame
  (`ShownAgain`).
- `levent_send_now` runs the timer of an interface whose reinit delay has not
  passed (`daemon/event.c:757`); `QuietAfterUp` excludes it.
- After a refused request a connection of liblldpctl stays in the state of waiting
  for an answer (`lib/atom.c:345`), and the next request fails with
  `LLDPCTL_ERR_INVALID_STATE`, which `lib/lldpctl.h:295` explains by "another
  operation already running". `Ctl` follows a connection up to its error, and
  `Settings` has what a program that keeps it meets.
- `agent_h_remote_chassis` (`daemon/agent.c:1025`) does not retry when a system has
  no name or description, unlike what the comment at `:580` asks for; a walk over
  those two columns ends there, and `WalkComplete` leaves them out.

## 4. Bounds

- `remote_table`: two interfaces and two systems are the least with which a system
  is shared between interfaces; with two cells for neighbours and two for systems
  the heap runs out of them and uses them again. `MaxNeighbors` is one, so that the
  limit is reached. Ages saturate at the greatest lifetime (`MaxAge`), beyond which
  no comparison tells them apart.
- `local_ports`: two protocols with two possible neighbours each give ties, unequal
  counts and reorderings; all twenty values of `-H` and all ways of enabling two
  protocols are initial states. `c_ttl` is three bits wide instead of sixteen
  (`Width` = 8), so that products of small intervals and holds are clamped or wrap.
- `nbr_sync`: two instances. One link with two neighbours, a lifetime of one second,
  three events and one failure of any kind; two links with one neighbour at a time
  that says two different things. Three events are enough for a neighbour to come,
  change and go, or for a restart between the halves of a synchronization. The slack
  of two seconds is the code's (`Slack`).
- `ifaces`: two interfaces, each of which may have a row, a kernel interface, both or
  none at the start; two changes from outside in any order (`MaxEvents`) between any
  number of calls of `lldpd_run`; counters up to one. A change, a restart or a
  failure and one more are enough to separate a row from its hardware and to lose a
  transaction. In `ifaces` an interface keeps its kernel index; `ifaces_reindex` lets
  it be created anew with another one.
- `config`: one interface, one session, timers of 30 and 32768 seconds so that the
  product with the hold of 10 exceeds 65535, three events, one neighbour; for the ports
  two interfaces, two ports, three events and three configurations (access, trunk by
  default, native-tagged).
- `codecs`: for LLDP a system that announces everything, and every variation of one
  kind of TLV (absent, shortest, longest, in lists, all values of the small bit
  fields and the ends of the large ones), with all TLVs enabled, none, one, or all but
  one, and two MTUs. TLVs are written and read independently of each other, so that
  combinations of two variations add nothing. `LocalsFit` requires that values fit the
  nine bits of a TLV's size. For the other protocols seven systems, one without a MAC address, and three
  announcements (`MaxSends`): one lost, one damaged, one whole.
- `client`: three requests, three notifications and two connections: a subscription,
  notifications in front of and behind an answer, and a second connection after an
  error. Command lines reach every command with options. Two programs make two
  commands and two changes each on two interfaces, any of which may be there at the start,
  and one of which may go or come once.
- `host`: two links that can be bonded or bridged, a bond, a bridge and a VLAN, two
  changes, four settings of patterns; two processes and three starts, enough for one
  that finds the socket of a crashed one; one interface and two files for the calls,
  one of them not authorized, and the death of either process.
- `snmp`: three interfaces, of which one has neighbours, four frames, three changes and
  one second (a row moves once while it is walked over); a cache time of two with a
  clock up to two and two writes; four receivers, an inform, a version nobody knows and
  two traps among them.

## 5. Fairness

libevent runs every callback whose descriptor is ready or whose timer is due,
and it runs nothing for ever; so weak fairness is assumed of timers, of
`lldpd_run` (the statistics interval calls it when nothing else does), of the main
loop, which arms its timer again at its end, and of the clock. A database server
that answers is assumed where a transaction must complete.

- `remote_table`: the clock and the cleanup timer. `OrphanFreed` has a hypothesis of
  its own, that the main loop (`UpdateLocalports`) recurs, because the cleanup timer
  alone does not free a system without neighbours.
- `nbr_sync`: for the crowded link `lldpd_run`, the server's success, the clock and
  expiry; there the cleanup timer is not late by two seconds (`MaxLate`), which is
  what the slack in `lldpd_ovsdb_nbrs_run` is for. The safety property has no
  fairness and lets the timer be late for ever.
- `local_ports`: the timer and the clock. `ShownAgain` is about an interface on which
  frames keep arriving (`RecvOther`), which is part of the statement.
- `ifaces` and `config`: `lldpd_run` with its interval passed, and the server's answer.
- `client`: both event loops run, and a synchronous program that has subscribed
  returns to `lldpctl_watch`. Programs need not ask for anything.
- `host`: both processes are scheduled and signals delivered; `lldpd_main` and its
  lldpcli proceed; the main loop recurs, and `LinksSettle` rests on it alone. Nothing is
  assumed of links, notifications, of starts, or of the end of an lldpcli.

No fairness is assumed of neighbours, links, operators and clients.

## 6. What is proved

TLAPS checks the proofs, for every value of the constants that satisfies the named
assumptions of the modules (finite sets where they are counted, natural numbers,
distinct model values; `VtyAssumption` says that the commands admit only numbers inside
their ranges). Each inductive invariant was first checked by TLC on a small instance.

- `RemoteTableProofs`: **TypeCorrect**, **RefcountsExact**, **EntriesUnique**,
  **TimerAlwaysCovers**. None of these is inductive alone. Counts are exact only
  in a well-formed heap; the heap stays well-formed only with exact counts, since
  `lldpd_cleanup` frees what has count zero; `lldpd_move_chassis` may overwrite a
  shared system in place only because neighbours agree with their system
  (`OwnSystem`); the timer is compared with lifetimes found through the system.
  `IInv` is their conjunction. Two lemmas, `InsertedTable` and `RemovedTable`,
  carry the argument for all actions that add or remove neighbours: holders of a
  system change by one set, and cardinalities follow. From the same invariant follow,
  step by step, the action properties **NobodyPushedOut** and **SubscribersInformed**;
  the first needs **LifetimesOwn** (`LifetimesInv`: the lifetime in a cell is what its
  system said last), since `lldpd_move_chassis` writes it for all interfaces; and
  **BoundKept** by an invariant on the neighbours of one protocol (`BoundInv`).
- `LocalPortsProofs`, for `SmartFilter`: **FilterKeepsPromises** by induction over steps: every step
  that changes the list either runs the filter, whose result satisfies the
  promise by itself (`HideAllSelects`: the first protocol of the least used is
  unique, and so is the first neighbour), or removes entries. **OneProtocolSpoken** and
  **SendNeverSilent** are about the step of `lldpd_send`.
- `LocalPortsProofs`, for `TxTimer`: **NeighborKeptAlive**, under `Fitting`: what clients ask for fits
  `c_ttl` (`tx_wrap` shows why). The invariant adds that the lifetime covers the interval, and that neither an
  obstacle nor a pending delay coexists with an unbroken series of PDUs; the last part
  is what makes the delay harmless. **DelayRespected** needs no such condition;
  `DelayInv` relates what is left of the delay to the timer.
- `NbrSyncProofs`: **ColumnInSync**, under `OnePerLink` (one neighbour at a time per
  link, frames that decode, transactions that succeed or are tried again; `nbr_error`
  shows what the last is for, and section 3 the first two). `InSync` speaks of an
  interface with nothing left to do; `SyncInv` follows it through what is left. For
  each neighbour, everything is going to be written again (`Resync`), or there is a
  request to write it, or a request to stamp an entry that is there to be stamped
  (`Stampable`), or what the column holds once the transaction has landed (`Target`)
  is the neighbour, unless it is so old that ageing removed it (`Shown`).
- `OvsdbProofs`, for `OvsdbIfaces`: **CountersNeverBack** (`CountersInv`: row, transaction on its way
  and synchronized hardware are in this order, unless this process set the counter
  back; `AgingInv`: a row that is about to age out has an entry); **HashStaysExact** and **ConfigStaysApplied**, under the condition `Noticed` that
  no interface comes back with another index unnoticed, which `ifaces_reindex` shows to
  be needed and **KeptIndexNoticed** derives from unchanging indices. What a step does to
  one interface is a function of its own state, so the lemmas are about single entries.
- `GlobalConfigProofs`: **TotalNeverWraps** (`CountInv`: neighbours and deletions
  never exceed insertions in the daemon, in the transaction on its way, in the database
  and in any replica, and what
  was counted plus what has still to be taken over from the database comes from events,
  so that sums stay small); **ConfigRestored** from the types of the rows;
  **ShownAlwaysApplied** (`ConfigInv`: the configuration fits what was read last, and the
  lifetime follows interval and hold also before anything was read; a number in a row
  is always inside the limits that `lldpd_apply_global_changes` tests).
- `HostProofs`: **OnlyOneDaemon** (`StartInv`: the processes that listen are those past
  the socket; while no start has overlapped, one process at most is on its way in or
  out, the name is that of the daemon that runs, and whoever removes the name does so
  with no daemon running). **CallsImplemented**: `Privsep` implements `PrivCalls`. The
  invariant `OneCall` says where the datagrams of a call are: nowhere (`Quiet`); or
  those the monitor has, those in the socket and those still to be written are
  together the request (`Asking`); or the answer is spread the same way the other way
  round (`Answering`). Under it each write and read is a stuttering step, the step that
  completes a request is `Perform` (`ReadAsMeant`: the monitor's fields are those the
  proxy wrote), and the last read is `Return` (`AnswerAsRead`).
- `CtlProofs`: **AnswersOwn** and **NotesInOrder**. `CtlInv` is about the concatenation of
  buffer and socket, which reading does not change: it is a row of notifications,
  numbered on from the last one delivered, with at most one answer in it, to the
  request just made (`Idle`, `Waiting`, `Answering`). The properties alone do not say that an
  answered request leaves nothing behind in either direction.
- `OvsdbProofs`, for `SnmpTables`: **AnswersRecent** (`CacheInv`: what a valid cache holds is one load of the
  replica of the time it notes, which no write and no answer disturbs; a request meets
  such a cache, or one that was emptied and could not be loaded, `RefreshedCache`) and
  **ReceiversServed** (`TrapInv`: the receivers before the one that has its turn are
  served, those behind it wait, and the locals of the loop say where the turn is), about
  `TablesSpec` and `TrapSpec`, the two parts of `SnmpSpec`.
- `SettingsProofs`: **ConfigurationSetsOne**, **PortsConsistent** and **AtomsCounted**.
  `SettingsInv` has what is needed besides the properties. A copy that is up to date may
  differ from lldpd's configuration, but only in values lldpd does not take, and not in
  interval and hold (`UpToDate`): with `Kept` as it is, sending the whole copy again
  repeats nothing. What a program holds follows from where it is in its command
  (`Holds`), and the counts of all atoms from what it holds (`Counted`). Values beyond the
  limits of a slot are stopped by the setters (`SettersAccept`) before they are sent. The
  assumptions are that what is typed are integers and that there are finitely many interfaces.

Only model-checked, and why:

- liveness needs fairness and ENABLED, which the prover does not handle:
  `SilentLeaves`, `OrphanFreed`, `CrowdedEmptied`, `CrowdedShown`, `ShownAgain`,
  `SendsEventually`, `CountersReach`, `Answered`, `TableServed`, `CallReturns`, `NeverAlone`,
  `LinksSettle`, `Resumes`;
- what a recursive function or a fold over data computes needs induction over data:
  `RoundTrip`, `Understood` and `DamagedRefused` (codecs), `WalkComplete` and
  `TrapAnswered` (ordered OIDs), `VlansOfMembers`, `ArgumentsComplete` (walk over the
  command tree);
- `SingleInSync` is `InSync` under the conditions of `ColumnInSync`, on the instance of
  its run.

## 7. What is not modelled

- Neighbour synchronization with OVSDB (`src/src/daemon/lldpd_ovsdb_if.c`, `src/src/daemon/lldpd.c`; partly): Change requests, lldpd_ovsdb_nbrs_run, lldpd_ovsdb_nbrs_change_all, the confirmed transaction and its retry, ageing of database entries, disabling of LLDP. The rows of the Interface table themselves are taken to exist.
- Interface configuration from OVSDB (`src/src/daemon/lldpd_ovsdb_if.c`, `src/src/daemon/lldpd.c`, `src/src/daemon/interfaces.c`; partly): Lifetimes of the entries of all_interfaces between rows and hardware, the direction and the link state, resets. Other columns of a row are left out.
- Statistics (`src/src/daemon/lldpd_ovsdb_if.c`; partly): One counter per interface with its recovery from the database, the transaction and the clear request in OvsdbIfaces; the totals over interfaces that the command line shows in GlobalConfig. The eight totals of the System row are left out.
- System, bridge and VRF configuration from OVSDB (`src/src/daemon/lldpd_ovsdb_if.c`; partly): Timers, hold, reinit, enabling, TLV selection, management addresses, capabilities and the clear request of the table. Identification strings are left out.
- vtysh commands (`src/src/cli/lldp_vty.c`; partly): Every command that changes a row, the read-modify-write of its transaction, and the running configuration it prints back. Tables for display are left out except the totals of show statistics.
- libevent and OVS poll loop integration (`src/src/daemon/lldpd_ovsdb_if.c`, `src/src/daemon/event.c`; not modelled): ovs_libevent_cb and ovspoll_to_libevent make events anew for every round of poll_block; which descriptors the OVS libraries wait for is decided outside the repository. The callbacks they run are the actions of the other modules.
- Control socket, daemon side (`src/src/daemon/client.c`, `src/src/daemon/event.c`, `src/src/ctl.c`; partly): Framing, the dispatch of requests, refusals, subscriptions and notifications in Ctl; the handlers that change the configuration and the ports in Settings. The answers that list interfaces, neighbours and the local system carry no contents.
- liblldpctl atoms (`src/src/lib/atom.c`, `src/src/lib/atom-private.c`; partly): Reference counts of the atoms that a change of a port or of the configuration creates, the copy they share, and the setters with their refusals. The getters that only read are left out.
- lldpcli (`src/src/client/commands.c`, `src/src/client/lldpcli.c`, `src/src/client/display.c`; partly): The command tree, its walk, completion and environment, and the functions behind the commands that change something. The writers of output are left out.
- Marshalling (`src/src/marshal.c`, `src/src/marshal.h`; not modelled): Serialization of pointer graphs, driven by tables that macros generate for every structure; a sound model needs the tables. Ctl takes what is unserialized to be what was serialized.
- Startup and life of the daemon (`src/src/daemon/lldpd.c`, `src/src/ctl.c`, `src/src/client/lldpcli.c`; partly): Making, checking and removing the control socket, pausing until lldpcli has read its configuration, leaving. Options, daemonizing and the pid file are left out.
- Interface discovery (`src/src/daemon/interfaces.c`, `src/src/daemon/interfaces-linux.c`, `src/src/daemon/netlink.c`, `src/src/daemon/pattern.c`; partly): The netlink dumps, white lists and patterns, bridges, bonds, VLANs, physical links, multicast membership, management addresses, and the refresh. MTU, media and wireless properties are left out.
- LLDP codec (`src/src/daemon/lldp.c`, `src/src/daemon/frame.h`; partly): lldp_send and lldp_decode, all TLVs, for frames that an lldpd has sent; frames of other origin, unknown TLVs and the counter of unrecognized ones are left out.
- CDP, EDP and SONMP codecs (`src/src/daemon/cdp.c`, `src/src/daemon/edp.c`, `src/src/daemon/sonmp.c`, `src/src/daemon/frame.c`; partly): Building and parsing of frames of CDP versions 1 and 2, FDP, EDP and SONMP, the checksum, the table of neighbours they end in; frames an lldpd has sent, lost or damaged in a byte.
- AgentX SNMP agent (`src/src/daemon/agent.c`, `src/src/daemon/agent_priv.c`; partly): The search for the next OID in every table, the handlers with missing values, and notifications. The connection to the master agent is in Privsep as one call.
- SNMP plugin for OVSDB (`src/src/snmp/lldpRemTable_interface.c`, `src/src/snmp/lldpRemTable_data_access.c`, `src/src/snmp/LLDP_MIB_traps.c`; partly): The ten tables with their caches and the scalars as reads of the replica, and the notifications to several receivers. The generated scaffolding around them is left out.
- BSD, OS X and Solaris ports (`src/src/daemon/interfaces-bsd.c`, `src/src/daemon/interfaces-solaris.c`, `src/src/daemon/priv-bsd.c`; not modelled): Not built with OVSDB; the Linux variants are the reference.
- Logging and compatibility code (`src/src/log.c`; not modelled): No protocol state.

Within the modelled parts: memory exhaustion (`calloc`, `event_new` failing)
is left out; it ends the daemon or leaves the operation undone in ways
the code only logs. Messages of the control socket above `HMSG_MAX_SIZE` are left
out: the daemon drops the client, the library discards its buffer and reports an error.
