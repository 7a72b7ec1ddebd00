------------------------------ MODULE TxTimer ------------------------------
(***************************************************************************)
(* When lldpd transmits on one interface. A libevent timer of the hardware *)
(* (h_timer) calls levent_send_pdu, which arms it again. Changes of the    *)
(* port and new LLDP-MED neighbours arm it at once (levent_schedule_pdu);  *)
(* configuration changes make the timers of all interfaces run at once     *)
(* (levent_send_now). After the link comes up the next run of the timer is *)
(* spent on waiting for the reinit delay.                                  *)
(*                                                                         *)
(* Time advances by seconds. left is the receiver's side: how long the     *)
(* neighbour still keeps what was transmitted last.                        *)
(***************************************************************************)
EXTENDS Integers

CONSTANTS
  Width,         \* 2^16: c_ttl is a u_int16_t
  Intervals,     \* values of lldp_tx_interval in the database, in its limits
  Holds,         \* values of lldp_hold in the database, in its limits
  ClientTx,      \* pairs of interval and hold that lldpcli may ask for
  Reinits,       \* values of lldp_reinit
  FastInit,      \* c_tx_fast_init
  FastIntervals  \* values of c_tx_fast_interval

ASSUME TxAssumption ==
  /\ Width \in Nat \ {0}
  /\ Intervals \subseteq 1 .. Width - 1
  /\ Holds \subseteq Nat \ {0}
  /\ ClientTx \subseteq (Nat \ {0}) \X (Nat \ {0})
  /\ Reinits \subseteq Nat
  /\ FastInit \in Nat \ {0}
  /\ FastIntervals \subseteq Nat \ {0}

VARIABLES
  timer,    \* seconds until h_timer runs
  reinit,   \* h_reinit_delay
  fast,     \* h_tx_fast
  fastIvl,  \* c_tx_fast_interval
  interval, \* c_tx_interval
  hold,     \* c_tx_hold
  ttl,      \* c_ttl of the local chassis
  blocked,  \* what keeps lldpd_send from transmitting
  left,     \* seconds until the neighbour forgets the last PDU
  steady,   \* nothing was in the way of transmission since the last PDU
  wait,     \* seconds of the reinit delay left, if nobody asked for a PDU since
  fastSent, \* PDUs transmitted since fast start was entered
  slow      \* the timer was armed with a fast interval above the lifetime

config == <<interval, hold, ttl, fastIvl>>
history == <<left, steady, wait, fastSent, slow>>
txVars == <<timer, reinit, fast, config, blocked, history>>

Reasons == {"paused", "dir", "link", "running"}

MinOf(a, b) == IF a < b THEN a ELSE b

\* The database path clamps the product, the client path lets it wrap.
DbTtl(i, h) == MinOf(Width - 1, i * h)

ClientTtl(i, h) == (i * h) % Width

TxTypeOK ==
  /\ timer \in Nat /\ reinit \in Nat /\ left \in Nat /\ wait \in Nat
  /\ fast \in 0 .. FastInit /\ fastSent \in Nat
  /\ interval \in Nat \ {0} /\ hold \in Nat \ {0} /\ fastIvl \in FastIntervals
  /\ ttl \in 0 .. Width - 1
  /\ blocked \subseteq Reasons
  /\ steady \in BOOLEAN /\ slow \in BOOLEAN

\* A new lldpd_hardware: lldpd_reset_timer sees a change and schedules.
TxInit ==
  /\ timer = 0 /\ reinit = 0 /\ fast = 0
  /\ interval \in Intervals /\ hold \in Holds /\ fastIvl \in FastIntervals
  /\ ttl = DbTtl(interval, hold)
  /\ blocked \in SUBSET (Reasons \ {"paused"})
  /\ left = 0 /\ steady = FALSE /\ wait = 0 /\ fastSent = 0 /\ slow = FALSE

\* lldpd_send: the returns before the loop over the protocols.
CanSend == blocked = {}

LldpdSend ==
  IF CanSend
  THEN left' = ttl /\ steady' = TRUE /\ fastSent' = IF fast > 0 THEN fastSent + 1 ELSE 0
  ELSE UNCHANGED <<left, steady, fastSent>>

\* (mutant) the timer is armed with the hold time.
RearmHold ==
  /\ fast' = IF fast > 0 THEN fast - 1 ELSE 0
  /\ timer' = IF fast' > 0 THEN fastIvl ELSE interval * hold + 1
  /\ slow' = (fast' > 0 /\ fastIvl > ttl)

\* levent_send_pdu after lldpd_send: one PDU less to send fast, next timer.
Rearm ==
  /\ fast' = IF fast > 0 THEN fast - 1 ELSE 0
  /\ timer' = IF fast' > 0 THEN fastIvl ELSE interval
  /\ slow' = (fast' > 0 /\ fastIvl > ttl)

\* (mutant) the delay is consumed without waiting.
DelayNone ==
  /\ timer' = 0
  /\ reinit' = 0
  /\ UNCHANGED <<fast, config, blocked, history>>

\* (mutant) h_reinit_delay is not reset.
DelayForever ==
  /\ timer' = reinit
  /\ UNCHANGED <<reinit, fast, config, blocked, history>>

\* levent_send_pdu with a reinit delay: one second less, since the netlink
\* handler that may have brought the change was itself a second late.
Delay ==
  /\ timer' = reinit - 1
  /\ reinit' = 0
  /\ UNCHANGED <<fast, config, blocked, history>>

SendPdu ==
  /\ timer = 0
  /\ \/ reinit > 0 /\ Delay
     \/ reinit = 0 /\ LldpdSend /\ Rearm /\ UNCHANGED <<reinit, config, blocked, wait>>

Tick ==
  /\ timer > 0
  /\ timer' = timer - 1
  /\ left' = IF left > 0 THEN left - 1 ELSE 0
  /\ wait' = IF wait > 0 THEN wait - 1 ELSE 0
  /\ UNCHANGED <<reinit, fast, config, blocked, steady, fastSent, slow>>

\* levent_schedule_pdu and levent_send_now; event_active of a timer that is
\* not persistent takes the pending timeout off as well.
SchedulePdu == timer' = 0

\* The same for another reason than the link.
Ask == SchedulePdu /\ wait' = 0

Block(r) == blocked' = blocked \cup {r} /\ steady' = FALSE

Unblock(r) == blocked' = blocked \ {r} /\ UNCHANGED steady

\* lldpd_reconfigure, link state of the interface.
LinkUp ==
  /\ "link" \in blocked
  /\ Unblock("link")
  /\ \E r \in Reinits : reinit' = r /\ wait' = IF r > 0 THEN r - 1 ELSE 0
  /\ SchedulePdu
  /\ UNCHANGED <<fast, config, left, fastSent, slow>>

LinkDown ==
  /\ "link" \notin blocked
  /\ Block("link")
  /\ SchedulePdu
  /\ UNCHANGED <<reinit, fast, config, left, wait, fastSent, slow>>

\* Interface or another interface reconfigured, retransmission requested.
SendNow ==
  /\ Ask
  /\ UNCHANGED <<reinit, fast, config, blocked, left, steady, fastSent, slow>>

\* Pause and resume by a client, enabled direction changed by the database.
Toggle(r) ==
  /\ IF r \in blocked THEN Unblock(r) ELSE Block(r)
  /\ Ask
  /\ UNCHANGED <<reinit, fast, config, left, fastSent, slow>>

\* lldpd_update_localports: flags are read again, and the timer runs at
\* once if what would be transmitted has changed.
UpdatePorts ==
  /\ Block("running") \/ Unblock("running")
  /\ Ask \/ UNCHANGED <<timer, wait>>
  /\ UNCHANGED <<reinit, fast, config, left, fastSent, slow>>

\* lldpd_decode: a new neighbour with LLDP-MED, fast start enabled or not.
MedNeighbor ==
  /\ \/ fast = 0 /\ fast' = FastInit /\ fastSent' = 0
     \/ UNCHANGED <<fast, fastSent>>
  /\ Ask
  /\ UNCHANGED <<reinit, config, blocked, left, steady, slow>>

\* lldpd_apply_global_changes.
DbConfig ==
  /\ interval' \in Intervals /\ hold' \in Holds
  /\ <<interval', hold'>> # <<interval, hold>>
  /\ ttl' = DbTtl(interval', hold')
  /\ Ask
  /\ UNCHANGED <<reinit, fast, fastIvl, blocked, left, steady, fastSent, slow>>

\* client_handle_set_configuration: the timer is left alone.
ClientConfig ==
  /\ \E p \in ClientTx : interval' = p[1] /\ hold' = p[2]
  /\ <<interval', hold'>> # <<interval, hold>>
  /\ ttl' = ClientTtl(interval', hold')
  /\ UNCHANGED <<timer, reinit, fast, fastIvl, blocked, history>>

ClientFast ==
  /\ fastIvl' \in FastIntervals \ {fastIvl}
  /\ UNCHANGED <<timer, reinit, fast, interval, hold, ttl, blocked, history>>

TxNext ==
  \/ SendPdu \/ Tick \/ LinkUp \/ LinkDown \/ SendNow \/ UpdatePorts
  \/ \E r \in {"paused", "dir"} : Toggle(r)
  \/ MedNeighbor \/ DbConfig \/ ClientConfig \/ ClientFast

TxSpec == TxInit /\ [][TxNext]_txVars

\* The event loop runs due timers, and time passes while none is due.
TxFairSpec == TxSpec /\ WF_txVars(SendPdu) /\ WF_txVars(Tick)

----------------------------------------------------------------------------
\* While nothing is in the way of transmission, the timer runs before the
\* neighbour forgets the last PDU, whatever happens to the interval, the hold
\* and the delay in between, and in fast start as long as the fast interval is
\* not above the lifetime: the code takes any positive fast interval from a
\* client and compares it with nothing (levent_send_pdu, c_ttl).
KeptAlive == steady => timer <= left \/ (slow /\ fast > 0)

\* Entering fast start is worth at most c_tx_fast_init PDUs, however many
\* neighbours appear meanwhile (lldpd_decode, levent_send_pdu).
FastStops == fast > 0 => fastSent + fast <= FastInit

\* The first PDU after the link came up waits for the reinit delay, less the
\* second that levent_send_pdu takes off, unless something else than a link
\* asks for a PDU meanwhile; links may flap (h_reinit_delay).
QuietAfterUp == [][~steady /\ steady' => wait = 0]_txVars

\* An interface that can transmit does so after a while: no event loses the
\* timer or postpones it for ever (levent_send_pdu arms it on every path).
SendsEventually == CanSend ~> steady \/ ~CanSend

=============================================================================
