-------------------------------- MODULE Ctl --------------------------------
(***************************************************************************)
(* A program talks to lldpd over the control socket with liblldpctl: one   *)
(* request at a time, each answered by one message, and after a            *)
(* subscription notifications that the daemon sends whenever a neighbour   *)
(* changes, also between a request and its answer. Both directions are     *)
(* byte streams in which a message is a header followed by its payload.    *)
(*                                                                         *)
(* A stream is a sequence of parts, a header or the payload of a message.  *)
(* The program uses either the library's synchronous callbacks or its own  *)
(* asynchronous ones; then it calls lldpctl_process_conn_buffer as long as *)
(* that finds something, as src/lib/lldpctl.h asks. A connection that had  *)
(* an error is followed until lldpctl_release; what a program that keeps   *)
(* it (lldpcli) meets next is in module Settings. No message is larger     *)
(* than HMSG_MAX_SIZE: what either side does with one that is (the daemon  *)
(* frees its client, the library throws its buffer away) is left out.      *)
(***************************************************************************)
EXTENDS Integers, Sequences, FiniteSetsExt

CONSTANTS
  Modes,         \* subset of {"sync", "async"}
  MaxRequests,   \* bound on requests
  MaxNotes,      \* bound on notifications
  MaxConns       \* bound on connections

ASSUME CtlAssumption ==
  /\ Modes \subseteq {"sync", "async"}
  /\ MaxRequests \in Nat /\ MaxNotes \in Nat /\ MaxConns \in Nat

VARIABLES
  mode,       \* which callbacks the program uses
  conn,       \* lldpctl_conn_t
  toServer,   \* the socket
  toClient,
  open,       \* both ends hold the socket
  client,     \* lldpd_one_client
  asked,      \* requests made so far, which number them
  answered,   \* the request whose answer was last accepted
  sent,       \* notifications for the current connection
  delivered,  \* notifications for which watch_cb was called
  conns       \* connections so far

vars == <<mode, conn, toServer, toClient, open, client, asked, answered,
          sent, delivered, conns>>

\* A request of type "get" has no payload but its answer has; "set" is the
\* opposite; "subscribe" has none. A refusal is an answer of type "none".
Requests == {"get", "set", "subscribe"}
Types == Requests \cup {"none", "notification"}

NewConn == [state |-> "idle", want |-> "none", in |-> <<>>, watch |-> FALSE,
            watching |-> FALSE, failed |-> FALSE]
NewClient == [subscribed |-> FALSE, in |-> <<>>]

Init ==
  /\ mode \in Modes
  /\ conn = NewConn /\ client = NewClient /\ open = TRUE
  /\ toServer = <<>> /\ toClient = <<>>
  /\ asked = 0 /\ answered = 0
  /\ sent = <<>> /\ delivered = <<>> /\ conns = 1

-----------------------------------------------------------------------------
\* Messages in buffers.

\* (mutants) The payload does not follow; the length counts the header, too.
EncodedHeader(type, id, len) == <<[type |-> type, id |-> id, len |-> len]>>

\* ctl_msg_send_unserialized and levent_ctl_send: a header with the length,
\* then the payload.
Encoded(type, id, len) ==
  LET m == [type |-> type, id |-> id, len |-> len] IN [i \in 1 .. 1 + len |-> m]

Missing(in) == IF in = <<>> THEN 1 ELSE 1 + Head(in).len - Len(in)

Complete(in) == Missing(in) <= 0

\* (mutant) Everything is dropped with the first message.
RestNone(in) == <<>>

Rest(in) == SubSeq(in, 2 + Head(in).len, Len(in))

\* Notifications at the front of a buffer, complete ones only; a notification
\* has two parts.
Leading(in) ==
  Max({k \in 0 .. Len(in) \div 2 : \A i \in 1 .. 2 * k : in[i].type = "notification"})

\* check_for_notification called n times, or as long as it succeeds.
Checked(in, n) == Min({n, Leading(in)})

-----------------------------------------------------------------------------
\* The program and the library.

\* check_for_notification on a buffer: what remains, and the callbacks made
\* (none without watch_cb; the notification is consumed all the same).
Process(in, n) ==
  LET k == Checked(in, n) IN
  /\ conn' = [conn EXCEPT !.in = SubSeq(in, 2 * k + 1, Len(in)),
                          !.watching = @ /\ ~(k > 0 /\ conn.watch)]
  /\ delivered' = IF conn.watch THEN delivered \o [i \in 1 .. k |-> in[2 * i].id]
                  ELSE delivered

\* _lldpctl_do_something in the idle state: the message is built and sent, and
\* the connection waits for an answer of the same type. A program with its own
\* callbacks has looked for notifications before.
Request(type) ==
  /\ conn.state = "idle" /\ ~conn.failed /\ ~conn.watching /\ open
  /\ mode = "async" => Leading(conn.in) = 0
  /\ asked < MaxRequests
  /\ asked' = asked + 1
  /\ toServer' = toServer \o Encoded(type, asked', IF type = "set" THEN 1 ELSE 0)
  /\ conn' = [conn EXCEPT !.state = "recv", !.want = type]
  /\ UNCHANGED <<mode, toClient, open, client, answered, sent, delivered, conns>>

\* lldpctl_watch: synchronous programs wait for notifications.
Watch ==
  /\ mode = "sync" /\ conn.watch
  /\ conn.state = "idle" /\ ~conn.failed /\ ~conn.watching
  /\ conn' = [conn EXCEPT !.watching = TRUE]
  /\ UNCHANGED <<mode, toServer, toClient, open, client, asked, answered, sent,
                 delivered, conns>>

\* sync_recv reads exactly what _lldpctl_needs asks for: the rest of the header
\* or message when an answer is expected, one part at a time in lldpctl_watch.
Read ==
  LET n == IF conn.watching THEN 1 ELSE Missing(conn.in) IN
  /\ mode = "sync" /\ ~conn.failed
  /\ conn.watching \/ (conn.state = "recv" /\ ~Complete(conn.in))
  /\ Len(toClient) >= n
  /\ toClient' = SubSeq(toClient, n + 1, Len(toClient))
  /\ Process(conn.in \o SubSeq(toClient, 1, n), 1)
  /\ UNCHANGED <<mode, toServer, open, client, asked, answered, sent, conns>>

\* lldpctl_recv with whatever has arrived, then lldpctl_process_conn_buffer
\* until it has nothing more.
Arrive ==
  /\ mode = "async" /\ ~conn.failed
  /\ \E n \in 1 .. Len(toClient) :
       /\ toClient' = SubSeq(toClient, n + 1, Len(toClient))
       /\ LET in == conn.in \o SubSeq(toClient, 1, n) IN Process(in, Len(in))
  /\ UNCHANGED <<mode, toServer, open, client, asked, answered, sent, conns>>

\* lldpctl_process_conn_buffer after an answer was taken from the buffer.
ProcessConnBuffer ==
  /\ mode = "async" /\ ~conn.failed /\ conn.state = "idle" /\ Leading(conn.in) > 0
  /\ Process(conn.in, Len(conn.in))
  /\ UNCHANGED <<mode, toServer, toClient, open, client, asked, answered, sent, conns>>

\* ctl_msg_recv_unserialized: the type and, where one is expected, the payload.
Acceptable(m) == m.type = conn.want /\ (conn.want = "get" => m.len > 0)

\* _lldpctl_do_something with a complete message: it ends the request, or is
\* discarded with an error. lldpctl_watch_callback sets watch_cb.
TakeAnswer ==
  /\ conn.state = "recv" /\ ~conn.failed /\ Complete(conn.in)
  /\ LET m == Head(conn.in) IN
     IF Acceptable(m)
     THEN /\ conn' = [conn EXCEPT !.state = "idle", !.in = Rest(conn.in),
                                  !.watch = @ \/ conn.want = "subscribe"]
          /\ answered' = m.id
     ELSE /\ conn' = [conn EXCEPT !.in = Rest(conn.in), !.failed = TRUE]
          /\ UNCHANGED answered
  /\ UNCHANGED <<mode, toServer, toClient, open, client, asked, sent, delivered, conns>>

\* The socket was closed by the daemon and has no more data: LLDPCTL_ERR_EOF.
Eof ==
  /\ ~open /\ ~conn.failed
  /\ conn.watching \/ conn.state = "recv"
  /\ Len(toClient) < IF conn.watching THEN 1 ELSE Missing(conn.in)
  /\ conn' = [conn EXCEPT !.failed = TRUE]
  /\ UNCHANGED <<mode, toServer, toClient, open, client, asked, answered, sent,
                 delivered, conns>>

\* lldpctl_release and a new connection; lldpd sees the end of the old one and
\* frees its client (levent_ctl_event), then accepts the new one.
Reconnect ==
  /\ ~conn.watching \/ conn.failed
  /\ conns < MaxConns
  /\ conns' = conns + 1
  /\ conn' = NewConn /\ client' = NewClient /\ open' = TRUE
  /\ toServer' = <<>> /\ toClient' = <<>>
  /\ sent' = <<>> /\ delivered' = <<>>
  /\ UNCHANGED <<mode, asked, answered>>

-----------------------------------------------------------------------------
\* The daemon.

\* (mutant) The next handler in the table answers, too.
ReplyTwice(m) ==
  LET answer == Encoded(m.type, m.id, IF m.type = "get" THEN 1 ELSE 0)
  IN toClient' = toClient \o answer \o answer

\* client_handle_client: the handler's answer, or a refusal (the values cannot
\* be unserialized, the interface does not exist).
Reply(m) ==
  \/ toClient' = toClient \o Encoded(m.type, m.id, IF m.type = "get" THEN 1 ELSE 0)
  \/ m.type # "subscribe" /\ toClient' = toClient \o Encoded("none", m.id, 0)

\* levent_ctl_recv: data has arrived; one complete message is handled.
CtlRecv ==
  /\ open
  /\ \E n \in 1 .. Len(toServer) :
       LET in == client.in \o SubSeq(toServer, 1, n) IN
       /\ toServer' = SubSeq(toServer, n + 1, Len(toServer))
       /\ IF Complete(in)
          THEN /\ client' = [in |-> Rest(in),
                             subscribed |-> client.subscribed \/ Head(in).type = "subscribe"]
               /\ Reply(Head(in))
          ELSE client' = [client EXCEPT !.in = in] /\ UNCHANGED toClient
  /\ UNCHANGED <<mode, conn, open, asked, answered, sent, delivered, conns>>

\* levent_ctl_notify.
CtlNotify ==
  /\ open /\ client.subscribed
  /\ Len(sent) < MaxNotes
  /\ sent' = Append(sent, Len(sent) + 1)
  /\ toClient' = toClient \o Encoded("notification", Len(sent'), 1)
  /\ UNCHANGED <<mode, conn, toServer, open, client, asked, answered, delivered, conns>>

\* lldpd ends. What it had written can still be read.
ServerEnds ==
  /\ open
  /\ open' = FALSE
  /\ UNCHANGED <<mode, conn, toServer, toClient, client, asked, answered, sent,
                 delivered, conns>>

Next ==
  \/ \E type \in Requests : Request(type)
  \/ Watch \/ Read \/ Arrive \/ ProcessConnBuffer \/ TakeAnswer \/ Eof \/ Reconnect
  \/ CtlRecv \/ CtlNotify \/ ServerEnds

Spec == Init /\ [][Next]_vars

\* Both event loops keep running. A synchronous program that has subscribed
\* calls lldpctl_watch when it has nothing else to do.
FairSpec ==
  /\ Spec
  /\ WF_vars(Read) /\ WF_vars(Arrive) /\ WF_vars(ProcessConnBuffer)
  /\ WF_vars(TakeAnswer) /\ WF_vars(Eof) /\ WF_vars(CtlRecv) /\ WF_vars(Watch)

-----------------------------------------------------------------------------
Messages == [type : Types, id : Nat, len : {0, 1}]

\* The variables have their types; a program that waits in lldpctl_watch has no
\* request under way.
TypeOK ==
  /\ mode \in Modes
  /\ conn.state \in {"idle", "recv"} /\ conn.want \in Requests \cup {"none"}
  /\ conn.in \in Seq(Messages) /\ client.in \in Seq(Messages)
  /\ toServer \in Seq(Messages) /\ toClient \in Seq(Messages)
  /\ conn.watching => conn.state = "idle" /\ conn.watch
  /\ asked \in 0 .. MaxRequests /\ answered \in 0 .. asked
  /\ conns \in 1 .. MaxConns

\* An answer the library accepts is the answer to the request just made, with
\* notifications and refusals in between and after new connections
\* (_lldpctl_do_something, ctl_msg_recv_unserialized).
OwnAnswer ==
  conn.state = "idle" /\ conn.want # "none" => answered = asked

\* Notifications reach watch_cb in the order they were sent, none twice and
\* none left out: those not yet delivered are in the library's buffer or in the
\* socket, also those that come right behind the answer to the subscription
\* (lldpctl_recv, check_for_notification). A connection that failed is given up.
InOrder ==
  LET buffered == conn.in \o toClient
      notes == {i \in DOMAIN buffered : buffered[i].type = "notification"}
      pending == Len(delivered) + 1 .. Len(sent)
  IN ~conn.failed =>
       /\ Len(delivered) <= Len(sent) /\ \A i \in DOMAIN delivered : delivered[i] = sent[i]
       /\ \A i \in notes : buffered[i].id \in pending
       /\ \A n \in pending : \E i \in notes : {j \in notes : buffered[j].id = n} = {i, i + 1}
       /\ \A i, j \in notes : i <= j => buffered[i].id <= buffered[j].id

\* A request ends: with its answer, with an error, or with its connection; only
\* then another one begins (_lldpctl_do_something).
Answered == conn.state = "recv" ~> (conn.state = "idle" \/ conn.failed)

=============================================================================
