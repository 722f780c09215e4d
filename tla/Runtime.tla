------------------------------ MODULE Runtime ------------------------------
(***************************************************************************)
(* One node process: the dispatcher goroutine (pkg/com/dispatcher.go), the *)
(* goroutine that closes its listener, the handler goroutine               *)
(* (internal/node/node.go) and main (cmd/node/main.go), which share the    *)
(* context and the channel recvChan.                                       *)
(***************************************************************************)
EXTENDS Integers, Sequences, FiniteSets

CONSTANTS
  ChanCap,        \* the capacity of recvChan; main makes it 1
  MaxArrivals     \* bound: connections peers and clients open

ASSUME BoundAssumption == ChanCap \in Nat /\ MaxArrivals \in Nat

VARIABLES
  backlog,     \* connections the kernel has accepted and Accept has not returned
  arrived,     \* history: how many connections have been opened
  valid,       \* history: those whose message, once complete, isValid accepts
  written,     \* the connections whose peer has written all it will, or closed
  listening,   \* the listener is open
  dispatcher,  \* where the goroutine of Run in dispatcher.go is
  msg,         \* the message it holds
  recvChan,
  handler,     \* where the goroutine of Run in node.go is
  current,     \* the message it handles
  handled,     \* history: the messages handled, in order
  ctxDone,     \* the context is cancelled
  afterCancel, \* history: how many messages were taken up since
  main         \* where main is

dispatcherVars == <<dispatcher, msg>>
handlerVars == <<handler, current, handled, afterCancel>>
vars == <<backlog, arrived, valid, written, listening, dispatcherVars, recvChan,
          handlerVars, ctxDone, main>>

\* What a connection carries: a routable message, one that does not decode or
\* fails isValid, or the control message that ends the node.
Kinds == {"message", "malformed", "SHUTDOWN"}
Connection == [id : Nat \ {0}, kind : Kinds]
None == [id |-> 0, kind |-> "malformed"]

Init ==
  /\ backlog = <<>> /\ arrived = 0 /\ valid = {} /\ written = {}
  /\ listening = FALSE
  /\ dispatcher = "listen" /\ msg = None
  /\ recvChan = <<>>
  /\ handler = "select" /\ current = None /\ handled = <<>>
  /\ ctxDone = FALSE /\ afterCancel = 0
  /\ main = "running"

-----------------------------------------------------------------------------
Ids(s) == {s[i].id : i \in DOMAIN s}
\* The connection or message the dispatcher holds.
InHand == IF dispatcher \in {"decode", "check", "push"} THEN {msg.id} ELSE {}

\* A peer or a client connects (com.Send dials); refused when nobody listens.
Arrive(kind) ==
  /\ listening /\ arrived < MaxArrivals
  /\ arrived' = arrived + 1
  /\ backlog' = Append(backlog, [id |-> arrived + 1, kind |-> kind])
  /\ valid' = IF kind = "malformed" THEN valid ELSE valid \cup {arrived + 1}
  /\ UNCHANGED <<written, listening, dispatcherVars, recvChan, handlerVars, ctxDone, main>>

\* The peer completes its message, or closes the connection.  com.Send does one or the
\* other; nothing makes any other peer do so.
Write(k) ==
  /\ k \in Ids(backlog) \cup InHand /\ k \notin written
  /\ written' = written \cup {k}
  /\ UNCHANGED <<backlog, arrived, valid, listening, dispatcherVars, recvChan,
                 handlerVars, ctxDone, main>>

-----------------------------------------------------------------------------
(***************************************************************************)
(* The dispatcher.                                                         *)
(***************************************************************************)
\* net.Listen may fail (the port is taken): Run returns, and nobody is told.
Listen ==
  /\ dispatcher = "listen"
  /\ \/ dispatcher' = "accept" /\ listening' = TRUE
     \/ dispatcher' = "failed" /\ UNCHANGED listening
  /\ UNCHANGED <<backlog, arrived, valid, written, msg, recvChan, handlerVars, ctxDone, main>>

\* Mutant of CloseListener: the listener is left open.
CloseListenerNot == ctxDone /\ listening /\ UNCHANGED vars

\* go func() { defer l.Close(); <-ctx.Done() }: the kernel drops the backlog.
CloseListener ==
  /\ ctxDone /\ listening
  /\ listening' = FALSE
  /\ backlog' = <<>>
  /\ UNCHANGED <<arrived, valid, written, dispatcherVars, recvChan, handlerVars, ctxDone, main>>

\* Mutant of Accept: the newest connection first.
AcceptNewest ==
  /\ dispatcher = "accept" /\ backlog # <<>>
  /\ backlog' = SubSeq(backlog, 1, Len(backlog) - 1)
  /\ msg' = backlog[Len(backlog)]
  /\ dispatcher' = "decode"
  /\ UNCHANGED <<arrived, valid, written, listening, recvChan, handlerVars, ctxDone, main>>

Accept ==
  /\ dispatcher = "accept" /\ backlog # <<>>
  /\ backlog' = Tail(backlog)
  /\ msg' = Head(backlog)
  /\ dispatcher' = "decode"
  /\ UNCHANGED <<arrived, valid, written, listening, recvChan, handlerVars, ctxDone, main>>

\* Accept fails with "use of closed network connection".
StopListening ==
  /\ dispatcher = "accept" /\ ~listening
  /\ dispatcher' = "stopped"
  /\ UNCHANGED <<backlog, arrived, valid, written, listening, msg, recvChan, handlerVars, ctxDone, main>>

\* Accept fails with any other error (no file descriptor is left): Run returns it, and
\* nobody accepts any more.  The listener stays open until the context is cancelled, so
\* connections go on arriving.
AcceptFails ==
  /\ dispatcher = "accept" /\ listening
  /\ dispatcher' = "failed"
  /\ UNCHANGED <<backlog, arrived, valid, written, listening, msg, recvChan, handlerVars, ctxDone, main>>

\* Mutant of Decode: a malformed message ends the accept loop.
DecodeStrict ==
  /\ dispatcher = "decode" /\ msg.id \in written
  /\ dispatcher' = IF msg.kind = "malformed" THEN "stopped" ELSE "check"
  /\ UNCHANGED <<backlog, arrived, valid, written, listening, msg, recvChan, handlerVars, ctxDone, main>>

\* Decode reads the connection without a deadline, and before the next Accept: it waits
\* for the peer.  What does not decode or fails isValid is dropped.
Decode ==
  /\ dispatcher = "decode" /\ msg.id \in written
  /\ dispatcher' = IF msg.kind = "malformed" THEN "accept" ELSE "check"
  /\ UNCHANGED <<backlog, arrived, valid, written, listening, msg, recvChan, handlerVars, ctxDone, main>>

\* Mutant of CheckContext: the sense of the test is wrong.
CheckContextInverted ==
  /\ dispatcher = "check"
  /\ dispatcher' = IF ctxDone THEN "push" ELSE "accept"
  /\ UNCHANGED <<backlog, arrived, valid, written, listening, msg, recvChan, handlerVars, ctxDone, main>>

\* Mutant of CheckContext: the context is not looked at.
CheckContextNever ==
  /\ dispatcher = "check"
  /\ dispatcher' = "push"
  /\ UNCHANGED <<backlog, arrived, valid, written, listening, msg, recvChan, handlerVars, ctxDone, main>>

\* select { case <-ctx.Done(): return; default: ... }, before the send blocks.
CheckContext ==
  /\ dispatcher = "check"
  /\ dispatcher' = IF ctxDone THEN "accept" ELSE "push"
  /\ UNCHANGED <<backlog, arrived, valid, written, listening, msg, recvChan, handlerVars, ctxDone, main>>

\* Mutant of Push: one message more than the channel holds.
PushOverfull ==
  /\ dispatcher = "push" /\ Len(recvChan) <= ChanCap
  /\ recvChan' = Append(recvChan, msg)
  /\ dispatcher' = "accept"
  /\ UNCHANGED <<backlog, arrived, valid, written, listening, msg, handlerVars, ctxDone, main>>

\* c.handleChan <- msg, which looks at the context no more.
Push ==
  /\ dispatcher = "push" /\ Len(recvChan) < ChanCap
  /\ recvChan' = Append(recvChan, msg)
  /\ dispatcher' = "accept"
  /\ UNCHANGED <<backlog, arrived, valid, written, listening, msg, handlerVars, ctxDone, main>>

-----------------------------------------------------------------------------
(***************************************************************************)
(* The handler.  With a message in the channel and the context cancelled   *)
(* its select picks either case.                                           *)
(***************************************************************************)
TakeMessage ==
  /\ handler = "select" /\ recvChan # <<>>
  /\ handler' = "handling"
  /\ current' = Head(recvChan)
  /\ recvChan' = Tail(recvChan)
  /\ afterCancel' = IF ctxDone THEN afterCancel + 1 ELSE afterCancel
  /\ UNCHANGED <<backlog, arrived, valid, written, listening, dispatcherVars, handled, ctxDone, main>>

\* handle returns; SHUTDOWN has called h.exit, the cancelCtx of main.
Handle ==
  /\ handler = "handling"
  /\ handler' = "select"
  /\ handled' = Append(handled, current.id)
  /\ ctxDone' = (ctxDone \/ current.kind = "SHUTDOWN")
  /\ UNCHANGED <<backlog, arrived, valid, written, listening, dispatcherVars, recvChan,
                 current, afterCancel, main>>

\* A handler that does not return: it waits for a mutex that is never released (echoLock,
\* consensus_ext.go:293), or for a peer that does not read what com.Send writes.  SHUTDOWN
\* waits for nothing.
HandlerHangs ==
  /\ handler = "handling" /\ current.kind # "SHUTDOWN"
  /\ handler' = "blocked"
  /\ UNCHANGED <<backlog, arrived, valid, written, listening, dispatcherVars, recvChan,
                 current, handled, afterCancel, ctxDone, main>>

HandlerStops ==
  /\ handler = "select" /\ ctxDone
  /\ handler' = "stopped"
  /\ UNCHANGED <<backlog, arrived, valid, written, listening, dispatcherVars, recvChan,
                 current, handled, afterCancel, ctxDone, main>>

-----------------------------------------------------------------------------
(***************************************************************************)
(* main: an interrupt cancels the context; then wg.Wait.                   *)
(***************************************************************************)
Interrupt ==
  /\ main = "running"
  /\ ctxDone' = TRUE
  /\ main' = "waiting"
  /\ UNCHANGED <<backlog, arrived, valid, written, listening, dispatcherVars, recvChan, handlerVars>>

SeeCancel ==
  /\ main = "running" /\ ctxDone
  /\ main' = "waiting"
  /\ UNCHANGED <<backlog, arrived, valid, written, listening, dispatcherVars, recvChan, handlerVars, ctxDone>>

Exit ==
  /\ main = "waiting" /\ dispatcher \in {"stopped", "failed"} /\ handler = "stopped"
  /\ main' = "exited"
  /\ UNCHANGED <<backlog, arrived, valid, written, listening, dispatcherVars, recvChan, handlerVars, ctxDone>>

Dispatch == Listen \/ Accept \/ StopListening \/ Decode \/ CheckContext \/ Push
Handling == TakeMessage \/ Handle \/ HandlerStops
Ending == SeeCancel \/ Exit

Next ==
  \/ \E kind \in Kinds : Arrive(kind)
  \/ \E k \in 1 .. MaxArrivals : Write(k)
  \/ Dispatch \/ AcceptFails \/ CloseListener
  \/ Handling \/ HandlerHangs
  \/ Interrupt \/ Ending

Spec == Init /\ [][Next]_vars

\* The Go scheduler runs every goroutine that can run.  Peers need never write, and Accept
\* need never fail.  A handler goes on or hangs: that it returns is not assumed.
Fairness ==
  /\ WF_vars(Dispatch) /\ WF_vars(CloseListener)
  /\ WF_vars(Handling \/ HandlerHangs) /\ WF_vars(Ending)
LiveSpec == Spec /\ Fairness

-----------------------------------------------------------------------------
(***************************************************************************)
(* Properties.                                                             *)
(***************************************************************************)
TypeOK ==
  /\ backlog \in Seq(Connection)
  /\ arrived \in 0 .. MaxArrivals
  /\ valid \in SUBSET (Nat \ {0}) /\ written \in SUBSET (1 .. MaxArrivals)
  /\ listening \in BOOLEAN
  /\ dispatcher \in {"listen", "accept", "decode", "check", "push", "stopped", "failed"}
  /\ msg \in Connection \cup {None}
  /\ recvChan \in Seq(Connection) /\ Len(recvChan) <= ChanCap
  /\ handler \in {"select", "handling", "blocked", "stopped"}
  /\ current \in Connection \cup {None}
  /\ handled \in Seq(Nat)
  /\ ctxDone \in BOOLEAN
  /\ afterCancel \in Nat
  /\ main \in {"running", "waiting", "exited"}

InHandling == IF handler \in {"handling", "blocked"} THEN {current.id} ELSE {}
HandledIds == {handled[i] : i \in DOMAIN handled}

\* The channels the other modules assume: a node handles messages in the order
\* their connections were opened, none twice.
HandledInOrder == \A i, j \in DOMAIN handled : i < j => handled[i] < handled[j]

\* Until the context is cancelled no valid message is lost on its way through the
\* dispatcher, the channel and the handler.
NothingLost ==
  ~ctxDone => valid \subseteq HandledIds \cup InHandling \cup Ids(recvChan) \cup InHand \cup Ids(backlog)

\* Once the context is cancelled the handler takes up no more than what the
\* channel holds and the one message the dispatcher is about to send.
CancelIsFinal == afterCancel <= ChanCap + 1

\* What can hold up a process that the scheduler treats fairly: a peer that does not
\* complete the message being read, a handler that does not return, an accept loop that
\* has failed.
PeerSilent == dispatcher = "decode" /\ msg.id \notin written
HandlerBlocked == handler = "blocked"
Deaf == dispatcher = "failed"

\* Every valid message that has been written is handled, unless the node is stopped or one of
\* these three holds it up for ever; neither malformed messages nor a full channel do.
EveryMessageHandled ==
  \A k \in 1 .. MaxArrivals :
    k \in valid \cap written ~>
      \/ k \in HandledIds \/ ctxDone
      \/ []PeerSilent \/ []HandlerBlocked \/ []Deaf

\* A cancelled node exits, unless a silent peer or a handler holds it up for ever, or the
\* dispatcher had passed its check of the context and the handler stopped with the channel
\* full.
PushBlocked == dispatcher = "push" /\ handler = "stopped" /\ Len(recvChan) = ChanCap
ExitsUnlessBlocked ==
  ctxDone ~> main = "exited" \/ []PeerSilent \/ []HandlerBlocked \/ []PushBlocked

\* README.md:66 has dispatcher and handler "terminate gracefully": so they should at least
\* when every peer completes what it writes and every handler returns.
TerminatesGracefully ==
  []<>~PeerSilent /\ []~HandlerBlocked => (ctxDone ~> main = "exited")
=============================================================================
