--------------------------- MODULE RuntimeProofs ---------------------------
(***************************************************************************)
(* What a node process promises for every capacity of recvChan and every   *)
(* number of connections.                                                  *)
(*                                                                         *)
(* A message passes five places in turn: backlog, the dispatcher's hands,  *)
(* recvChan, the handler's hands, and the list of those handled.  The      *)
(* inductive invariant says that ids ascend within the three that are      *)
(* sequences (Sorted), and from each place to those upstream of it (Staged).*)
(***************************************************************************)
EXTENDS Runtime, TLAPS

Ascending(s) == \A i, j \in DOMAIN s : i < j => s[i].id < s[j].id
Before(S, T) == \A a \in S, b \in T : a < b

\* The dispatcher holds nothing but what it has accepted.
Held == dispatcher \in {"decode", "check", "push"} => msg \in Connection
TypeInv == TypeOK /\ Held

Sorted == HandledInOrder /\ Ascending(recvChan) /\ Ascending(backlog)

Staged ==
  /\ Before(HandledIds, InHandling) /\ Before(HandledIds, Ids(recvChan))
  /\ Before(HandledIds, InHand)     /\ Before(HandledIds, Ids(backlog))
  /\ Before(InHandling, Ids(recvChan)) /\ Before(InHandling, InHand)
  /\ Before(InHandling, Ids(backlog))
  /\ Before(Ids(recvChan), InHand)  /\ Before(Ids(recvChan), Ids(backlog))
  /\ Before(InHand, Ids(backlog))

\* An id stays in play only if its connection was opened.
Opened ==
  HandledIds \cup InHandling \cup Ids(recvChan) \cup InHand \cup Ids(backlog) \cup valid
    \subseteq 1 .. arrived

OrderInv == TypeInv /\ Sorted /\ Staged /\ Opened

\* What isValid drops was never counted as valid.
Malformed ==
  /\ \A i \in DOMAIN backlog : backlog[i].kind = "malformed" => backlog[i].id \notin valid
  /\ dispatcher = "decode" /\ msg.kind = "malformed" => msg.id \notin valid

\* Before the context is cancelled nothing counts; afterwards only what is in the
\* channel, or past the dispatcher's check, is left to be taken up.
Pushing == IF dispatcher = "push" THEN 1 ELSE 0
Budget ==
  /\ ~ctxDone => afterCancel = 0
  /\ ctxDone => afterCancel + Len(recvChan) + Pushing <= ChanCap + 1

-----------------------------------------------------------------------------
\* The first element and the rest of a sequence that is not empty.
LEMMA Uncons ==
  ASSUME NEW S, NEW s \in Seq(S), s # <<>>
  PROVE  /\ Head(s) = s[1] /\ 1 \in DOMAIN s /\ Head(s) \in S
         /\ Tail(s) \in Seq(S) /\ Len(Tail(s)) = Len(s) - 1
         /\ \A i \in DOMAIN Tail(s) : i \in Nat /\ i >= 1 /\ i + 1 \in DOMAIN s /\ Tail(s)[i] = s[i + 1]
         /\ \A i \in DOMAIN s : i \in Nat /\ (i = 1 \/ i - 1 \in DOMAIN Tail(s))
  OBVIOUS

\* An appended element comes last.
LEMMA Append1 ==
  ASSUME NEW S, NEW s \in Seq(S), NEW x \in S
  PROVE  /\ Append(s, x) \in Seq(S) /\ Len(Append(s, x)) = Len(s) + 1
         /\ \A i \in DOMAIN Append(s, x) :
              \/ i \in DOMAIN s /\ Append(s, x)[i] = s[i]
              \/ i = Len(s) + 1 /\ Append(s, x)[i] = x
         /\ \A i \in DOMAIN s : i \in Nat /\ i <= Len(s) /\ i \in DOMAIN Append(s, x) /\ Append(s, x)[i] = s[i]
         /\ Len(s) + 1 \in DOMAIN Append(s, x) /\ Append(s, x)[Len(s) + 1] = x
  OBVIOUS

\* The ids of a sequence that gains or loses an element.
LEMMA IdsUncons ==
  ASSUME NEW s \in Seq(Connection), s # <<>>
  PROVE  /\ Ids(s) = {Head(s).id} \cup Ids(Tail(s))
         /\ Ascending(s) => Ascending(Tail(s)) /\ Before({Head(s).id}, Ids(Tail(s)))
<1>1. Ids(s) \subseteq {Head(s).id} \cup Ids(Tail(s))
  <2> SUFFICES ASSUME NEW i \in DOMAIN s
               PROVE  s[i].id \in {Head(s).id} \cup Ids(Tail(s))
    BY DEF Ids
  <2>1. CASE i = 1
    BY <2>1, Uncons
  <2>2. CASE i - 1 \in DOMAIN Tail(s)
    <3>1. Tail(s)[i - 1] = s[i]
      BY <2>2, Uncons
    <3> QED
      BY <2>2, <3>1 DEF Ids
  <2> QED
    BY <2>1, <2>2, Uncons
<1>2. {Head(s).id} \cup Ids(Tail(s)) \subseteq Ids(s)
  BY Uncons DEF Ids
<1>3. ASSUME Ascending(s)
      PROVE  Ascending(Tail(s)) /\ Before({Head(s).id}, Ids(Tail(s)))
  <2>1. \A i \in DOMAIN Tail(s) : i \in Nat /\ i >= 1 /\ i + 1 \in DOMAIN s /\ Tail(s)[i] = s[i + 1]
    BY Uncons
  <2>2. Ascending(Tail(s))
    BY <1>3, <2>1 DEF Ascending
  <2>3. \A i \in DOMAIN Tail(s) : Head(s).id < Tail(s)[i].id
    BY <1>3, <2>1, Uncons DEF Ascending
  <2> QED
    BY <2>2, <2>3 DEF Before, Ids
<1> QED
  BY <1>1, <1>2, <1>3

\* And one that is appended to.
LEMMA IdsAppend ==
  ASSUME NEW s \in Seq(Connection), NEW x \in Connection
  PROVE  /\ Ids(Append(s, x)) = Ids(s) \cup {x.id}
         /\ Ascending(s) /\ Before(Ids(s), {x.id}) => Ascending(Append(s, x))
<1> DEFINE t == Append(s, x)
<1>1. Ids(t) = Ids(s) \cup {x.id}
  <2>1. Ids(t) \subseteq Ids(s) \cup {x.id}
    BY Append1 DEF Ids
  <2>2. Ids(s) \cup {x.id} \subseteq Ids(t)
    BY Append1 DEF Ids
  <2> QED
    BY <2>1, <2>2
<1>2. ASSUME Ascending(s), Before(Ids(s), {x.id}), NEW i \in DOMAIN t, NEW j \in DOMAIN t, i < j
      PROVE  t[i].id < t[j].id
  <2>1. i \in DOMAIN s /\ t[i] = s[i]
    BY <1>2, Append1
  <2>2. CASE j \in DOMAIN s /\ t[j] = s[j]
    BY <1>2, <2>1, <2>2 DEF Ascending
  <2>3. CASE t[j] = x
    BY <1>2, <2>1, <2>3 DEF Before, Ids
  <2> QED
    BY <2>2, <2>3, Append1
<1> QED
  BY <1>1, <1>2 DEF Ascending

-----------------------------------------------------------------------------
(***************************************************************************)
(* Type correctness.                                                       *)
(***************************************************************************)
\* The empty sequence.
LEMMA EmptySeq == ASSUME NEW S PROVE <<>> \in Seq(S) /\ Len(<<>>) = 0 /\ DOMAIN <<>> = {}
OBVIOUS

\* A node that has just been started.
LEMMA TypeInit == Init => TypeInv
<1> SUFFICES ASSUME Init PROVE TypeInv
  OBVIOUS
<1>1. <<>> \in Seq(Connection) /\ <<>> \in Seq(Nat) /\ Len(<<>>) = 0
  BY EmptySeq
<1>2. 0 \in 0 .. MaxArrivals /\ 0 <= ChanCap /\ 0 \in Nat
  BY BoundAssumption
<1> QED
  BY <1>1, <1>2 DEF Init, TypeInv, TypeOK, Held

\* One step per action.
LEMMA TypeNext == TypeInv /\ [Next]_vars => TypeInv'
<1> SUFFICES ASSUME TypeInv, [Next]_vars
             PROVE  TypeInv'
  OBVIOUS
<1> USE BoundAssumption DEF TypeInv, TypeOK, Held
<1>1. ASSUME NEW kind \in Kinds, Arrive(kind)
      PROVE  TypeInv'
  <2>1. [id |-> arrived + 1, kind |-> kind] \in Connection
    BY DEF Connection
  <2> QED
    BY <1>1, <2>1 DEF Arrive, dispatcherVars, handlerVars
<1>2. CASE Listen
  BY <1>2 DEF Listen, handlerVars
<1>3. CASE CloseListener
  BY <1>3, EmptySeq DEF CloseListener, dispatcherVars, handlerVars
<1>4. CASE Accept
  BY <1>4, Uncons DEF Accept, handlerVars
<1>5. CASE StopListening \/ AcceptFails
  BY <1>5 DEF StopListening, AcceptFails, handlerVars
<1>6. CASE Decode \/ CheckContext
  BY <1>6 DEF Decode, CheckContext, handlerVars
<1>7. CASE Push
  BY <1>7, Append1 DEF Push, handlerVars
<1>8. CASE TakeMessage
  BY <1>8, Uncons DEF TakeMessage, dispatcherVars
<1>9. CASE Handle
  <2>1. handled' \in Seq(Nat)
    BY <1>9 DEF Handle, Connection, None
  <2> QED
    BY <1>9, <2>1 DEF Handle, dispatcherVars
<1>10. CASE HandlerHangs \/ HandlerStops
  BY <1>10 DEF HandlerHangs, HandlerStops, dispatcherVars
<1>11. CASE Interrupt \/ Ending
  BY <1>11 DEF Interrupt, Ending, SeeCancel, Exit, dispatcherVars, handlerVars
<1>12. ASSUME NEW k \in 1 .. MaxArrivals, Write(k)
       PROVE  TypeInv'
  BY <1>12 DEF Write, dispatcherVars, handlerVars
<1>13. CASE UNCHANGED vars
  BY <1>13 DEF vars, dispatcherVars, handlerVars
<1> QED
  BY <1>1, <1>2, <1>3, <1>4, <1>5, <1>6, <1>7, <1>8, <1>9, <1>10, <1>11, <1>12, <1>13
     DEF Next, Dispatch, Handling

\* The variables keep the types of their Go counterparts, and recvChan never holds
\* more than its capacity.
THEOREM TypeCorrect == Spec => []TypeOK
<1>1. TypeInv => TypeOK
  BY DEF TypeInv
<1> QED
  BY <1>1, TypeInit, TypeNext, PTL DEF Spec

-----------------------------------------------------------------------------
(***************************************************************************)
(* Order.  For each action: what it does to the ids at the five places.    *)
(***************************************************************************)
\* No message is anywhere.
LEMMA OrderInit == Init => OrderInv
<1> SUFFICES ASSUME Init PROVE OrderInv
  OBVIOUS
<1>1. TypeInv
  BY TypeInit
<1>2. /\ HandledIds = {} /\ InHandling = {} /\ Ids(recvChan) = {}
      /\ InHand = {} /\ Ids(backlog) = {}
  BY EmptySeq DEF Init, HandledIds, InHandling, InHand, Ids
<1>3. Sorted
  BY EmptySeq DEF Init, Sorted, HandledInOrder, Ascending
<1> QED
  BY <1>1, <1>2, <1>3 DEF OrderInv, Staged, Before, Opened, Init

\* Each action moves one message to the end of the next place, or none.
LEMMA OrderNext == OrderInv /\ [Next]_vars => OrderInv'
<1> SUFFICES ASSUME OrderInv, [Next]_vars
             PROVE  OrderInv'
  OBVIOUS
<1> DEFINE SameHandled == HandledIds' = HandledIds /\ HandledInOrder'
           SameHandling == InHandling' = InHandling
           SameChan == Ids(recvChan)' = Ids(recvChan) /\ Ascending(recvChan)'
           SameHand == InHand' = InHand
           SameBacklog == Ids(backlog)' = Ids(backlog) /\ Ascending(backlog)'
           SameOpened == arrived' = arrived /\ valid' = valid
<1> TypeInv'
  BY TypeNext DEF OrderInv
<1>a. ASSUME UNCHANGED handled PROVE SameHandled
  BY <1>a DEF HandledIds, HandledInOrder, OrderInv, Sorted
<1>b. ASSUME UNCHANGED <<handler, current>> PROVE SameHandling
  BY <1>b DEF InHandling
<1>c. ASSUME UNCHANGED recvChan PROVE SameChan
  BY <1>c DEF Ids, Ascending, OrderInv, Sorted
<1>d. ASSUME UNCHANGED dispatcherVars PROVE SameHand
  BY <1>d DEF InHand, dispatcherVars
<1>e. ASSUME UNCHANGED backlog PROVE SameBacklog
  BY <1>e DEF Ids, Ascending, OrderInv, Sorted
<1>1. ASSUME NEW kind \in Kinds, Arrive(kind)
      PROVE  OrderInv'
  <2> DEFINE new == [id |-> arrived + 1, kind |-> kind]
  <2>1. new \in Connection /\ new.id = arrived + 1
    BY DEF OrderInv, TypeInv, TypeOK, Connection
  <2>2. SameHandled /\ SameHandling /\ SameChan /\ SameHand
    BY <1>1, <1>a, <1>b, <1>c, <1>d DEF Arrive, handlerVars
  <2>3. Before(Ids(backlog), {new.id})
    BY <2>1 DEF OrderInv, Opened, TypeInv, TypeOK, Before
  <2>4. Ids(backlog)' = Ids(backlog) \cup {new.id} /\ Ascending(backlog)'
    <3>1. backlog' = Append(backlog, new)
      BY <1>1 DEF Arrive
    <3>2. Ids(backlog') = Ids(backlog) \cup {new.id} /\ Ascending(backlog')
      BY <2>1, <2>3, <3>1, IdsAppend DEF OrderInv, TypeInv, TypeOK, Sorted
    <3> QED
      BY <3>2 DEF Ids, Ascending
  <2>5. arrived' = arrived + 1 /\ valid' \subseteq valid \cup {new.id} /\ arrived \in Nat
    BY <1>1 DEF Arrive, OrderInv, TypeInv, TypeOK
  <2> HIDE DEF new
  <2>6. Opened'
    BY <2>1, <2>2, <2>4, <2>5 DEF OrderInv, Opened
  <2>7. Staged'
    BY <2>1, <2>2, <2>4, <2>5 DEF OrderInv, Staged, Opened, Before
  <2> QED
    BY <2>2, <2>4, <2>6, <2>7 DEF OrderInv, Sorted
<1>2. CASE Listen \/ StopListening \/ AcceptFails
  <2>1. SameHandled /\ SameHandling /\ SameChan /\ SameBacklog /\ SameOpened
    BY <1>2, <1>a, <1>b, <1>c, <1>e DEF Listen, StopListening, AcceptFails, handlerVars
  <2>2. InHand' \subseteq InHand
    BY <1>2 DEF Listen, StopListening, AcceptFails, InHand
  <2> QED
    BY <2>1, <2>2 DEF OrderInv, Sorted, Staged, Opened, Before
<1>3. CASE Decode \/ CheckContext
  <2>1. SameHandled /\ SameHandling /\ SameChan /\ SameBacklog /\ SameOpened
    BY <1>3, <1>a, <1>b, <1>c, <1>e DEF Decode, CheckContext, handlerVars
  <2>2. InHand' \subseteq InHand
    BY <1>3 DEF Decode, CheckContext, InHand
  <2> QED
    BY <2>1, <2>2 DEF OrderInv, Sorted, Staged, Opened, Before
<1>4. CASE CloseListener
  <2>1. SameHandled /\ SameHandling /\ SameChan /\ SameHand /\ SameOpened
    BY <1>4, <1>a, <1>b, <1>c, <1>d DEF CloseListener, handlerVars
  <2>2. Ids(backlog)' = {} /\ Ascending(backlog)'
    BY <1>4, EmptySeq DEF CloseListener, Ids, Ascending
  <2> QED
    BY <2>1, <2>2 DEF OrderInv, Sorted, Staged, Opened, Before
<1>5. CASE Accept
  <2>1. SameHandled /\ SameHandling /\ SameChan /\ SameOpened
    BY <1>5, <1>a, <1>b, <1>c DEF Accept, handlerVars
  <2>2. InHand' \subseteq {Head(backlog).id}
    BY <1>5 DEF Accept, InHand
  <2>3. /\ Ids(backlog) = {Head(backlog).id} \cup Ids(backlog)'
        /\ Ascending(backlog)' /\ Before({Head(backlog).id}, Ids(backlog)')
    <3>1. backlog' = Tail(backlog)
      BY <1>5 DEF Accept
    <3>2. /\ Ids(backlog) = {Head(backlog).id} \cup Ids(backlog')
          /\ Ascending(backlog') /\ Before({Head(backlog).id}, Ids(backlog'))
      BY <1>5, <3>1, IdsUncons DEF Accept, OrderInv, TypeInv, TypeOK, Sorted
    <3> QED
      BY <3>2 DEF Ids, Ascending, Before
  <2> QED
    BY <2>1, <2>2, <2>3 DEF OrderInv, Sorted, Staged, Opened, Before
<1>6. CASE Push
  <2>1. SameHandled /\ SameHandling /\ SameBacklog /\ SameOpened
    BY <1>6, <1>a, <1>b, <1>e DEF Push, handlerVars
  <2>2. InHand = {msg.id} /\ InHand' = {}
    BY <1>6 DEF Push, InHand
  <2>3. Ids(recvChan)' = Ids(recvChan) \cup InHand /\ Ascending(recvChan)'
    <3>1. recvChan' = Append(recvChan, msg) /\ msg \in Connection
      BY <1>6 DEF Push, OrderInv, TypeInv, Held
    <3>2. Ids(recvChan') = Ids(recvChan) \cup InHand /\ Ascending(recvChan')
      BY <2>2, <3>1, IdsAppend DEF OrderInv, TypeInv, TypeOK, Sorted, Staged
    <3> QED
      BY <3>2 DEF Ids, Ascending
  <2> QED
    BY <2>1, <2>2, <2>3 DEF OrderInv, Sorted, Staged, Opened, Before
<1>7. CASE TakeMessage
  <2>1. SameHandled /\ SameHand /\ SameBacklog /\ SameOpened
    BY <1>7, <1>a, <1>d, <1>e DEF TakeMessage
  <2>2. InHandling = {} /\ InHandling' = {Head(recvChan).id}
    BY <1>7 DEF TakeMessage, InHandling
  <2>3. /\ Ids(recvChan) = InHandling' \cup Ids(recvChan)'
        /\ Ascending(recvChan)' /\ Before(InHandling', Ids(recvChan)')
    <3>1. recvChan' = Tail(recvChan)
      BY <1>7 DEF TakeMessage
    <3>2. /\ Ids(recvChan) = InHandling' \cup Ids(recvChan')
          /\ Ascending(recvChan') /\ Before(InHandling', Ids(recvChan'))
      BY <1>7, <2>2, <3>1, IdsUncons DEF TakeMessage, OrderInv, TypeInv, TypeOK, Sorted
    <3> QED
      BY <3>2 DEF Ids, Ascending, Before
  <2> QED
    BY <2>1, <2>2, <2>3 DEF OrderInv, Sorted, Staged, Opened, Before
<1>8. CASE Handle
  <2>1. SameChan /\ SameHand /\ SameBacklog /\ SameOpened
    BY <1>8, <1>c, <1>d, <1>e DEF Handle
  <2>2. InHandling = {current.id} /\ InHandling' = {}
    BY <1>8 DEF Handle, InHandling
  <2>3. handled \in Seq(Nat) /\ current.id \in Nat /\ handled' = Append(handled, current.id)
    BY <1>8 DEF Handle, OrderInv, TypeInv, TypeOK, Connection, None
  <2>4. HandledIds' = HandledIds \cup InHandling
    <3>1. HandledIds' \subseteq HandledIds \cup InHandling
      BY <2>2, <2>3, Append1 DEF HandledIds
    <3>2. HandledIds \cup InHandling \subseteq HandledIds'
      BY <2>2, <2>3, Append1 DEF HandledIds
    <3> QED
      BY <3>1, <3>2
  <2>5. HandledInOrder'
    <3> SUFFICES ASSUME NEW i \in DOMAIN handled', NEW j \in DOMAIN handled', i < j
                 PROVE  handled'[i] < handled'[j]
      BY DEF HandledInOrder
    <3>1. i \in DOMAIN handled /\ handled'[i] = handled[i]
      BY <2>3, Append1
    <3>2. CASE j \in DOMAIN handled /\ handled'[j] = handled[j]
      BY <3>1, <3>2 DEF OrderInv, Sorted, HandledInOrder
    <3>3. CASE handled'[j] = current.id
      BY <2>2, <3>1, <3>3 DEF OrderInv, Staged, Before, HandledIds
    <3> QED
      BY <2>3, <3>2, <3>3, Append1
  <2> QED
    BY <2>1, <2>2, <2>4, <2>5 DEF OrderInv, Sorted, Staged, Opened, Before
<1>9. CASE HandlerStops
  <2>1. SameHandled /\ SameChan /\ SameHand /\ SameBacklog /\ SameOpened
    BY <1>9, <1>a, <1>c, <1>d, <1>e DEF HandlerStops
  <2>2. InHandling' = {}
    BY <1>9 DEF HandlerStops, InHandling
  <2> QED
    BY <2>1, <2>2 DEF OrderInv, Sorted, Staged, Opened, Before
<1>10. CASE HandlerHangs
  <2>1. SameHandled /\ SameChan /\ SameHand /\ SameBacklog /\ SameOpened
    BY <1>10, <1>a, <1>c, <1>d, <1>e DEF HandlerHangs
  <2>2. SameHandling
    BY <1>10 DEF HandlerHangs, InHandling
  <2> QED
    BY <2>1, <2>2 DEF OrderInv, Sorted, Staged, Opened, Before
<1>11. CASE (\E k \in 1 .. MaxArrivals : Write(k)) \/ Interrupt \/ Ending \/ UNCHANGED vars
  <2>1. SameHandled /\ SameHandling /\ SameChan /\ SameHand /\ SameBacklog /\ SameOpened
    BY <1>11, <1>a, <1>b, <1>c, <1>d, <1>e
       DEF Write, Interrupt, Ending, SeeCancel, Exit, vars, handlerVars
  <2> QED
    BY <2>1 DEF OrderInv, Sorted, Staged, Opened, Before
<1> QED
  BY <1>1, <1>2, <1>3, <1>4, <1>5, <1>6, <1>7, <1>8, <1>9, <1>10, <1>11
     DEF Next, Dispatch, Handling

\* A node handles messages in the order their connections were opened, none twice,
\* however many wait in the backlog and whatever recvChan holds.
THEOREM HandlesInOrder == Spec => []HandledInOrder
<1>1. OrderInv => HandledInOrder
  BY DEF OrderInv, Sorted
<1> QED
  BY <1>1, OrderInit, OrderNext, PTL DEF Spec

-----------------------------------------------------------------------------
(***************************************************************************)
(* No loss.  Every place a message leaves hands it to the next, the        *)
(* exceptions being a malformed one and a check that finds the context     *)
(* cancelled.                                                              *)
(***************************************************************************)
KeptInv == Malformed /\ NothingLost
Everywhere == HandledIds \cup InHandling \cup Ids(recvChan) \cup InHand \cup Ids(backlog)

\* No message has been sent.
LEMMA KeptInit == Init => KeptInv
BY EmptySeq DEF Init, KeptInv, Malformed, NothingLost

\* Each action before the cancellation keeps every valid message somewhere.
LEMMA KeptNext == OrderInv /\ KeptInv /\ [Next]_vars => KeptInv'
<1> SUFFICES ASSUME OrderInv, KeptInv, [Next]_vars
             PROVE  KeptInv'
  OBVIOUS
<1> DEFINE SameHandled == HandledIds' = HandledIds
           SameHandling == InHandling' = InHandling
           SameChan == Ids(recvChan)' = Ids(recvChan)
           SameHand == InHand' = InHand
           SameBacklog == Ids(backlog)' = Ids(backlog) /\ backlog' = backlog
           SameValid == valid' = valid
<1> /\ backlog \in Seq(Connection) /\ recvChan \in Seq(Connection)
    /\ handled \in Seq(Nat) /\ current.id \in Nat /\ arrived \in Nat
    /\ ctxDone \in BOOLEAN
  BY DEF OrderInv, TypeInv, TypeOK, Connection, None
<1>a. ASSUME UNCHANGED handled PROVE SameHandled
  BY <1>a DEF HandledIds
<1>b. ASSUME UNCHANGED <<handler, current>> PROVE SameHandling
  BY <1>b DEF InHandling
<1>c. ASSUME UNCHANGED recvChan PROVE SameChan
  BY <1>c DEF Ids
<1>d. ASSUME UNCHANGED dispatcherVars PROVE SameHand
  BY <1>d DEF InHand, dispatcherVars
<1>e. ASSUME UNCHANGED backlog PROVE SameBacklog
  BY <1>e DEF Ids
<1>f. ASSUME ctxDone' \/ Everywhere \subseteq Everywhere', ctxDone => ctxDone', SameValid
      PROVE  NothingLost'
  BY <1>f DEF KeptInv, NothingLost, Everywhere
<1>g. ASSUME SameBacklog, SameValid, UNCHANGED dispatcherVars \/ dispatcher' # "decode"
      PROVE  Malformed'
  BY <1>g DEF KeptInv, Malformed, dispatcherVars
<1>1. ASSUME NEW kind \in Kinds, Arrive(kind)
      PROVE  KeptInv'
  <2> DEFINE new == [id |-> arrived + 1, kind |-> kind]
  <2>1. new \in Connection /\ new.id = arrived + 1 /\ new.kind = kind
    BY DEF Connection
  <2>2. /\ SameHandled /\ SameHandling /\ SameChan /\ SameHand /\ ctxDone' = ctxDone
        /\ backlog' = Append(backlog, new)
        /\ valid' = IF kind = "malformed" THEN valid ELSE valid \cup {new.id}
    BY <1>1, <1>a, <1>b, <1>c, <1>d DEF Arrive, handlerVars
  <2>3. Ids(backlog') = Ids(backlog) \cup {new.id}
    BY <2>1, <2>2, IdsAppend
  <2>4. Ids(backlog)' = Ids(backlog')
    BY DEF Ids
  <2> HIDE DEF new
  <2>5. NothingLost'
    BY <2>2, <2>3, <2>4 DEF KeptInv, NothingLost
  <2>6. \A i \in DOMAIN backlog : backlog[i].id < new.id
    <3>1. Ids(backlog) \subseteq 1 .. arrived
      BY DEF OrderInv, Opened
    <3>2. \A i \in DOMAIN backlog : backlog[i].id \in 1 .. arrived
      BY <3>1 DEF Ids
    <3> QED
      BY <2>1, <3>2
  <2>7. arrived + 1 \notin valid
    BY DEF OrderInv, Opened
  <2>8. ASSUME NEW i \in DOMAIN backlog', backlog'[i].kind = "malformed"
        PROVE  backlog'[i].id \notin valid'
    <3>1. CASE i \in DOMAIN backlog /\ backlog'[i] = backlog[i]
      <4>1. backlog[i].id \notin valid /\ backlog[i].id # new.id
        BY <2>1, <2>6, <2>8, <3>1 DEF KeptInv, Malformed
      <4> QED
        BY <2>2, <3>1, <4>1
    <3>2. CASE backlog'[i] = new
      BY <2>1, <2>2, <2>7, <2>8, <3>2
    <3> QED
      BY <2>1, <2>2, <3>1, <3>2, Append1
  <2>9. dispatcher' = "decode" /\ msg'.kind = "malformed" => msg'.id \notin valid'
    <3> SUFFICES ASSUME dispatcher = "decode", msg.kind = "malformed"
                 PROVE  msg.id \notin valid'
      BY <1>1 DEF Arrive, dispatcherVars
    <3>1. msg.id \in 1 .. arrived
      BY DEF OrderInv, Opened, InHand
    <3>2. msg.id # new.id
      BY <2>1, <3>1
    <3> QED
      BY <2>2, <3>2 DEF KeptInv, Malformed
  <2> QED
    BY <2>5, <2>8, <2>9 DEF KeptInv, Malformed
<1>2. CASE Listen \/ StopListening \/ AcceptFails
  <2>1. SameHandled /\ SameHandling /\ SameChan /\ SameBacklog /\ SameValid /\ ctxDone' = ctxDone
    BY <1>2, <1>a, <1>b, <1>c, <1>e DEF Listen, StopListening, AcceptFails, handlerVars
  <2>2. InHand = {} /\ dispatcher' # "decode"
    BY <1>2 DEF Listen, StopListening, AcceptFails, InHand
  <2> QED
    BY <2>1, <2>2, <1>f, <1>g DEF KeptInv, Everywhere
<1>3. CASE CheckContext
  <2>1. SameHandled /\ SameHandling /\ SameChan /\ SameBacklog /\ SameValid /\ ctxDone' = ctxDone
    BY <1>3, <1>a, <1>b, <1>c, <1>e DEF CheckContext, handlerVars
  <2>2. (ctxDone \/ InHand' = InHand) /\ dispatcher' # "decode"
    BY <1>3 DEF CheckContext, InHand
  <2> QED
    BY <2>1, <2>2, <1>f, <1>g DEF KeptInv, Everywhere
<1>4. CASE CloseListener
  <2>1. ctxDone' /\ ctxDone
    BY <1>4 DEF CloseListener
  <2>2. Malformed'
    BY <1>4, EmptySeq DEF CloseListener, KeptInv, Malformed, dispatcherVars
  <2> QED
    BY <2>1, <2>2 DEF KeptInv, NothingLost
<1>5. CASE Accept
  <2>1. SameHandled /\ SameHandling /\ SameChan /\ SameValid /\ ctxDone' = ctxDone
    BY <1>5, <1>a, <1>b, <1>c DEF Accept, handlerVars
  <2>2. backlog # <<>> /\ backlog' = Tail(backlog) /\ InHand = {}
    BY <1>5 DEF Accept, InHand
  <2>3. Ids(backlog) = {Head(backlog).id} \cup Ids(backlog')
    BY <2>2, IdsUncons
  <2>4. InHand' = {Head(backlog).id}
    BY <1>5 DEF Accept, InHand
  <2>5. Ids(backlog)' = Ids(backlog')
    BY DEF Ids
  <2>6. NothingLost'
    BY <2>1, <2>2, <2>3, <2>4, <2>5 DEF KeptInv, NothingLost
  <2>7. Malformed'
    <3>1. \A i \in DOMAIN backlog' : backlog'[i].kind = "malformed" => backlog'[i].id \notin valid
      BY <2>2, Uncons DEF KeptInv, Malformed
    <3>2. msg' = backlog[1] /\ 1 \in DOMAIN backlog
      BY <1>5, Uncons DEF Accept
    <3> QED
      BY <2>1, <3>1, <3>2 DEF KeptInv, Malformed
  <2> QED
    BY <2>6, <2>7 DEF KeptInv
<1>6. CASE Push
  <2>1. SameHandled /\ SameHandling /\ SameBacklog /\ SameValid /\ ctxDone' = ctxDone
    BY <1>6, <1>a, <1>b, <1>e DEF Push, handlerVars
  <2>2. InHand = {msg.id} /\ dispatcher' # "decode"
    BY <1>6 DEF Push, InHand
  <2>3. recvChan' = Append(recvChan, msg) /\ msg \in Connection
    BY <1>6 DEF Push, OrderInv, TypeInv, Held
  <2>4. Ids(recvChan') = Ids(recvChan) \cup InHand
    BY <2>2, <2>3, IdsAppend
  <2>5. Ids(recvChan)' = Ids(recvChan')
    BY DEF Ids
  <2> QED
    BY <2>1, <2>2, <2>4, <2>5, <1>f, <1>g DEF KeptInv, Everywhere
<1>7. CASE TakeMessage
  <2>1. /\ SameHandled /\ SameHand /\ SameBacklog /\ SameValid /\ ctxDone' = ctxDone
        /\ UNCHANGED dispatcherVars
    BY <1>7, <1>a, <1>d, <1>e DEF TakeMessage
  <2>2. InHandling = {} /\ InHandling' = {Head(recvChan).id}
    BY <1>7 DEF TakeMessage, InHandling
  <2>3. recvChan # <<>> /\ recvChan' = Tail(recvChan)
    BY <1>7 DEF TakeMessage
  <2>4. Ids(recvChan) = InHandling' \cup Ids(recvChan')
    BY <2>2, <2>3, IdsUncons
  <2>5. Ids(recvChan)' = Ids(recvChan')
    BY DEF Ids
  <2> QED
    BY <2>1, <2>2, <2>4, <2>5, <1>f, <1>g DEF KeptInv, Everywhere
<1>8. CASE Handle
  <2>1. /\ SameChan /\ SameHand /\ SameBacklog /\ SameValid /\ (ctxDone => ctxDone')
        /\ UNCHANGED dispatcherVars
    BY <1>8, <1>c, <1>d, <1>e DEF Handle
  <2>2. InHandling = {current.id} /\ handled' = Append(handled, current.id)
    BY <1>8 DEF Handle, InHandling
  <2>3. HandledIds \cup InHandling \subseteq HandledIds'
    <3>1. \A i \in DOMAIN handled : i \in DOMAIN handled' /\ handled'[i] = handled[i]
      BY <2>2, Append1
    <3>2. Len(handled) + 1 \in DOMAIN handled' /\ handled'[Len(handled) + 1] = current.id
      BY <2>2, Append1
    <3> QED
      BY <2>2, <3>1, <3>2 DEF HandledIds
  <2> QED
    BY <2>1, <2>3, <1>f, <1>g DEF KeptInv, Everywhere
<1>9. CASE HandlerStops
  <2>1. SameBacklog /\ SameValid /\ ctxDone' /\ UNCHANGED dispatcherVars
    BY <1>9, <1>e DEF HandlerStops
  <2> QED
    BY <2>1, <1>f, <1>g DEF KeptInv
<1>10. CASE HandlerHangs
  <2>1. /\ SameHandled /\ SameChan /\ SameHand /\ SameBacklog /\ SameValid
        /\ ctxDone' = ctxDone /\ UNCHANGED dispatcherVars
    BY <1>10, <1>a, <1>c, <1>d, <1>e DEF HandlerHangs
  <2>2. SameHandling
    BY <1>10 DEF HandlerHangs, InHandling
  <2> QED
    BY <2>1, <2>2, <1>f, <1>g DEF KeptInv, Everywhere
<1>11. CASE (\E k \in 1 .. MaxArrivals : Write(k)) \/ Interrupt \/ Ending \/ UNCHANGED vars
  <2>1. /\ SameHandled /\ SameHandling /\ SameChan /\ SameHand /\ SameBacklog /\ SameValid
        /\ (ctxDone => ctxDone') /\ UNCHANGED dispatcherVars
    BY <1>11, <1>a, <1>b, <1>c, <1>d, <1>e
       DEF Write, Interrupt, Ending, SeeCancel, Exit, vars, handlerVars
  <2> QED
    BY <2>1, <1>f, <1>g DEF KeptInv, Everywhere
<1>12. CASE Decode
  <2>1. SameHandled /\ SameHandling /\ SameChan /\ SameBacklog /\ SameValid /\ ctxDone' = ctxDone
    BY <1>12, <1>a, <1>b, <1>c, <1>e DEF Decode, handlerVars
  <2>2. dispatcher = "decode" /\ InHand = {msg.id} /\ dispatcher' # "decode"
    BY <1>12 DEF Decode, InHand
  <2>3. msg.id \notin valid \/ InHand' = InHand
    <3>1. CASE msg.kind = "malformed"
      BY <2>2, <3>1 DEF KeptInv, Malformed
    <3>2. CASE msg.kind # "malformed"
      BY <1>12, <2>2, <3>2 DEF Decode, InHand
    <3> QED
      BY <3>1, <3>2
  <2>4. NothingLost'
    BY <2>1, <2>2, <2>3 DEF KeptInv, NothingLost
  <2> QED
    BY <2>1, <2>2, <2>4, <1>g DEF KeptInv
<1> QED
  BY <1>1, <1>2, <1>3, <1>4, <1>5, <1>6, <1>7, <1>8, <1>9, <1>10, <1>11, <1>12
     DEF Next, Dispatch, Handling

\* Until the context is cancelled every valid message a node was sent is handled,
\* in the handler's or the dispatcher's hands, in recvChan or in the backlog.
THEOREM LosesNothing == Spec => []NothingLost
<1>1. KeptInv => NothingLost
  BY DEF KeptInv
<1> QED
  BY <1>1, OrderInit, OrderNext, KeptInit, KeptNext, PTL DEF Spec

-----------------------------------------------------------------------------
(***************************************************************************)
(* Cancellation.  Budget counts what may still be taken up: a push, the    *)
(* one step that ignores the context, moves a message within it, and no    *)
(* check that follows the cancellation adds to it.                         *)
(***************************************************************************)
\* Nothing has been taken up.
LEMMA BudgetInit == Init => Budget
BY DEF Init, Budget

\* One step per action.
LEMMA BudgetNext == TypeInv /\ Budget /\ [Next]_vars => Budget'
<1> SUFFICES ASSUME TypeInv, Budget, [Next]_vars
             PROVE  Budget'
  OBVIOUS
<1> /\ recvChan \in Seq(Connection) /\ Len(recvChan) \in Nat /\ Len(recvChan) <= ChanCap
    /\ afterCancel \in Nat /\ ChanCap \in Nat /\ ctxDone \in BOOLEAN /\ Pushing \in 0 .. 1
  BY BoundAssumption DEF TypeInv, TypeOK, Pushing
<1> USE DEF Budget
<1>1. CASE Listen
  BY <1>1 DEF Listen, handlerVars, Pushing
<1>2. CASE Accept \/ StopListening \/ AcceptFails \/ Decode \/ CheckContext
  BY <1>2 DEF Pushing, Accept, StopListening, AcceptFails, Decode, CheckContext, handlerVars
<1>3. CASE Push
  <2>1. recvChan' = Append(recvChan, msg) /\ msg \in Connection
    BY <1>3 DEF Push, TypeInv, Held
  <2>2. Len(recvChan') = Len(recvChan) + 1
    BY <2>1, Append1
  <2> QED
    BY <1>3, <2>2 DEF Push, handlerVars, Pushing
<1>4. CASE TakeMessage
  <2>1. recvChan # <<>> /\ recvChan' = Tail(recvChan)
    BY <1>4 DEF TakeMessage
  <2>2. Len(recvChan') = Len(recvChan) - 1
    BY <2>1, Uncons
  <2>3. ctxDone' = ctxDone /\ Pushing' = Pushing
    BY <1>4 DEF TakeMessage, dispatcherVars, Pushing
  <2>4. afterCancel' = IF ctxDone THEN afterCancel + 1 ELSE afterCancel
    BY <1>4 DEF TakeMessage
  <2> QED
    BY <2>2, <2>3, <2>4
<1>5. CASE Handle \/ HandlerHangs \/ HandlerStops
  <2>1. recvChan' = recvChan /\ afterCancel' = afterCancel /\ Pushing' = Pushing
    BY <1>5 DEF Handle, HandlerHangs, HandlerStops, dispatcherVars, Pushing
  <2>2. ctxDone => ctxDone'
    BY <1>5 DEF Handle, HandlerHangs, HandlerStops
  <2> QED
    BY <2>1, <2>2
<1>6. ASSUME UNCHANGED <<dispatcherVars, recvChan, handlerVars>>, ctxDone => ctxDone'
      PROVE  Budget'
  BY <1>6 DEF dispatcherVars, handlerVars, Pushing
<1>7. ASSUME NEW kind \in Kinds, Arrive(kind)
      PROVE  Budget'
  BY <1>6, <1>7 DEF Arrive
<1>8. CASE (\E k \in 1 .. MaxArrivals : Write(k)) \/ CloseListener \/ Interrupt \/ Ending \/ UNCHANGED vars
  BY <1>6, <1>8 DEF Write, CloseListener, Interrupt, Ending, SeeCancel, Exit, vars
<1> QED
  BY <1>1, <1>2, <1>3, <1>4, <1>5, <1>7, <1>8 DEF Next, Dispatch, Handling

\* Once the context is cancelled a node takes up at most the messages its channel
\* holds and the one its dispatcher had already let past the check.
THEOREM CancelEndsHandling == Spec => []CancelIsFinal
<1>1. TypeInv /\ Budget => CancelIsFinal
  BY BoundAssumption DEF TypeInv, TypeOK, Budget, Pushing, CancelIsFinal
<1> QED
  BY <1>1, TypeInit, TypeNext, BudgetInit, BudgetNext, PTL DEF Spec
=============================================================================
