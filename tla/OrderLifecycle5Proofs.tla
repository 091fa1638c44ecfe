----------------------- MODULE OrderLifecycle5Proofs -----------------------
(***************************************************************************)
(* Theorems about OrderRecovery5 and, in the second half, OrderLifecycle5, *)
(* for any finite set of orders and every setting: what the recovery       *)
(* promises, that it goes on so when an order is followed through it, and  *)
(* that READY is truthful about that order.                                *)
(***************************************************************************)
EXTENDS OrderLifecycle5, FiniteSetTheorems, SequenceTheorems, TLAPS

-----------------------------------------------------------------------------
(* OrderRecovery5 *)

\* A slot on the wire has no answer yet.
SlotsInv ==
  /\ open_orders.in_flight => ~open_orders.responded
  /\ stale_orders.in_flight => ~stale_orders.responded

\* What the download state says about the session's own questions: in
\* GET_OPEN_ORDERS the question is still to be sent, on the wire or
\* answered; past it, it is answered and no new one is pending.
EvidenceInv ==
  /\ socket = "down" => download = "UNDEFINED"
  /\ DropCopyReady <=> download = "DONE"
  /\ download = "GET_OPEN_ORDERS" =>
       \/ open_orders.pending
       \/ evidence = "answered"
       \/ evidence = "sent" /\ open_orders.in_flight
  /\ download \in {"GET_STALE_ORDERS", "DONE"} =>
       evidence = "answered" /\ ~open_orders.pending
  /\ unasked \subseteq details \cup info_calls
  /\ download = "DONE" => unasked = {}

\* What has been acknowledged when the download is in a given state.
AckedBefore ==
  [s \in State |->
     CASE s = "SUBSCRIBE_POSITIONS" -> {"SUBSCRIBE_BALANCES"}
       [] s = "SUBSCRIBE_MATCH_ORDERS" ->
            {"SUBSCRIBE_BALANCES", "SUBSCRIBE_POSITIONS"}
       [] s = "SUBSCRIBE_ORDERS" -> Subscriptions \ {"SUBSCRIBE_ORDERS"}
       [] s \in {"GET_OPEN_ORDERS", "GET_STALE_ORDERS", "DONE"} -> Subscriptions
       [] OTHER -> {}]

SubscriptionInv ==
  /\ awaiting \cap Subscriptions \subseteq {download}
  /\ SubsAccepted => AckedBefore[download] \subseteq subscribed

IInv ==
  /\ TypeOK
  /\ NeverUnexpected
  /\ CallsAccountedFor
  /\ CollectedOrdersArePending
  /\ SlotsInv
  /\ EvidenceInv
  /\ SubscriptionInv
-----------------------------------------------------------------------------
(* Type correctness *)

LEMMA FoundIsFinite ==
  ASSUME NEW S \in SUBSET Orders
  PROVE  IsFiniteSet(S) /\ Cardinality(S) \in Nat
BY OrdersAssumption, FS_Subset, FS_CardinalityType

\* The operations on a slot yield slots, with these fields.
LEMMA SlotOperations ==
  ASSUME NEW r \in RequestSlot
  PROVE  /\ Idle \in RequestSlot
         /\ Requested(r) \in RequestSlot
         /\ Requested(r).pending
         /\ Requested(r).in_flight = r.in_flight
         /\ Requested(r).responded = r.responded
         /\ Sent(r) \in RequestSlot
         /\ ~Sent(r).pending /\ Sent(r).in_flight /\ ~Sent(r).responded
         /\ Committed(r) \in RequestSlot
         /\ Committed(r).pending = r.pending
         /\ ~Committed(r).in_flight /\ Committed(r).responded
BY DEF RequestSlot, Idle, Requested, Sent, Committed

LEMMA InitTypeOK == Init => TypeOK
<1> SUFFICES ASSUME Init PROVE TypeOK
  OBVIOUS
<1>1. Idle \in RequestSlot
  BY DEF Idle, RequestSlot
<1>2. download \in State /\ connection_status \in Status /\ fatal \in Fatals
  BY DEF Init, State, Subscriptions, Status, Fatals
<1>3. QED
  BY <1>1, <1>2 DEF Init, TypeOK

LEMMA NextTypeOK == TypeOK /\ [Next]_vars => TypeOK'
<1> SUFFICES ASSUME TypeOK, [Next]_vars PROVE TypeOK'
  OBVIOUS
<1>0. CASE LogonAccepted
  <2>1. /\ download' \in State /\ connection_status' \in Status
        /\ fatal' \in Fatals
    BY <1>0 DEF LogonAccepted, TypeOK, State, Subscriptions, Status, Fatals
  <2>2. awaiting' \subseteq Subscriptions \cup {"LOGIN"}
    BY <1>0 DEF LogonAccepted, TypeOK, Subscriptions
  <2>3. QED
    BY <1>0, <2>1, <2>2
       DEF LogonAccepted, TypeOK, requestVars, restVars, cacheVars, historyVars
<1> USE SlotOperations DEF TypeOK, Status, State, Subscriptions, Fatals
<1>1. CASE DropCopyConnected
  BY <1>1 DEF DropCopyConnected, requestVars, restVars, cacheVars, historyVars
<1>2. CASE DropCopyDisconnected
  BY <1>2 DEF DropCopyDisconnected, requestVars, restVars, cacheVars
<1>3. CASE ExchangeCloses
  BY <1>3 DEF ExchangeCloses, requestVars, restVars, cacheVars, historyVars
<1>5. CASE LogonRefused
  BY <1>5 DEF LogonRefused, requestVars, restVars, cacheVars, historyVars
<1>6. ASSUME NEW topic \in Subscriptions, NEW accepted \in BOOLEAN,
             Subscribed(topic, accepted)
      PROVE  TypeOK'
  BY <1>6 DEF Subscribed, NextSubscription, restVars, cacheVars, historyVars
<1>7. ASSUME NEW o \in Orders, OrderUpdated(o) PROVE TypeOK'
  BY <1>7 DEF OrderUpdated, socketVars, requestVars, restVars, historyVars
<1>8. ASSUME NEW due \in BOOLEAN, DropCopyTimer(due) PROVE TypeOK'
  BY <1>8 DEF DropCopyTimer, OpenOrdersArrived, StaleOrdersArrived,
              PeriodicCheck, CheckStaleOrders, AskIf, restVars, cacheVars
<1>9. CASE RestConnected
  BY <1>9 DEF RestConnected, socketVars, requestVars, cacheVars, historyVars
<1>10. CASE RestDisconnected
  BY <1>10 DEF RestDisconnected, socketVars, requestVars, cacheVars,
               historyVars
<1>11. CASE RestTimer
  <2> USE <1>11 DEF RestTimer, socketVars, cacheVars
  <2>1. CASE SendOpenOrders
    BY <2>1 DEF SendOpenOrders
  <2>2. CASE SendStaleOrders
    <3>1. Cardinality(details \cap known) \in Nat
      BY FoundIsFinite
    <3>2. QED
      BY <2>2, <3>1 DEF SendStaleOrders
  <2>3. QED
    BY <2>1, <2>2
<1>12. ASSUME NEW listed \in SUBSET Orders, OpenOrdersAck(listed)
       PROVE  TypeOK'
  BY <1>12 DEF OpenOrdersAck, socketVars
<1>13. ASSUME NEW o \in Orders, NEW settled \in BOOLEAN,
              OrderInfoAck(o, settled)
       PROVE  TypeOK'
  BY <1>13 DEF OrderInfoAck, socketVars
<1>14. ASSUME NEW o \in Orders, OrderGoesStale(o) PROVE TypeOK'
  BY <1>14 DEF OrderGoesStale, socketVars, requestVars, restVars, historyVars
<1>15. ASSUME NEW o \in Orders, OrderForgotten(o) PROVE TypeOK'
  BY <1>15 DEF OrderForgotten, socketVars, requestVars, restVars, historyVars
<1>16. CASE UNCHANGED vars
  BY <1>16 DEF vars, socketVars, requestVars, restVars, cacheVars, historyVars
<1>17. QED
  BY <1>0, <1>1, <1>2, <1>3, <1>5, <1>6, <1>7, <1>8, <1>9, <1>10, <1>11,
     <1>12, <1>13, <1>14, <1>15, <1>16 DEF Next, Steps, Dead

\* Every variable keeps its type.
THEOREM TypeCorrect == Spec => []TypeOK
BY InitTypeOK, NextTypeOK, PTL DEF Spec

-----------------------------------------------------------------------------
(* The inductive invariant *)

LEMMA InitIInv == Init => IInv
<1> SUFFICES ASSUME Init PROVE IInv
  OBVIOUS
<1>1. Cardinality({}) = 0
  BY FS_EmptySet
<1>2. TypeOK
  BY InitTypeOK
<1>3. ~Idle.pending /\ ~Idle.in_flight /\ ~Idle.responded
  BY DEF Idle
<1>4. NeverUnexpected /\ CallsAccountedFor /\ CollectedOrdersArePending
  BY <1>1, <1>3 DEF Init, NeverUnexpected, CallsAccountedFor,
                    CollectedOrdersArePending
<1>5. SlotsInv /\ EvidenceInv
  BY <1>3 DEF Init, SlotsInv, EvidenceInv, DropCopyReady
<1>6. SubscriptionInv
  BY DEF Init, SubscriptionInv, AckedBefore, State, Subscriptions
<1>7. QED
  BY <1>2, <1>4, <1>5, <1>6 DEF IInv

\* The actions that leave the slots, the details and the calls alone.
LEMMA SocketStepsIInv ==
  ASSUME IInv,
         \/ DropCopyConnected \/ DropCopyDisconnected \/ ExchangeCloses
         \/ LogonAccepted \/ LogonRefused
         \/ \E o \in Orders : OrderUpdated(o)
         \/ RestConnected \/ RestDisconnected
         \/ \E o \in Orders : OrderGoesStale(o)
         \/ \E o \in Orders : OrderForgotten(o)
         \/ UNCHANGED vars
  PROVE  /\ NeverUnexpected' /\ CallsAccountedFor'
         /\ CollectedOrdersArePending' /\ SlotsInv' /\ EvidenceInv'
         /\ SubscriptionInv'
<1> USE DEF socketVars, requestVars, restVars, cacheVars, historyVars, vars,
            DropCopyConnected, DropCopyDisconnected, ExchangeCloses,
            LogonAccepted, LogonRefused, OrderUpdated, RestConnected,
            RestDisconnected, OrderGoesStale, OrderForgotten
<1>1. UNCHANGED <<open_orders, stale_orders, details, counter, open_calls,
                  info_calls>>
  OBVIOUS
<1>2. CallsAccountedFor' /\ CollectedOrdersArePending' /\ SlotsInv'
  BY <1>1 DEF IInv, CallsAccountedFor, CollectedOrdersArePending, SlotsInv
<1>3. NeverUnexpected'
  BY DEF IInv, NeverUnexpected
<1>4. EvidenceInv'
  BY <1>1 DEF IInv, TypeOK, EvidenceInv, DropCopyReady
<1>5. SubscriptionInv'
  BY DEF IInv, TypeOK, SubscriptionInv, AckedBefore, State, Subscriptions
<1>6. QED
  BY <1>2, <1>3, <1>4, <1>5

LEMMA SubscribedIInv ==
  ASSUME IInv, NEW topic \in Subscriptions, NEW accepted \in BOOLEAN,
         Subscribed(topic, accepted)
  PROVE  /\ NeverUnexpected' /\ CallsAccountedFor'
         /\ CollectedOrdersArePending' /\ SlotsInv' /\ EvidenceInv'
         /\ SubscriptionInv'
<1> USE DEF Subscribed, restVars, cacheVars, historyVars
<1>1. download = topic
  BY DEF IInv, SubscriptionInv
<1>2. /\ open_orders'.in_flight = open_orders.in_flight
      /\ open_orders'.responded = open_orders.responded
  BY SlotOperations DEF IInv, TypeOK
<1>3. CallsAccountedFor' /\ CollectedOrdersArePending' /\ SlotsInv'
  BY <1>2 DEF IInv, CallsAccountedFor, CollectedOrdersArePending, SlotsInv
<1>4. NeverUnexpected'
  BY DEF IInv, NeverUnexpected
<1>5. EvidenceInv'
  <2>1. CASE topic = "SUBSCRIBE_ORDERS"
    <3>1. download' = "GET_OPEN_ORDERS" /\ open_orders' = Requested(open_orders)
      BY <2>1 DEF NextSubscription
    <3>2. open_orders'.pending
      BY <3>1, SlotOperations DEF IInv, TypeOK
    <3>3. QED
      BY <3>1, <3>2 DEF IInv, EvidenceInv, DropCopyReady
  <2>2. CASE topic # "SUBSCRIBE_ORDERS"
    <3>1. download' \in Subscriptions
      BY <2>2 DEF NextSubscription, Subscriptions
    <3>2. QED
      BY <3>1 DEF IInv, EvidenceInv, DropCopyReady, Subscriptions
  <2>3. QED
    BY <2>1, <2>2
<1>6. SubscriptionInv'
  BY <1>1 DEF IInv, TypeOK, SubscriptionInv, AckedBefore, State,
              Subscriptions, NextSubscription
<1>7. QED
  BY <1>3, <1>4, <1>5, <1>6

LEMMA DropCopyTimerIInv ==
  ASSUME IInv, NEW due \in BOOLEAN, DropCopyTimer(due)
  PROVE  /\ NeverUnexpected' /\ CallsAccountedFor'
         /\ CollectedOrdersArePending' /\ SlotsInv' /\ EvidenceInv'
         /\ SubscriptionInv'
<1> USE DEF DropCopyTimer, restVars, cacheVars
<1>1. /\ stale_orders' \in {stale_orders, Requested(stale_orders)}
      /\ open_orders' = open_orders
  BY DEF OpenOrdersArrived, StaleOrdersArrived, PeriodicCheck,
         CheckStaleOrders, AskIf
<1>2. /\ stale_orders'.in_flight = stale_orders.in_flight
      /\ stale_orders'.responded = stale_orders.responded
  BY <1>1, SlotOperations DEF IInv, TypeOK
<1>3. CallsAccountedFor' /\ SlotsInv'
  BY <1>1, <1>2 DEF IInv, CallsAccountedFor, SlotsInv
<1>4. CollectedOrdersArePending'
  <2>1. CASE OpenOrdersArrived
    BY <2>1, SlotOperations
       DEF IInv, TypeOK, OpenOrdersArrived, CollectedOrdersArePending
  <2>2. CASE StaleOrdersArrived(due)
    BY <2>2, SlotOperations
       DEF IInv, TypeOK, StaleOrdersArrived, CheckStaleOrders, AskIf,
           CollectedOrdersArePending
  <2>3. CASE PeriodicCheck(due)
    BY <2>3, SlotOperations
       DEF IInv, TypeOK, PeriodicCheck, CheckStaleOrders, AskIf,
           CollectedOrdersArePending
  <2>4. QED
    BY <2>1, <2>2, <2>3
<1>5. NeverUnexpected'
  \* A response means nothing is pending, hence nothing was collected.
  BY DEF IInv, NeverUnexpected, CollectedOrdersArePending, HasResponse,
         OpenOrdersArrived, StaleOrdersArrived, PeriodicCheck
<1>6. EvidenceInv'
  <2>1. CASE OpenOrdersArrived
    <3>1. evidence = "answered" /\ ~open_orders.pending
      BY <2>1 DEF IInv, EvidenceInv, SlotsInv, OpenOrdersArrived, HasResponse
    <3>2. QED
      BY <2>1, <3>1 DEF IInv, EvidenceInv, OpenOrdersArrived, DropCopyReady
  <2>2. CASE StaleOrdersArrived(due)
    <3>1. details = {} /\ info_calls = {}
      BY <2>2 DEF IInv, CollectedOrdersArePending, SlotsInv,
                  CallsAccountedFor, StaleOrdersArrived, HasResponse
    <3>2. QED
      BY <2>2, <3>1 DEF IInv, EvidenceInv, StaleOrdersArrived,
                        CheckStaleOrders, DropCopyReady
  <2>3. CASE PeriodicCheck(due)
    BY <2>3 DEF IInv, EvidenceInv, PeriodicCheck, CheckStaleOrders,
                DropCopyReady
  <2>4. QED
    BY <2>1, <2>2, <2>3
<1>7. SubscriptionInv'
  BY DEF IInv, TypeOK, SubscriptionInv, AckedBefore, State, Subscriptions,
         OpenOrdersArrived, StaleOrdersArrived, PeriodicCheck
<1>8. QED
  BY <1>3, <1>4, <1>5, <1>6, <1>7

\* Sending: RequestReady says that neither slot is on the wire, hence that
\* no call is, so that the batch sent is the only one.
LEMMA RestTimerIInv ==
  ASSUME IInv, RestTimer
  PROVE  /\ NeverUnexpected' /\ CallsAccountedFor'
         /\ CollectedOrdersArePending' /\ SlotsInv' /\ EvidenceInv'
         /\ SubscriptionInv'
<1> USE DEF RestTimer, socketVars, cacheVars
<1>1. /\ ~open_orders.in_flight /\ ~stale_orders.in_flight
      /\ info_calls = {} /\ counter = 0 /\ open_calls = 0
  BY FS_EmptySet DEF RequestReady, SlotReady, IInv, CallsAccountedFor
<1>2. NeverUnexpected' /\ SubscriptionInv'
  BY DEF IInv, NeverUnexpected, SubscriptionInv, SendOpenOrders,
         SendStaleOrders
<1>3. CASE SendOpenOrders
  <2>1. /\ ~open_orders'.pending /\ open_orders'.in_flight
        /\ ~open_orders'.responded
    BY <1>3, SlotOperations DEF IInv, TypeOK, SendOpenOrders
  <2>2. CallsAccountedFor' /\ CollectedOrdersArePending' /\ SlotsInv'
    BY <1>1, <1>3, <2>1 DEF IInv, CallsAccountedFor, SlotsInv,
                        CollectedOrdersArePending, SendOpenOrders
  <2>3. EvidenceInv'
    BY <1>3, <2>1 DEF IInv, EvidenceInv, SendOpenOrders, DropCopyReady
  <2>4. QED
    BY <1>2, <2>2, <2>3
<1>4. CASE SendStaleOrders
  <2> DEFINE found == details \cap known
  <2>1. /\ ~stale_orders'.pending /\ stale_orders'.in_flight
        /\ ~stale_orders'.responded
    BY <1>4, SlotOperations DEF IInv, TypeOK, SendStaleOrders
  <2>2. info_calls' = found /\ counter' = 0 + Cardinality(found)
    BY <1>1, <1>4 DEF SendStaleOrders
  <2>3. Cardinality(found) \in Nat
    BY FoundIsFinite DEF IInv, TypeOK
  <2>4. CallsAccountedFor'
    BY <1>1, <1>4, <2>1, <2>2, <2>3 DEF CallsAccountedFor, SendStaleOrders
  <2>5. CollectedOrdersArePending' /\ SlotsInv'
    BY <1>1, <1>4, <2>1 DEF IInv, CollectedOrdersArePending, SlotsInv,
                            SendStaleOrders
  <2>6. EvidenceInv'
    BY <1>4, <2>2 DEF IInv, EvidenceInv, SendStaleOrders, DropCopyReady
  <2>7. QED
    BY <1>2, <2>4, <2>5, <2>6
<1>5. QED
  BY <1>3, <1>4

LEMMA OpenOrdersAckIInv ==
  ASSUME IInv, NEW listed \in SUBSET Orders, OpenOrdersAck(listed)
  PROVE  /\ NeverUnexpected' /\ CallsAccountedFor'
         /\ CollectedOrdersArePending' /\ SlotsInv' /\ EvidenceInv'
         /\ SubscriptionInv'
<1> USE DEF OpenOrdersAck, socketVars
<1>1. /\ open_orders'.pending = open_orders.pending
      /\ ~open_orders'.in_flight
  BY SlotOperations DEF IInv, TypeOK
<1>2. open_orders.in_flight /\ open_calls = 1
  BY DEF IInv, CallsAccountedFor
<1>3. CallsAccountedFor' /\ CollectedOrdersArePending' /\ SlotsInv'
  BY <1>1, <1>2 DEF IInv, CallsAccountedFor, CollectedOrdersArePending,
                    SlotsInv
<1>4. EvidenceInv'
  BY <1>1 DEF IInv, EvidenceInv, DropCopyReady
<1>5. NeverUnexpected' /\ SubscriptionInv'
  BY DEF IInv, NeverUnexpected, SubscriptionInv
<1>6. QED
  BY <1>3, <1>4, <1>5

\* Answering: the order has a call on the wire, so the counter is positive.
LEMMA OrderInfoAckIInv ==
  ASSUME IInv, NEW o \in Orders, NEW settled \in BOOLEAN,
         OrderInfoAck(o, settled)
  PROVE  /\ NeverUnexpected' /\ CallsAccountedFor'
         /\ CollectedOrdersArePending' /\ SlotsInv' /\ EvidenceInv'
         /\ SubscriptionInv'
<1> USE DEF OrderInfoAck, socketVars
<1>1. IsFiniteSet(info_calls) /\ o \in info_calls
  BY FoundIsFinite DEF IInv, TypeOK
<1>2. Cardinality(info_calls \ {o}) = Cardinality(info_calls) - 1
  BY <1>1, FS_RemoveElement
<1>3. Cardinality(info_calls) > 0
  BY <1>1, <1>2, FS_CardinalityType, FS_RemoveElement, FS_EmptySet
<1>4. counter > 0 /\ counter' = Cardinality(info_calls')
  BY <1>2, <1>3 DEF IInv, CallsAccountedFor
<1>5. /\ stale_orders.in_flight
      /\ stale_orders'.pending = stale_orders.pending
      /\ info_calls' # {} => stale_orders'.in_flight
      /\ stale_orders'.in_flight => stale_orders' = stale_orders
  <2>1. CASE counter = 1
    <3>1. info_calls' = {}
      BY <2>1, <1>1, <1>2, FS_EmptySet, FS_Subset, FoundIsFinite
         DEF IInv, TypeOK, CallsAccountedFor
    <3>2. QED
      BY <2>1, <3>1, <1>4, SlotOperations DEF IInv, TypeOK, CallsAccountedFor
  <2>2. CASE counter # 1
    BY <2>2, <1>4 DEF IInv, CallsAccountedFor
  <2>3. QED
    BY <2>1, <2>2
<1>6. CallsAccountedFor' /\ CollectedOrdersArePending' /\ SlotsInv'
  BY <1>4, <1>5 DEF IInv, CallsAccountedFor, CollectedOrdersArePending,
                    SlotsInv
<1>7. EvidenceInv'
  BY DEF IInv, EvidenceInv, DropCopyReady
<1>8. NeverUnexpected' /\ SubscriptionInv'
  BY <1>4 DEF IInv, NeverUnexpected, SubscriptionInv
<1>9. QED
  BY <1>6, <1>7, <1>8

LEMMA NextIInv == IInv /\ [Next]_vars => IInv'
<1> SUFFICES ASSUME IInv, [Next]_vars PROVE IInv'
  OBVIOUS
<1>1. TypeOK'
  BY NextTypeOK DEF IInv
<1>2. /\ NeverUnexpected' /\ CallsAccountedFor'
      /\ CollectedOrdersArePending' /\ SlotsInv' /\ EvidenceInv'
      /\ SubscriptionInv'
  BY SocketStepsIInv, SubscribedIInv, DropCopyTimerIInv, RestTimerIInv,
     OpenOrdersAckIInv, OrderInfoAckIInv DEF Next, Steps, Dead
<1>3. QED
  BY <1>1, <1>2 DEF IInv

\* What IInv says of a drop copy that is ready.
LEMMA ReadyFacts == IInv => ReadyIsReconciled /\ ReadyIsSubscribed
<1> SUFFICES ASSUME IInv PROVE ReadyIsReconciled /\ ReadyIsSubscribed
  OBVIOUS
<1>1. ReadyIsReconciled
  BY DEF IInv, EvidenceInv, ReadyIsReconciled
<1>2. ReadyIsSubscribed
  BY DEF IInv, TypeOK, EvidenceInv, SubscriptionInv, ReadyIsSubscribed,
         AckedBefore, State
<1>3. QED
  BY <1>1, <1>2

LEMMA InvariantHolds == Spec => []IInv
BY InitIInv, NextIInv, PTL DEF Spec

-----------------------------------------------------------------------------
(* The theorems *)

\* The two log::fatal("Unexpected") of the recovery are unreachable.
THEOREM NoUnexpectedFatal == Spec => []NeverUnexpected
<1>1. IInv => NeverUnexpected
  BY DEF IInv
<1>2. QED
  BY <1>1, InvariantHolds, PTL

\* The batch counter is the number of calls on the wire.
THEOREM CallsAreAccountedFor == Spec => []CallsAccountedFor
<1>1. IInv => CallsAccountedFor
  BY DEF IInv
<1>2. QED
  BY <1>1, InvariantHolds, PTL

\* Collected orders are pending, and the other way round.
THEOREM CollectedOrdersAreAsked == Spec => []CollectedOrdersArePending
<1>1. IInv => CollectedOrdersArePending
  BY DEF IInv
<1>2. QED
  BY <1>1, InvariantHolds, PTL

\* READY rests on this session's own answers and subscriptions.
THEOREM ReadyIsEarned == Spec => [](ReadyIsReconciled /\ ReadyIsSubscribed)
BY InvariantHolds, ReadyFacts, PTL

-----------------------------------------------------------------------------
(* Refinement of StaleOrderBatches *)

\* When the order cache forgets nothing, every collected order is found, so
\* that a batch on the wire has a call to wait for.
BatchInv ==
  Forgettable = {} => /\ known = Orders
                      /\ stale_orders.in_flight => info_calls # {}

LEMMA BatchStep ==
  ASSUME IInv, BatchInv, Forgettable = {}, [Next]_vars
  PROVE  BatchInv' /\ [Batches!Next]_(Batches!batchVars)
<1> USE DEF Batches!batchVars, Batches!Next
<1>1. CASE RestTimer /\ SendStaleOrders
  <2>1. details # {} /\ details \subseteq known
    BY <1>1 DEF IInv, TypeOK, CollectedOrdersArePending, SendStaleOrders,
                BatchInv
  <2>2. ~stale_orders.in_flight /\ info_calls = {}
    BY <1>1 DEF RestTimer, RequestReady, SlotReady, IInv, CallsAccountedFor
  <2>3. stale_orders'.in_flight
    BY <1>1, SlotOperations DEF IInv, TypeOK, SendStaleOrders
  <2>4. info_calls' = details /\ details' = {}
    BY <1>1, <2>1, <2>2 DEF SendStaleOrders
  <2>5. stale_orders.in_flight = FALSE /\ stale_orders'.in_flight = TRUE
    BY <2>2, <2>3, NextTypeOK DEF IInv, TypeOK, RequestSlot
  <2>6. Batches!Dispatch
    BY <2>1, <2>4, <2>5 DEF Batches!Dispatch
  <2>7. BatchInv'
    BY <1>1, <2>1, <2>4 DEF BatchInv, RestTimer, cacheVars
  <2>8. QED
    BY <2>6, <2>7
<1>2. ASSUME NEW o \in Orders, NEW settled \in BOOLEAN,
             OrderInfoAck(o, settled)
      PROVE  BatchInv' /\ Batches!Answer(o)
  <2>1. CallsAccountedFor' /\ TypeOK'
    BY <1>2, OrderInfoAckIInv, NextTypeOK DEF IInv
  <2>2. Cardinality(info_calls') = 0 <=> info_calls' = {}
    BY <2>1, FoundIsFinite, FS_EmptySet DEF TypeOK
  <2>3. o \in info_calls /\ info_calls' = info_calls \ {o} /\ details' = details
    BY <1>2 DEF OrderInfoAck
  <2>4. stale_orders.in_flight /\ counter > 0
    BY <2>3, FS_EmptySet, FS_Subset, FoundIsFinite
       DEF IInv, TypeOK, CallsAccountedFor
  <2>5. counter' = counter - 1
    BY <1>2, <2>4 DEF OrderInfoAck
  <2>6. stale_orders'.in_flight <=> counter' # 0
    BY <1>2, <2>4, <2>5, SlotOperations DEF OrderInfoAck, IInv, TypeOK
  <2>7. stale_orders'.in_flight = (info_calls' # {})
    BY <2>1, <2>2, <2>6 DEF TypeOK, RequestSlot, CallsAccountedFor
  <2>8. Batches!Answer(o)
    BY <2>3, <2>7 DEF Batches!Answer
  <2>9. BatchInv'
    BY <1>2, <2>7 DEF OrderInfoAck, BatchInv
  <2>10. QED
    BY <2>8, <2>9
<1>3. ASSUME NEW due \in BOOLEAN, DropCopyTimer(due)
      PROVE  BatchInv' /\ [Batches!Next]_(Batches!batchVars)
  <2> DEFINE S == details'
  <2>1. details' = details \cup S /\ S \in SUBSET Orders
    BY <1>3, NextTypeOK
       DEF DropCopyTimer, OpenOrdersArrived, StaleOrdersArrived,
           PeriodicCheck, CheckStaleOrders, TypeOK, IInv
  <2>2. /\ stale_orders' \in {stale_orders, Requested(stale_orders)}
        /\ UNCHANGED <<info_calls, known>>
    BY <1>3 DEF DropCopyTimer, OpenOrdersArrived, StaleOrdersArrived,
                PeriodicCheck, CheckStaleOrders, AskIf, restVars, cacheVars
  <2>3. stale_orders'.in_flight = stale_orders.in_flight
    BY <2>2, SlotOperations DEF IInv, TypeOK
  <2>4. Batches!Collect(S)
    BY <2>1, <2>2, <2>3 DEF Batches!Collect
  <2>5. BatchInv'
    BY <2>2, <2>3 DEF BatchInv
  <2>6. QED
    BY <2>1, <2>4, <2>5
<1>4. CASE \/ DropCopyConnected \/ DropCopyDisconnected \/ ExchangeCloses
           \/ LogonAccepted \/ LogonRefused
           \/ \E topic \in Subscriptions, accepted \in BOOLEAN :
                Subscribed(topic, accepted)
           \/ \E o \in Orders : OrderUpdated(o)
           \/ RestConnected \/ RestDisconnected
           \/ RestTimer /\ SendOpenOrders
           \/ \E listed \in SUBSET Orders : OpenOrdersAck(listed)
           \/ \E o \in Orders : OrderGoesStale(o)
           \/ \E o \in Orders : OrderForgotten(o)
           \/ UNCHANGED vars
  <2>1. UNCHANGED <<details, info_calls, stale_orders, known>>
    BY <1>4
       DEF DropCopyConnected, DropCopyDisconnected, ExchangeCloses,
           LogonAccepted, LogonRefused, Subscribed, OrderUpdated,
           RestConnected, RestDisconnected, RestTimer, SendOpenOrders,
           OpenOrdersAck, OrderGoesStale, OrderForgotten, vars, socketVars,
           requestVars, restVars, cacheVars, historyVars
  <2>2. QED
    BY <2>1 DEF BatchInv
<1>5. QED
  BY <1>1, <1>2, <1>3, <1>4 DEF Next, Steps, Dead, RestTimer

\* With an order cache that forgets nothing, the recovery implements the
\* batches: none overlaps another, none waits for answers nobody owes.
THEOREM RecoveryImplementsBatches ==
  ASSUME Forgettable = {}
  PROVE  Spec => BatchesRefined
<1>1. Init => Batches!Init /\ BatchInv
  BY DEF Init, Idle, Batches!Init, BatchInv
<1>2. IInv /\ BatchInv /\ [Next]_vars =>
        BatchInv' /\ [Batches!Next]_(Batches!batchVars)
  BY BatchStep
<1>3. QED
  BY <1>1, <1>2, InvariantHolds, PTL DEF Spec, BatchesRefined, Batches!Spec

-----------------------------------------------------------------------------
(* OrderLifecycle5 *)

\* The orders topic is live on this connection.
OrdersLive == socket # "down" /\ "SUBSCRIBE_ORDERS" \in subscribed

\* Before it is asked for, an order is nowhere.
UnknownInv ==
  /\ request = "none" =>
       /\ told = "none" /\ ~doubt
       /\ Followed \notin stale \cup details \cup info_calls
       /\ listing.status \in {"unread", "none"}
  /\ request # "over" => exchange = "none"

\* The stream ends with what is the case, unless it is about to be lost.
StreamInv ==
  /\ exchange = "none" => stream = <<>>
  /\ exchange = "live" => stream \in {<<>>, <<"live">>}
  /\ stream # <<>> => OrdersLive
  /\ Listening /\ exchange = "done" => stream # <<"live">>

\* An answer that the stream vouches for is the case.
AnswerInv ==
  /\ \A answer \in {listing, info} :
       answer.vouched => OrdersLive /\ answer.status = exchange
  /\ info.vouched => request = "over"

\* What was told for certain of the end of an order is the end.
FinalInv ==
  ~hearsay =>
    /\ told = "done" => exchange = "done"
    /\ told = "rejected" => exchange = "none" /\ request = "over"

\* Without doubt or hearsay, something is told as it is or on its way.
CertainInv ==
  ~hearsay /\ ~doubt =>
    /\ request # "none" /\ ~Final => OrdersLive
    /\ Agrees \/ socket = "closing" \/ (Listening /\ stream # <<>>)

\* An order that is in doubt, and that the recovery of this session has not
\* found, was asked for after it looked.
FoundInv ==
  download \in {"GET_STALE_ORDERS", "DONE"} /\ doubt /\ Followed \notin stale =>
    /\ told = "none"
    /\ \/ exchange = "none" \/ stream # <<>> \/ ~Listening

LInv ==
  /\ LifecycleTypeOK
  /\ UnknownInv
  /\ StreamInv
  /\ AnswerInv
  /\ FinalInv
  /\ CertainInv
  /\ FoundInv
-----------------------------------------------------------------------------
(* The recovery of OrderRecovery5 goes on *)

LEMMA LifecycleStepIsStep == [LifecycleNext]_lifecycleVars => [Next]_vars
<1> SUFFICES ASSUME [LifecycleNext]_lifecycleVars PROVE [Next]_vars
  OBVIOUS
<1>1. CASE \/ RequestCreate \/ CreateFails \/ CreateSucceeds \/ OrderEnds
           \/ ReadOpenOrders \/ ReadOrderInfo \/ UNCHANGED lifecycleVars
  BY <1>1 DEF RequestCreate, CreateFails, CreateSucceeds, OrderEnds, Happens,
              ReadOpenOrders, ReadOrderInfo, lifecycleVars
<1>2. CASE FollowedUpdated
  BY <1>2, FollowedAssumption DEF FollowedUpdated, Next, Steps
<1>3. ASSUME NEW o \in Orders, OtherUpdated(o) PROVE Next
  BY <1>3 DEF OtherUpdated, Next, Steps
<1>4. ASSUME NEW listed \in SUBSET Orders, FollowedListed(listed) PROVE Next
  BY <1>4 DEF FollowedListed, Next, Steps
<1>5. ASSUME NEW settled \in BOOLEAN, FollowedInfo(settled) PROVE Next
  BY <1>5, FollowedAssumption DEF FollowedInfo, Next, Steps
<1>6. ASSUME NEW o \in Orders, NEW settled \in BOOLEAN, OtherInfo(o, settled)
      PROVE  Next
  BY <1>6 DEF OtherInfo, Next, Steps
<1>7. CASE StreamLost
  BY <1>7 DEF StreamLost, Next, Steps
<1>8. ASSUME NEW due \in BOOLEAN, RecoveryTimer(due) PROVE Next
  BY <1>8 DEF RecoveryTimer, Next, Steps
<1>9. ASSUME NEW o \in Orders, OrderDoubted(o) PROVE Next
  BY <1>9 DEF OrderDoubted, Next, Steps
<1>10. CASE RecoveryStep \/ Dead
  BY <1>10 DEF RecoveryStep, Next, Steps
<1>11. QED
  BY <1>1, <1>2, <1>3, <1>4, <1>5, <1>6, <1>7, <1>8, <1>9, <1>10
     DEF LifecycleNext

LEMMA LifecycleIInv == LifecycleSpec => []IInv
<1>1. LifecycleInit => IInv
  BY InitIInv DEF LifecycleInit
<1>2. IInv /\ [LifecycleNext]_lifecycleVars => IInv'
  BY NextIInv, LifecycleStepIsStep
<1>3. QED
  BY <1>1, <1>2, PTL DEF LifecycleSpec

-----------------------------------------------------------------------------
(* What is known of the followed order *)

LEMMA InitLInv == LifecycleInit => LInv
<1> SUFFICES ASSUME LifecycleInit PROVE LInv
  OBVIOUS
<1>1. TypeOK
  BY InitTypeOK DEF LifecycleInit
<1>2. LifecycleTypeOK
  BY <1>1 DEF LifecycleTypeOK, LifecycleInit, Unread, Answers
<1>3. UnknownInv /\ FinalInv /\ CertainInv /\ FoundInv
  BY DEF LifecycleInit, Init, UnknownInv, FinalInv, CertainInv, FoundInv,
         Agrees, Final, Unread
<1>4. StreamInv /\ AnswerInv
  BY DEF LifecycleInit, StreamInv, AnswerInv, Unread
<1>5. QED
  BY <1>2, <1>3, <1>4 DEF LInv

\* An answer that something happens to keeps its status.
LEMMA AnswerOperations ==
  ASSUME NEW a \in Answers
  PROVE  /\ Outdated(a) \in Answers
         /\ ~Outdated(a).vouched /\ Outdated(a).status = a.status
         /\ Unread \in Answers /\ ~Unread.vouched
         /\ Unread.status = "unread"
         /\ a # Unread /\ ~a.vouched => a.status # "unread"
BY DEF Outdated, Unread, Answers

\* Clients were told what is the case, spelled out.
LEMMA AgreesMeans ==
  ASSUME exchange \in {"none", "live", "done"}
  PROVE  Agrees <=> \/ exchange = "none" /\ told \in {"none", "rejected"}
                    \/ exchange # "none" /\ told = exchange
BY DEF Agrees

\* The updates a stream can carry.
LEMMA StreamOperations ==
  /\ Append(<<>>, "live") = <<"live">> /\ Append(<<>>, "done") = <<"done">>
  /\ Append(<<"live">>, "done") = <<"live", "done">>
  /\ Head(<<"live">>) = "live" /\ Tail(<<"live">>) = <<>>
  /\ Head(<<"done">>) = "done" /\ Tail(<<"done">>) = <<>>
  /\ Head(<<"live", "done">>) = "live"
  /\ Tail(<<"live", "done">>) = <<"done">>
  /\ <<"live">> # <<>> /\ <<"done">> # <<>> /\ <<"live", "done">> # <<>>
  /\ <<"done">> # <<"live">> /\ <<"live", "done">> # <<"live">>
<1>1. /\ Append(<<>>, "live") = <<"live">> /\ Append(<<>>, "done") = <<"done">>
  OBVIOUS
<1>2. Append(<<"live">>, "done") = <<"live", "done">>
  <2> DEFINE updates == {"live", "done"}
             longer == Append(<<"live">>, "done")
  <2>1. <<"live">> \in Seq(updates)
    OBVIOUS
  <2>2. Len(<<"live">>) = 1 /\ <<"live">>[1] = "live"
    OBVIOUS
  <2> HIDE DEF longer
  <2>3. longer \in Seq(updates) /\ Len(longer) = 2
    BY <2>1, <2>2, AppendProperties DEF longer
  <2>4. longer[1] = "live"
    BY <2>1, <2>2, AppendProperties DEF longer
  <2>5. longer[2] = "done"
    BY <2>1, <2>2, AppendProperties DEF longer
  <2>6. longer = <<"live", "done">>
    BY <2>3, <2>4, <2>5
  <2>7. QED
    BY <2>6 DEF longer
<1>3. Head(<<"live">>) = "live" /\ Head(<<"done">>) = "done"
      /\ Head(<<"live", "done">>) = "live"
  OBVIOUS
<1>4. Tail(<<"live">>) = <<>> /\ Tail(<<"done">>) = <<>>
  OBVIOUS
<1>5. Tail(<<"live", "done">>) = <<"done">>
  OBVIOUS
<1>6. /\ <<"live">> # <<>> /\ <<"done">> # <<>> /\ <<"live", "done">> # <<>>
  OBVIOUS
<1>7. <<"done">> # <<"live">> /\ <<"live", "done">> # <<"live">>
  OBVIOUS
<1>8. QED
  BY <1>1, <1>2, <1>3, <1>4, <1>5, <1>6, <1>7

\* The steps that neither tell anything nor change the order nor the stream.
LEMMA CallStepsLInv ==
  ASSUME LInv, IInv, IInv',
         RequestCreate \/ CreateFails \/ ReadOpenOrders \/ ReadOrderInfo
  PROVE  LInv'
<1> USE DEF LInv
<1>1. UNCHANGED <<vars, exchange, stream, told, hearsay>>
  BY DEF RequestCreate, CreateFails, ReadOpenOrders, ReadOrderInfo, toldVars
<1>2. UNCHANGED <<socket, subscribed, download, stale, details, info_calls>>
  BY <1>1 DEF vars, socketVars, requestVars, restVars, cacheVars
<1>3. /\ OrdersLive' = OrdersLive /\ Listening' = Listening
      /\ Agrees' = Agrees /\ Final' = Final
  BY <1>1, <1>2 DEF OrdersLive, Listening, Agrees, Final
<1>4. StreamInv'
  BY <1>1, <1>3 DEF StreamInv
<1>5. CASE RequestCreate
  <2>1. /\ request = "none" /\ request' = "sent" /\ doubt'
        /\ UNCHANGED <<listing, info>>
    BY <1>5 DEF RequestCreate
  <2>2. exchange = "none" /\ told = "none"
    BY <2>1 DEF UnknownInv
  <2>3. LifecycleTypeOK'
    BY <1>1, <1>5, <2>1 DEF IInv, LifecycleTypeOK, RequestCreate
  <2>4. UnknownInv' /\ FinalInv' /\ CertainInv' /\ FoundInv'
    BY <1>1, <2>1, <2>2 DEF UnknownInv, FinalInv, CertainInv, FoundInv
  <2>5. AnswerInv'
    BY <1>1, <1>3, <2>1 DEF AnswerInv
  <2>6. QED
    BY <1>4, <2>3, <2>4, <2>5
<1>6. CASE CreateFails
  <2>1. /\ request = "sent" /\ request' = "over"
        /\ UNCHANGED <<listing, info, doubt>>
    BY <1>6 DEF CreateFails, toldVars
  <2>2. LifecycleTypeOK'
    BY <1>1, <2>1 DEF IInv, LifecycleTypeOK
  <2>3. UnknownInv' /\ FinalInv' /\ CertainInv' /\ FoundInv'
    BY <1>1, <1>2, <1>3, <2>1
       DEF UnknownInv, FinalInv, CertainInv, FoundInv
  <2>4. AnswerInv'
    BY <1>1, <1>3, <2>1 DEF AnswerInv
  <2>5. QED
    BY <1>4, <2>2, <2>3, <2>4
<1>7. CASE ReadOpenOrders \/ ReadOrderInfo
  <2>1. UNCHANGED <<request, doubt>>
    BY <1>7 DEF ReadOpenOrders, ReadOrderInfo, toldVars
  <2>2. /\ Read \in Answers /\ Read.status = exchange
        /\ Read.vouched => OrdersLive /\ request # "sent"
    BY DEF LifecycleTypeOK, Read, Answers, Vouched, Listening, OrdersLive
  <2>3. \/ listing' = Read /\ info' = info
        \/ info' = Read /\ listing' = listing /\ Followed \in info_calls
    BY <1>7 DEF ReadOpenOrders, ReadOrderInfo
  <2>4. LifecycleTypeOK'
    BY <1>1, <2>1, <2>2, <2>3 DEF IInv, LifecycleTypeOK
  <2>5. UnknownInv'
    BY <1>1, <1>2, <2>1, <2>2, <2>3 DEF UnknownInv
  <2>6. FinalInv' /\ CertainInv' /\ FoundInv'
    BY <1>1, <1>2, <1>3, <2>1 DEF FinalInv, CertainInv, FoundInv
  <2>7. AnswerInv'
    BY <1>1, <1>3, <2>1, <2>2, <2>3 DEF AnswerInv, UnknownInv, LifecycleTypeOK
  <2>8. QED
    BY <1>4, <2>4, <2>5, <2>6, <2>7
<1>8. QED
  BY <1>5, <1>6, <1>7

\* The order comes into being or ends: the stream reports it while it is live.
LEMMA HappeningsLInv ==
  ASSUME LInv, IInv, IInv', CreateSucceeds \/ OrderEnds
  PROVE  LInv'
<1> USE DEF LInv
<1>1. UNCHANGED <<vars, told, hearsay, doubt>> /\ request' = "over"
  BY DEF CreateSucceeds, OrderEnds, Happens, toldVars, UnknownInv,
         LifecycleTypeOK
<1>2. UNCHANGED <<socket, subscribed, download, stale, details, info_calls>>
  BY <1>1 DEF vars, socketVars, requestVars, restVars, cacheVars
<1>3. OrdersLive' = OrdersLive /\ Listening' = Listening /\ Final' = Final
  BY <1>1, <1>2 DEF OrdersLive, Listening, Final
<1>4. /\ listing' \in Answers /\ ~listing'.vouched
      /\ info' \in Answers /\ ~info'.vouched
  BY AnswerOperations
     DEF CreateSucceeds, OrderEnds, Happens, LifecycleTypeOK
<1>5. AnswerInv' /\ UnknownInv'
  BY <1>1, <1>4 DEF AnswerInv, UnknownInv
<1>6. Listening => OrdersLive
  BY DEF Listening, OrdersLive
<1>7. CASE CreateSucceeds
  <2>1. /\ request = "sent" /\ exchange = "none" /\ exchange' = "live"
        /\ stream = <<>>
        /\ stream' = IF Listening THEN Append(stream, "live") ELSE stream
    BY <1>7 DEF CreateSucceeds, Happens, UnknownInv, StreamInv
  <2>2. stream' = IF Listening THEN <<"live">> ELSE <<>>
    BY <2>1
  <2>3. LifecycleTypeOK'
    BY <1>1, <1>4, <2>1, <2>2 DEF IInv, LifecycleTypeOK
  <2>4. StreamInv'
    BY <1>3, <1>6, <2>1, <2>2 DEF StreamInv
  <2>5. ~hearsay => told \notin {"done", "rejected"}
    BY <2>1 DEF FinalInv
  <2>6. FinalInv'
    BY <1>1, <2>5 DEF FinalInv
  <2>7. CertainInv'
    <3>1. SUFFICES ASSUME ~hearsay, ~doubt PROVE CertainInv'
      BY <1>1 DEF CertainInv
    <3>2. OrdersLive
      BY <2>1, <2>5, <3>1 DEF CertainInv, Final
    <3>3. Listening \/ socket = "closing"
      BY <3>2 DEF OrdersLive, Listening, IInv, TypeOK
    <3>4. <<"live">> # <<>>
      OBVIOUS
    <3>5. QED
      BY <1>2, <1>3, <2>2, <3>2, <3>3, <3>4 DEF CertainInv
  <2>8. FoundInv'
    BY <1>1, <1>2, <1>3, <2>1, <2>2 DEF FoundInv
  <2>9. QED
    BY <1>5, <2>3, <2>4, <2>6, <2>7, <2>8
<1>8. CASE OrderEnds
  <2>1. /\ exchange = "live" /\ exchange' = "done"
        /\ stream \in {<<>>, <<"live">>}
        /\ stream' = IF Listening THEN Append(stream, "done") ELSE stream
    BY <1>8 DEF OrderEnds, Happens, StreamInv
  <2>2. /\ Listening => stream' \in {<<"done">>, <<"live", "done">>}
        /\ ~Listening => stream' = stream
    BY <2>1, StreamOperations
  <2>3. LifecycleTypeOK'
    BY <1>1, <1>4, <2>1, <2>2 DEF IInv, LifecycleTypeOK
  <2>4. /\ Listening => stream' # <<>> /\ stream' # <<"live">>
        /\ ~Listening => stream' = stream
    BY <2>2, StreamOperations
  <2>5. StreamInv'
    BY <1>3, <1>6, <2>1, <2>4 DEF StreamInv
  <2>6. ~hearsay => told \notin {"done", "rejected"}
    BY <2>1 DEF FinalInv
  <2>7. FinalInv'
    BY <1>1, <2>6 DEF FinalInv
  <2>8. CertainInv'
    <3>1. SUFFICES ASSUME ~hearsay, ~doubt PROVE CertainInv'
      BY <1>1 DEF CertainInv
    <3>2. OrdersLive
      BY <2>1, <2>6, <3>1 DEF CertainInv, Final, UnknownInv
    <3>3. Listening \/ socket = "closing"
      BY <3>2 DEF OrdersLive, Listening, IInv, TypeOK
    <3>4. QED
      BY <1>2, <1>3, <2>4, <3>2, <3>3 DEF CertainInv
  <2>9. FoundInv'
    BY <1>1, <1>2, <1>3, <2>1, <2>4 DEF FoundInv
  <2>10. QED
    BY <1>5, <2>3, <2>5, <2>7, <2>8, <2>9
<1>9. QED
  BY <1>7, <1>8

\* An update of the stream is the case, or the next one is on its way.
LEMMA FollowedUpdatedLInv ==
  ASSUME LInv, IInv, IInv', FollowedUpdated
  PROVE  LInv'
<1> USE DEF LInv
<1>1. /\ UNCHANGED <<request, exchange, listing, info>>
      /\ stream # <<>> /\ Listening
      /\ told' = Head(stream) /\ doubt' = FALSE /\ hearsay' = FALSE
      /\ stream' = Tail(stream)
  BY DEF FollowedUpdated, Tell
<1>2. /\ UNCHANGED <<socket, subscribed, download, details, info_calls>>
      /\ stale' \subseteq stale
  BY DEF FollowedUpdated, OrderUpdated, vars, socketVars, requestVars,
         restVars, cacheVars
<1>3. OrdersLive /\ OrdersLive' /\ Listening'
  BY <1>1, <1>2 DEF OrdersLive, Listening
<1>4. exchange # "none" /\ request = "over"
  BY <1>1 DEF StreamInv, UnknownInv, LifecycleTypeOK
<1>5. \/ stream = <<"live">> /\ exchange = "live"
      \/ stream = <<"done">> /\ exchange = "done"
      \/ stream = <<"live", "done">> /\ exchange = "done"
  BY <1>1, <1>4 DEF StreamInv, LifecycleTypeOK
<1>6. \/ told' = exchange' /\ stream' = <<>>
      \/ told' = "live" /\ exchange' = "done" /\ stream' = <<"done">>
  BY <1>1, <1>5, StreamOperations
<1>7. LifecycleTypeOK'
  BY <1>1, <1>6 DEF IInv, LifecycleTypeOK
<1>8. UnknownInv' /\ AnswerInv'
  BY <1>1, <1>3, <1>4 DEF UnknownInv, AnswerInv
<1>9. StreamInv'
  BY <1>1, <1>3, <1>4, <1>6 DEF StreamInv
<1>10. FinalInv' /\ FoundInv'
  BY <1>1, <1>4, <1>6, <1>7 DEF FinalInv, FoundInv, LifecycleTypeOK
<1>11. Agrees' \/ stream' # <<>>
  BY <1>1, <1>4, <1>6 DEF Agrees
<1>12. CertainInv'
  BY <1>3, <1>11 DEF CertainInv
<1>13. QED
  BY <1>7, <1>8, <1>9, <1>10, <1>12

\* What an answer that tells of the order leaves behind: it is the case, or
\* the stream does not vouch for it.
LEMMA ToldByAnswer ==
  ASSUME LInv, NEW answer \in {listing, info}, answer # Unread,
         Tell(StatusTold(answer.status), answer.vouched),
         UNCHANGED <<socket, subscribed, exchange, stream, request>>,
         answer.vouched => request = "over",
         request # "none"
  PROVE  /\ told' \in {"none", "live", "done", "rejected"}
         /\ doubt' = FALSE /\ hearsay' \in BOOLEAN
         /\ FinalInv' /\ CertainInv' /\ FoundInv'
<1> USE DEF LInv, Tell
<1>1. answer \in Answers /\ (answer.vouched => answer.status = exchange)
  BY DEF LifecycleTypeOK, AnswerInv
<1>2. answer.vouched \in BOOLEAN /\ exchange \in {"none", "live", "done"}
  BY <1>1 DEF Answers, LifecycleTypeOK
<1>3. answer.status \in {"none", "live", "done"}
  BY <1>1, <1>2 DEF Answers, LifecycleTypeOK, Unread
<1>4. /\ told' = StatusTold(answer.status)
      /\ told' \in {"none", "live", "done", "rejected"}
      /\ doubt' = FALSE /\ hearsay' \in BOOLEAN
  BY <1>2, <1>3 DEF StatusTold
<1>5. FoundInv'
  BY <1>4 DEF FoundInv
<1>6. CASE answer.vouched
  <2>1. OrdersLive' /\ OrdersLive
    BY <1>6 DEF AnswerInv, OrdersLive
  <2>2. told' = IF exchange' = "none" THEN "rejected" ELSE exchange'
    BY <1>1, <1>4, <1>6 DEF StatusTold
  <2>3. FinalInv'
    BY <1>2, <1>6, <2>2 DEF FinalInv
  <2>4. Agrees'
    BY <1>2, <2>2 DEF Agrees
  <2>5. CertainInv'
    BY <2>1, <2>4 DEF CertainInv
  <2>6. QED
    BY <1>4, <1>5, <2>3, <2>5
<1>7. CASE ~answer.vouched
  BY <1>4, <1>5, <1>7 DEF FinalInv, CertainInv
<1>8. QED
  BY <1>6, <1>7

LEMMA FollowedListedLInv ==
  ASSUME LInv, IInv, IInv', NEW listed \in SUBSET Orders,
         FollowedListed(listed)
  PROVE  LInv'
<1> USE DEF LInv, FollowedListed
<1>1. /\ UNCHANGED <<request, exchange, stream, info>> /\ listing' = Unread
      /\ UNCHANGED <<socket, subscribed, download, details, info_calls>>
      /\ stale' = stale \ listed
  BY DEF OpenOrdersAck, socketVars
<1>2. OrdersLive' = OrdersLive /\ Listening' = Listening
  BY <1>1 DEF OrdersLive, Listening
<1>3. AnswerInv' /\ StreamInv' /\ listing' \in Answers
  BY <1>1, <1>2, AnswerOperations DEF AnswerInv, StreamInv, LifecycleTypeOK
<1>4. CASE Followed \in listed
  <2>1. /\ listing.status = "live" /\ listing # Unread
        /\ Tell(StatusTold(listing.status), listing.vouched)
    BY <1>4 DEF Unread, StatusTold
  <2>2. request # "none" /\ (listing.vouched => request = "over")
    BY <2>1 DEF UnknownInv, AnswerInv, LifecycleTypeOK
  <2>3. /\ told' \in {"none", "live", "done", "rejected"}
        /\ doubt' = FALSE /\ hearsay' \in BOOLEAN
        /\ FinalInv' /\ CertainInv' /\ FoundInv'
    BY <1>1, <2>1, <2>2, ToldByAnswer
  <2>4. LifecycleTypeOK'
    BY <1>1, <1>3, <2>3 DEF IInv, LifecycleTypeOK
  <2>5. UnknownInv'
    BY <1>1, <2>2 DEF UnknownInv
  <2>6. QED
    BY <1>3, <2>3, <2>4, <2>5
<1>5. CASE Followed \notin listed
  <2>1. /\ UNCHANGED <<told, doubt, hearsay>>
        /\ Followed \in stale <=> Followed \in stale'
    BY <1>1, <1>5 DEF toldVars
  <2>2. Agrees' = Agrees /\ Final' = Final
    BY <1>1, <2>1 DEF Agrees, Final
  <2>3. LifecycleTypeOK'
    BY <1>1, <1>3, <2>1 DEF IInv, LifecycleTypeOK
  <2>4. UnknownInv'
    BY <1>1, <2>1 DEF UnknownInv, Unread
  <2>5. FinalInv' /\ CertainInv' /\ FoundInv'
    BY <1>1, <1>2, <2>1, <2>2 DEF FinalInv, CertainInv, FoundInv
  <2>6. QED
    BY <1>3, <2>3, <2>4, <2>5
<1>6. QED
  BY <1>4, <1>5

LEMMA FollowedInfoLInv ==
  ASSUME LInv, IInv, IInv', NEW settled \in BOOLEAN, FollowedInfo(settled)
  PROVE  LInv'
<1> USE DEF LInv, FollowedInfo
<1>1. /\ UNCHANGED <<request, exchange, stream, listing>> /\ info' = Unread
      /\ UNCHANGED <<socket, subscribed, download, details>>
      /\ info_calls' = info_calls \ {Followed}
      /\ Followed \in info_calls
      /\ stale' = IF settled THEN stale \ {Followed} ELSE stale
  BY DEF OrderInfoAck, socketVars
<1>2. OrdersLive' = OrdersLive /\ Listening' = Listening
  BY <1>1 DEF OrdersLive, Listening
<1>3. AnswerInv' /\ StreamInv' /\ info' \in Answers
  BY <1>1, <1>2, AnswerOperations DEF AnswerInv, StreamInv, LifecycleTypeOK
<1>4. request # "none"
  BY <1>1 DEF UnknownInv
<1>5. UnknownInv'
  BY <1>1, <1>4 DEF UnknownInv
<1>6. CASE settled
  <2>1. info # Unread /\ Tell(StatusTold(info.status), info.vouched)
    BY <1>6
  <2>2. info.vouched => request = "over"
    BY DEF AnswerInv
  <2>3. /\ told' \in {"none", "live", "done", "rejected"}
        /\ doubt' = FALSE /\ hearsay' \in BOOLEAN
        /\ FinalInv' /\ CertainInv' /\ FoundInv'
    BY <1>1, <1>4, <2>1, <2>2, ToldByAnswer
  <2>4. LifecycleTypeOK'
    BY <1>1, <1>3, <2>3 DEF IInv, LifecycleTypeOK
  <2>5. QED
    BY <1>3, <1>5, <2>3, <2>4
<1>7. CASE ~settled
  <2>1. UNCHANGED <<told, doubt, hearsay, stale>>
    BY <1>1, <1>7 DEF toldVars
  <2>2. Agrees' = Agrees /\ Final' = Final
    BY <1>1, <2>1 DEF Agrees, Final
  <2>3. LifecycleTypeOK'
    BY <1>1, <1>3, <2>1 DEF IInv, LifecycleTypeOK
  <2>4. FinalInv' /\ CertainInv' /\ FoundInv'
    BY <1>1, <1>2, <2>1, <2>2 DEF FinalInv, CertainInv, FoundInv
  <2>5. QED
    BY <1>3, <1>5, <2>3, <2>4
<1>8. QED
  BY <1>6, <1>7

\* Whatever the stream has not said yet is in doubt from here on.
LEMMA StreamLostLInv ==
  ASSUME LInv, IInv, IInv', StreamLost
  PROVE  LInv'
<1> USE DEF LInv, StreamLost
<1>1. /\ UNCHANGED <<request, exchange, told, hearsay>>
      /\ UNCHANGED <<stale, details, info_calls>>
      /\ stream' = <<>> /\ socket' = "down" /\ download' = "UNDEFINED"
      /\ doubt' = (doubt \/ (request # "none" /\ ~Final))
  BY DEF DropCopyDisconnected, requestVars, restVars, cacheVars
<1>2. /\ listing' \in Answers /\ ~listing'.vouched
      /\ listing'.status = listing.status
      /\ info' \in Answers /\ ~info'.vouched
  BY AnswerOperations DEF LifecycleTypeOK
<1>3. LifecycleTypeOK'
  BY <1>1, <1>2 DEF IInv, LifecycleTypeOK
<1>4. /\ ~doubt' => ~doubt /\ (request = "none" \/ Final)
      /\ ~doubt /\ request = "none" => ~doubt'
  BY <1>1
<1>5. UnknownInv'
  BY <1>1, <1>2, <1>4 DEF UnknownInv
<1>6. AnswerInv' /\ FinalInv' /\ FoundInv'
  BY <1>1, <1>2 DEF AnswerInv, FinalInv, FoundInv
<1>7. StreamInv'
  BY <1>1, StreamOperations DEF StreamInv, Listening
<1>8. CertainInv'
  <2>1. SUFFICES ASSUME ~hearsay, ~doubt, request = "none" \/ Final
                 PROVE  CertainInv'
    BY <1>1, <1>4 DEF CertainInv
  <2>2. Agrees
    BY <2>1 DEF UnknownInv, FinalInv, Final, Agrees
  <2>3. Agrees' /\ (request' # "none" => Final')
    BY <1>1, <2>1, <2>2 DEF Agrees, Final
  <2>4. QED
    BY <2>3 DEF CertainInv
<1>9. QED
  BY <1>3, <1>5, <1>6, <1>7, <1>8

\* Steps of the recovery that say nothing of the followed order.
QuietStep ==
  \/ \E o \in Orders : OtherUpdated(o)
  \/ \E o \in Orders, settled \in BOOLEAN : OtherInfo(o, settled)
  \/ \E due \in BOOLEAN : RecoveryTimer(due)
  \/ \E o \in Orders : OrderDoubted(o)
  \/ RecoveryStep
  \/ Dead /\ UNCHANGED lifeVars
  \/ UNCHANGED lifecycleVars

\* The order stays among the stale ones, and nowhere before it is asked for.
LEMMA QuietStale ==
  ASSUME LInv, IInv, QuietStep
  PROVE  /\ Followed \in stale => Followed \in stale'
         /\ request = "none" =>
              Followed \notin stale' \cup details' \cup info_calls'
<1> USE FollowedAssumption
<1>1. ASSUME NEW o \in Orders, OtherUpdated(o)
      PROVE  /\ UNCHANGED <<details, info_calls>> /\ stale' = stale \ {o}
             /\ o # Followed
  BY <1>1 DEF OtherUpdated, OrderUpdated, requestVars, restVars
<1>2. ASSUME NEW o \in Orders, NEW settled \in BOOLEAN, OtherInfo(o, settled)
      PROVE  /\ UNCHANGED details /\ info_calls' \subseteq info_calls
             /\ stale' \in {stale, stale \ {o}} /\ o # Followed
  BY <1>2 DEF OtherInfo, OrderInfoAck
<1>3. ASSUME NEW due \in BOOLEAN, RecoveryTimer(due)
      PROVE  /\ UNCHANGED <<stale, info_calls>>
             /\ details' \subseteq details \cup stale
  BY <1>3 DEF RecoveryTimer, DropCopyTimer, OpenOrdersArrived,
              StaleOrdersArrived, PeriodicCheck, CheckStaleOrders, restVars,
              cacheVars
<1>4. ASSUME NEW o \in Orders, OrderDoubted(o)
      PROVE  /\ UNCHANGED <<details, info_calls>> /\ stale' = stale \cup {o}
             /\ o = Followed => request # "none"
  BY <1>4 DEF OrderDoubted, OrderGoesStale, requestVars, restVars
<1>5. CASE RecoveryStep \/ Dead \/ UNCHANGED lifecycleVars
  <2>1. ASSUME NEW o \in Orders, OrderForgotten(o)
        PROVE  /\ UNCHANGED <<details, info_calls>> /\ stale' = stale \ {o}
               /\ o # Followed
    BY <2>1 DEF OrderForgotten, requestVars, restVars
  <2>2. CASE RestTimer
    BY <2>2 DEF RestTimer, SendOpenOrders, SendStaleOrders, cacheVars, LInv,
                UnknownInv
  <2>3. CASE \/ DropCopyConnected \/ ExchangeCloses \/ LogonAccepted
             \/ LogonRefused \/ RestConnected \/ RestDisconnected
             \/ \E topic \in Subscriptions, accepted \in BOOLEAN :
                  Subscribed(topic, accepted)
             \/ Dead \/ UNCHANGED lifecycleVars
    <3>1. UNCHANGED <<stale, details, info_calls>>
      BY <2>3
         DEF DropCopyConnected, ExchangeCloses, LogonAccepted, LogonRefused,
             RestConnected, RestDisconnected, Subscribed, Dead,
             lifecycleVars, vars, requestVars, restVars, cacheVars
    <3>2. QED
      BY <3>1 DEF LInv, UnknownInv
  <2>4. QED
    BY <1>5, <2>1, <2>2, <2>3 DEF RecoveryStep, LInv, UnknownInv
<1>6. QED
  BY <1>1, <1>2, <1>3, <1>4, <1>5 DEF QuietStep, LInv, UnknownInv

\* The topic of the orders stays live, and the download gets past the open
\* orders only by collecting what is in doubt.
LEMMA QuietSocket ==
  ASSUME LInv, IInv, QuietStep
  PROVE  /\ OrdersLive => OrdersLive'
         /\ Listening => Listening' \/ socket' = "closing"
         /\ socket = "closing" => socket' = "closing"
         /\ Listening' => Listening \/ ~OrdersLive
         /\ Listening' /\ ~Listening =>
              download' \notin {"GET_STALE_ORDERS", "DONE"}
         /\ download' \in {"GET_STALE_ORDERS", "DONE"} =>
              \/ download \in {"GET_STALE_ORDERS", "DONE"}
              \/ doubt => Followed \in stale
<1> USE DEF OrdersLive, Listening
<1>1. CASE DropCopyConnected
  <2>1. download = "UNDEFINED"
    BY <1>1 DEF DropCopyConnected, IInv, EvidenceInv
  <2>2. QED
    BY <1>1, <2>1 DEF DropCopyConnected
<1>2. CASE ExchangeCloses \/ LogonAccepted \/ LogonRefused
  BY <1>2 DEF ExchangeCloses, LogonAccepted, LogonRefused
<1>3. ASSUME NEW topic \in Subscriptions, NEW accepted \in BOOLEAN,
             Subscribed(topic, accepted)
      PROVE  /\ UNCHANGED socket /\ subscribed \subseteq subscribed'
             /\ socket = "up"
             /\ download' \notin {"GET_STALE_ORDERS", "DONE"}
  BY <1>3 DEF Subscribed, NextSubscription
<1>4. ASSUME NEW due \in BOOLEAN, RecoveryTimer(due)
      PROVE  /\ UNCHANGED <<socket, subscribed>>
             /\ download = "GET_OPEN_ORDERS" /\ doubt => Followed \in stale
             /\ download \in {"GET_OPEN_ORDERS", "GET_STALE_ORDERS", "DONE"}
  BY <1>4 DEF RecoveryTimer, DropCopyTimer, OpenOrdersArrived,
              StaleOrdersArrived, PeriodicCheck
<1>5. CASE \/ \E o \in Orders : OtherUpdated(o)
           \/ \E o \in Orders, settled \in BOOLEAN : OtherInfo(o, settled)
           \/ \E o \in Orders : OrderDoubted(o)
           \/ RestConnected \/ RestDisconnected \/ RestTimer
           \/ \E o \in Orders : OrderForgotten(o)
           \/ Dead \/ UNCHANGED lifecycleVars
  <2>1. UNCHANGED <<socket, subscribed, download>>
    BY <1>5 DEF OtherUpdated, OrderUpdated, OtherInfo, OrderInfoAck,
                OrderDoubted, OrderGoesStale, RestConnected,
                RestDisconnected, RestTimer, OrderForgotten, Dead,
                lifecycleVars, vars, socketVars
  <2>2. QED
    BY <2>1
<1>6. CASE \/ \E topic \in Subscriptions, accepted \in BOOLEAN :
                Subscribed(topic, accepted)
           \/ \E due \in BOOLEAN : RecoveryTimer(due)
  BY <1>3, <1>4, <1>6
<1>7. QED
  BY <1>1, <1>2, <1>5, <1>6 DEF QuietStep, RecoveryStep

LEMMA QuietStepLInv ==
  ASSUME LInv, IInv, IInv', QuietStep
  PROVE  LInv'
<1> USE DEF LInv
<1>1. UNCHANGED lifeVars
  BY DEF QuietStep, OtherUpdated, OtherInfo, RecoveryTimer, OrderDoubted,
         RecoveryStep, lifecycleVars
<1>2. /\ UNCHANGED <<request, exchange, stream, listing, info>>
      /\ UNCHANGED <<told, doubt, hearsay>>
      /\ Agrees' = Agrees /\ Final' = Final
  BY <1>1 DEF lifeVars, exchangeVars, toldVars, Agrees, Final
<1>3. LifecycleTypeOK' /\ FinalInv'
  BY <1>2 DEF IInv, LifecycleTypeOK, FinalInv
<1>4. UnknownInv'
  BY <1>2, QuietStale DEF UnknownInv
<1>5. /\ OrdersLive => OrdersLive'
      /\ Listening => Listening' \/ socket' = "closing"
      /\ socket = "closing" => socket' = "closing"
      /\ Listening' => Listening \/ ~OrdersLive
  BY QuietSocket
<1>6. AnswerInv'
  BY <1>2, <1>5 DEF AnswerInv
<1>7. StreamInv'
  BY <1>2, <1>5, StreamOperations DEF StreamInv
<1>8. CertainInv'
  BY <1>2, <1>5 DEF CertainInv
<1>9. FoundInv'
  <2>1. SUFFICES ASSUME download' \in {"GET_STALE_ORDERS", "DONE"}, doubt,
                        Followed \notin stale'
                 PROVE  FoundInv'
    BY <1>2 DEF FoundInv
  <2>2. Followed \notin stale
    BY <2>1, QuietStale
  <2>3. download \in {"GET_STALE_ORDERS", "DONE"} /\ (Listening' => Listening)
    BY <2>1, <2>2, QuietSocket
  <2>4. QED
    BY <1>2, <2>1, <2>2, <2>3 DEF FoundInv
<1>10. QED
  BY <1>3, <1>4, <1>6, <1>7, <1>8, <1>9

LEMMA LifecycleNextLInv ==
  LInv /\ IInv /\ IInv' /\ [LifecycleNext]_lifecycleVars => LInv'
<1> SUFFICES ASSUME LInv, IInv, IInv', [LifecycleNext]_lifecycleVars
             PROVE  LInv'
  OBVIOUS
<1>1. CASE \/ RequestCreate \/ CreateFails \/ ReadOpenOrders \/ ReadOrderInfo
           \/ CreateSucceeds \/ OrderEnds
  BY <1>1, CallStepsLInv, HappeningsLInv
<1>2. CASE \/ FollowedUpdated \/ StreamLost
           \/ \E listed \in SUBSET Orders : FollowedListed(listed)
           \/ \E settled \in BOOLEAN : FollowedInfo(settled)
  BY <1>2, FollowedUpdatedLInv, StreamLostLInv, FollowedListedLInv,
     FollowedInfoLInv
<1>3. CASE QuietStep
  BY <1>3, QuietStepLInv
<1>4. QED
  BY <1>1, <1>2, <1>3 DEF LifecycleNext, QuietStep

LEMMA LifecycleInvariant == LifecycleSpec => [](IInv /\ LInv)
<1>1. LifecycleInit => IInv /\ LInv
  BY InitIInv, InitLInv DEF LifecycleInit
<1>2. IInv /\ LInv /\ [LifecycleNext]_lifecycleVars => (IInv /\ LInv)'
  BY NextIInv, LifecycleStepIsStep, LifecycleNextLInv
<1>3. QED
  BY <1>1, <1>2, PTL DEF LifecycleSpec

-----------------------------------------------------------------------------
(* The theorems *)

\* Every variable keeps its type.
THEOREM LifecycleTypeCorrect == LifecycleSpec => []LifecycleTypeOK
<1>1. LInv => LifecycleTypeOK
  BY DEF LInv
<1>2. QED
  BY <1>1, LifecycleInvariant, PTL

\* What OrderRecovery5 promises of the recovery holds with an order followed
\* through it.
THEOREM LifecycleKeepsRecovery ==
  LifecycleSpec =>
    [](NeverUnexpected /\ CallsAccountedFor /\ CollectedOrdersArePending
         /\ ReadyIsReconciled /\ ReadyIsSubscribed)
<1>1. IInv => /\ NeverUnexpected /\ CallsAccountedFor
              /\ CollectedOrdersArePending
              /\ ReadyIsReconciled /\ ReadyIsSubscribed
  BY ReadyFacts DEF IInv
<1>2. QED
  BY <1>1, LifecycleIInv, PTL

\* READY is truthful: what is not known for certain is still stale, or was
\* heard from an answer that nothing vouches for.
THEOREM ReadyTellsTheTruth == LifecycleSpec => []ReadyIsTruthful
<1>1. IInv /\ LInv => ReadyIsTruthful
  <2>1. SUFFICES ASSUME IInv, LInv, DropCopyReady, Listening, stream = <<>>,
                        Followed \notin stale, ~hearsay
                 PROVE  Agrees
    BY DEF ReadyIsTruthful
  <2>2. download = "DONE" /\ socket # "closing"
    BY <2>1 DEF IInv, EvidenceInv, Listening
  <2>3. CASE doubt
    <3>1. told = "none" /\ exchange = "none"
      BY <2>1, <2>2, <2>3 DEF LInv, FoundInv
    <3>2. QED
      BY <3>1 DEF Agrees
  <2>4. CASE ~doubt
    BY <2>1, <2>2, <2>4 DEF LInv, CertainInv
  <2>5. QED
    BY <2>3, <2>4
<1>2. QED
  BY <1>1, LifecycleInvariant, PTL
=============================================================================
