------------------------ MODULE OrderRecovery1Proofs ------------------------
(***************************************************************************)
(* Theorems about OrderRecovery1, for any set of orders and every setting. *)
(***************************************************************************)
EXTENDS OrderRecovery1, TLAPS

\* What the download state says about the question of this session.
EvidenceInv ==
  /\ socket = "down" => download = "UNDEFINED"
  /\ DropCopyReady <=> download = "DONE"
  /\ open_orders.in_flight => ~open_orders.responded
  /\ download = "OPEN_ORDERS" =>
       \/ open_orders.pending
       \/ evidence = "asked" /\ open_orders.in_flight
       \/ evidence \in {"failed", "answered"}
  /\ download = "DONE" =>
       evidence \in {"failed", "answered"} /\ ~open_orders.pending

\* Why the cache may not know an order as it is.
Accounted(o) == OnTheWay(o) \/ o \in gap \/ o \in hearsay

\* What the answer will undo while a snapshot is under way, and what is not
\* known as it is after it.
SnapshotInv ==
  /\ call = "taken" => \A o \in Orders \ fresh : Accounted(o)
  /\ evidence = "answered" => call = "none" /\ \A o \in outdated : Accounted(o)

IInv ==
  /\ TypeOK
  /\ EvidenceInv
  /\ SnapshotInv
-----------------------------------------------------------------------------
\* The operations on a slot yield slots, with these fields.
LEMMA SlotOperations ==
  ASSUME NEW r \in RequestSlot
  PROVE  /\ Idle \in RequestSlot /\ ~Idle.in_flight
         /\ Requested(r) \in RequestSlot
         /\ Requested(r).pending
         /\ Requested(r).in_flight = r.in_flight
         /\ Requested(r).responded = r.responded
         /\ Sent(r) \in RequestSlot
         /\ ~Sent(r).pending /\ Sent(r).in_flight /\ ~Sent(r).responded
         /\ Committed(r) \in RequestSlot
         /\ Committed(r).pending = r.pending
         /\ ~Committed(r).in_flight /\ Committed(r).responded
BY DEF RequestSlot, Idle, Requested, Sent, Committed

LEMMA InitIInv == Init => IInv
<1> SUFFICES ASSUME Init PROVE IInv
  OBVIOUS
<1>1. Idle \in RequestSlot /\ ~Idle.in_flight
  BY DEF Idle, RequestSlot
<1>2. TypeOK
  BY <1>1 DEF Init, TypeOK, Status, State
<1>3. EvidenceInv /\ SnapshotInv
  BY <1>1 DEF Init, EvidenceInv, SnapshotInv, DropCopyReady
<1>4. QED
  BY <1>2, <1>3 DEF IInv

LEMMA SocketStepsIInv ==
  ASSUME IInv,
         \/ DropCopyConnected \/ ExchangeCloses
         \/ LogonRefused \/ RestConnected \/ RestDisconnected
         \/ \E topic \in Topics, accepted \in BOOLEAN : Sub(topic, accepted)
         \/ Dead \/ UNCHANGED vars
  PROVE  IInv'
<1> USE DEF IInv, socketVars, restVars, exchangeVars, historyVars, vars,
            DropCopyConnected, ExchangeCloses, LogonRefused, RestConnected,
            RestDisconnected, Sub, Dead
<1>1. UNCHANGED <<open_orders, call, fresh, updates, outdated, gap, hearsay,
                  evidence>>
  OBVIOUS
<1>2. TypeOK'
  BY <1>1 DEF TypeOK, Status, State
<1>3. EvidenceInv'
  BY <1>1 DEF EvidenceInv, TypeOK, DropCopyReady
<1>4. SnapshotInv'
  BY <1>1 DEF SnapshotInv, Accounted, OnTheWay
<1>5. QED
  BY <1>2, <1>3, <1>4

\* What was on its way is lost, and belongs to the gap from now on.
LEMMA DropCopyDisconnectedIInv ==
  ASSUME IInv, DropCopyDisconnected
  PROVE  IInv'
<1> USE DEF IInv, DropCopyDisconnected, restVars
<1>1. TypeOK'
  BY DEF TypeOK, Status, State
<1>2. EvidenceInv'
  BY DEF EvidenceInv, TypeOK, DropCopyReady
<1>3. ASSUME NEW o \in Orders, Accounted(o)
      PROVE  Accounted(o)'
  BY <1>3 DEF Accounted
<1>4. SnapshotInv'
  BY <1>3 DEF SnapshotInv
<1>5. QED
  BY <1>1, <1>2, <1>4

\* An update that comes before an older snapshot is answered leaves hearsay;
\* so does an older update after which nothing newer is on its way.
LEMMA OrderUpdatedIInv ==
  ASSUME IInv, NEW u \in Update, OrderUpdated(u)
  PROVE  IInv'
<1> USE DEF IInv, OrderUpdated
<1>1. u.order \in Orders /\ u.current \in BOOLEAN
  BY DEF Update
<1>2. TypeOK'
  <2>1. outdated' \subseteq Orders /\ hearsay' \subseteq Orders
    BY <1>1 DEF TypeOK
  <2>2. updates' \subseteq Update
    BY DEF TypeOK
  <2>3. QED
    BY <2>1, <2>2 DEF TypeOK, socketVars, restVars
<1>3. EvidenceInv'
  BY DEF EvidenceInv, DropCopyReady, socketVars, restVars
<1>4. ASSUME NEW o \in Orders, o # u.order, Accounted(o)
      PROVE  Accounted(o)'
  <2>1. OnTheWay(o) => OnTheWay(o)'
    BY <1>4 DEF OnTheWay
  <2>2. o \in hearsay => o \in hearsay'
    BY <1>4
  <2>3. QED
    BY <1>4, <2>1, <2>2 DEF Accounted
<1>5. CASE u.current /\ (call = "taken" => u.order \in fresh)
  <2>1. u.order \notin outdated'
    BY <1>5
  <2>2. QED
    BY <1>2, <1>3, <1>4, <1>5, <2>1 DEF SnapshotInv, TypeOK
<1>6. CASE ~u.current /\ OnTheWay(u.order)
  <2>1. OnTheWay(u.order)'
    BY <1>6 DEF OnTheWay
  <2>2. QED
    BY <1>1, <1>2, <1>3, <1>4, <1>6, <2>1 DEF SnapshotInv, TypeOK, Accounted
<1>7. CASE ~(u.current /\ (call = "taken" => u.order \in fresh))
           /\ ~(~u.current /\ OnTheWay(u.order))
  <2>1. u.order \in hearsay'
    BY <1>7
  <2>2. QED
    BY <1>1, <1>2, <1>3, <1>4, <1>7, <2>1 DEF SnapshotInv, TypeOK, Accounted
<1>8. QED
  BY <1>5, <1>6, <1>7

\* A change is on its way if it was heard, and in the gap otherwise.
LEMMA OrderChangesIInv ==
  ASSUME IInv, NEW o \in Orders, NEW change \in {"fill", "other"},
         OrderChanges(o, change)
  PROVE  IInv'
<1> DEFINE heard == TopicsOf(change) \cap subscribed
           news == {[order |-> o, topic |-> t, current |-> TRUE] : t \in heard}
           old == {[u EXCEPT !.current = @ /\ u.order # o] : u \in updates}
<1> USE DEF IInv
<1>1. updates' = old \cup news
  BY DEF OrderChanges
<1>2. news \subseteq Update
  <2>1. heard \subseteq Topics
    BY DEF TypeOK
  <2>2. ASSUME NEW t \in Topics
        PROVE  [order |-> o, topic |-> t, current |-> TRUE] \in Update
    BY DEF Update
  <2>3. QED
    BY <2>1, <2>2
<1>3. ASSUME NEW u \in updates
      PROVE  [u EXCEPT !.current = @ /\ u.order # o] \in Update
  <2>1. u \in Update
    BY <1>3 DEF TypeOK
  <2>2. (u.current /\ u.order # o) \in BOOLEAN
    OBVIOUS
  <2>3. QED
    BY <2>1, <2>2 DEF Update
<1>4. updates' \subseteq Update
  BY <1>1, <1>2, <1>3
<1>5. TypeOK'
  BY <1>4 DEF TypeOK, OrderChanges, socketVars, restVars
<1>6. EvidenceInv'
  BY DEF EvidenceInv, OrderChanges, DropCopyReady, socketVars, restVars
<1>7. Accounted(o)'
  <2>1. CASE heard = {}
    BY <2>1 DEF OrderChanges, Accounted
  <2>2. CASE heard # {}
    <3>1. PICK t \in heard : TRUE
      BY <2>2
    <3>2. [order |-> o, topic |-> t, current |-> TRUE] \in updates'
      BY <1>1, <3>1
    <3>3. QED
      BY <3>2 DEF Accounted, OnTheWay
  <2>3. QED
    BY <2>1, <2>2
<1>8. ASSUME NEW p \in Orders, p # o, Accounted(p)
      PROVE  Accounted(p)'
  <2>1. CASE OnTheWay(p)
    <3>1. PICK u \in updates : u.order = p /\ u.current
      BY <2>1 DEF OnTheWay
    <3>2. [u EXCEPT !.current = @ /\ u.order # o] \in updates'
      BY <1>1, <3>1
    <3>3. u \in Update
      BY <3>1 DEF TypeOK
    <3>4. [u EXCEPT !.current = @ /\ u.order # o].order = p
          /\ [u EXCEPT !.current = @ /\ u.order # o].current
      BY <1>8, <3>1, <3>3 DEF Update
    <3>5. QED
      BY <3>2, <3>4 DEF Accounted, OnTheWay
  <2>2. CASE p \in gap \/ p \in hearsay
    BY <1>8, <2>2 DEF OrderChanges, Accounted
  <2>3. QED
    BY <1>8, <2>1, <2>2 DEF Accounted
<1>9. SnapshotInv'
  BY <1>7, <1>8 DEF SnapshotInv, OrderChanges, TypeOK
<1>10. QED
  BY <1>5, <1>6, <1>9

\* The log-on asks anew; an answer still under way is none to that question.
LEMMA LogonAcceptedIInv ==
  ASSUME IInv, LogonAccepted
  PROVE  IInv'
<1> USE DEF IInv, LogonAccepted, historyVars
<1>1. /\ open_orders' \in RequestSlot /\ open_orders'.pending
      /\ open_orders'.in_flight = open_orders.in_flight
      /\ open_orders'.responded = open_orders.responded
  BY SlotOperations DEF TypeOK
<1>2. TypeOK'
  BY <1>1 DEF TypeOK, Status, State
<1>3. EvidenceInv' /\ SnapshotInv'
  BY <1>1 DEF EvidenceInv, SnapshotInv, TypeOK, DropCopyReady, Accounted,
              OnTheWay
<1>4. QED
  BY <1>2, <1>3

\* A response with nothing pending answers this session's question.
LEMMA DropCopyTimerIInv ==
  ASSUME IInv, DropCopyTimer
  PROVE  IInv'
<1> USE DEF IInv, DropCopyTimer, restVars, exchangeVars, historyVars
<1>1. TypeOK' /\ SnapshotInv'
  BY DEF TypeOK, SnapshotInv, Status, State, Accounted, OnTheWay
<1>2. evidence \in {"failed", "answered"} /\ ~open_orders.pending
  BY DEF EvidenceInv, HasResponse
<1>3. EvidenceInv'
  BY <1>2 DEF EvidenceInv, DropCopyReady
<1>4. QED
  BY <1>1, <1>3

LEMMA RestTimerIInv ==
  ASSUME IInv, RestTimer
  PROVE  IInv'
<1> USE DEF IInv, RestTimer, socketVars
<1>1. /\ open_orders' \in RequestSlot /\ ~open_orders'.pending
      /\ open_orders'.in_flight /\ ~open_orders'.responded
  BY SlotOperations DEF TypeOK
<1>2. TypeOK'
  BY <1>1 DEF TypeOK
<1>3. EvidenceInv' /\ SnapshotInv'
  BY <1>1 DEF EvidenceInv, SnapshotInv, DropCopyReady
<1>4. QED
  BY <1>2, <1>3

\* The answer undoes what changed since the snapshot was taken, which is
\* accounted for.
LEMMA OpenOrdersAckIInv ==
  ASSUME IInv, NEW ok \in BOOLEAN, OpenOrdersAck(ok)
  PROVE  IInv'
<1> USE DEF IInv, OpenOrdersAck, socketVars
<1>1. /\ open_orders' \in RequestSlot
      /\ open_orders'.pending = open_orders.pending
      /\ ~open_orders'.in_flight
  BY SlotOperations DEF TypeOK
<1>2. TypeOK'
  BY <1>1 DEF TypeOK
<1>3. EvidenceInv'
  BY <1>1 DEF EvidenceInv, DropCopyReady
<1>4. CASE ok
  <2>1. \A o \in Orders \ fresh : Accounted(o)
    BY <1>4 DEF SnapshotInv
  <2>2. \A o \in outdated' : Accounted(o)'
    BY <1>4, <2>1 DEF Accounted, OnTheWay
  <2>3. SnapshotInv'
    BY <2>2 DEF SnapshotInv
  <2>4. QED
    BY <1>2, <1>3, <2>3
<1>5. CASE ~ok
  <2>1. evidence' # "answered"
    BY <1>5 DEF SnapshotInv
  <2>2. SnapshotInv'
    BY <2>1 DEF SnapshotInv
  <2>3. QED
    BY <1>2, <1>3, <2>2
<1>6. QED
  BY <1>4, <1>5

\* Nothing is older than the snapshot yet.
LEMMA TakeSnapshotIInv ==
  ASSUME IInv, TakeSnapshot
  PROVE  IInv'
<1> USE DEF IInv, TakeSnapshot, socketVars, restVars
<1>1. TypeOK' /\ EvidenceInv' /\ SnapshotInv'
  BY DEF TypeOK, EvidenceInv, SnapshotInv, DropCopyReady
<1>2. QED
  BY <1>1

LEMMA InvariantHolds == Spec => []IInv
<1>1. IInv /\ [Next]_vars => IInv'
  BY SocketStepsIInv, DropCopyDisconnectedIInv, OrderUpdatedIInv,
     OrderChangesIInv, LogonAcceptedIInv, DropCopyTimerIInv, RestTimerIInv,
     OpenOrdersAckIInv, TakeSnapshotIInv DEF Next
<1>2. QED
  BY <1>1, InitIInv, PTL DEF Spec

-----------------------------------------------------------------------------
(* The theorems *)

\* Every variable keeps its type, and the slot is in flight exactly while its
\* call is on the wire.
THEOREM TypeCorrect == Spec => []TypeOK
<1>1. IInv => TypeOK
  BY DEF IInv
<1>2. QED
  BY <1>1, InvariantHolds, PTL

\* READY rests on this session's own question.
THEOREM ReadyIsEarned == Spec => []ReadyIsReconciled
<1>1. IInv => ReadyIsReconciled
  BY DEF IInv, EvidenceInv, ReadyIsReconciled
<1>2. QED
  BY <1>1, InvariantHolds, PTL

\* Once the snapshot has been processed, what the cache does not know as it is
\* has an update on its way, changed unheard or got lost since the snapshot was
\* taken, or is hearsay: its news was overtaken by something older.
THEOREM SnapshotClosesTheRest == Spec => []OnlyTheGapIsMissed
<1>1. IInv => OnlyTheGapIsMissed
  BY DEF IInv, SnapshotInv, Accounted, OnlyTheGapIsMissed
<1>2. QED
  BY <1>1, InvariantHolds, PTL
=============================================================================
