--------------------------- MODULE OrderRecovery5 ---------------------------
(***************************************************************************)
(* How one account recovers its orders on the v5 API: the private          *)
(* web socket (gateway/drop_copy_5.cpp) walks through its download states, *)
(* asks for open and stale orders through the two slots of                 *)
(* gateway/request.cpp, and the REST connection                            *)
(* (gateway/order_entry_rest_5.cpp) sends those questions and commits the  *)
(* answers.  The three objects share memory and run on one thread: each    *)
(* event handler is one atomic action, events of the two connections and   *)
(* timers interleave in any order.                                         *)
(*                                                                         *)
(* External, as the code uses it: the exchange behind both connections,    *)
(* the request slots (LimitRequest), the step engine core::Download2, and  *)
(* the order cache of the framework (which orders are stale, which are     *)
(* still found by find_order).                                             *)
(***************************************************************************)
EXTENDS Integers, FiniteSets, LimitRequest

CONSTANTS
  Orders,       \* (user_id, order_id) keys the order cache may hold
  Forgettable,  \* the orders the cache may drop: find_order then fails
  MarginMode,   \* account_.margin_mode
  RetryLogon,   \* settings.experimental.retry_logon
  SubsAccepted  \* the exchange accepts every subscription

ASSUME OrdersAssumption == IsFiniteSet(Orders) /\ Forgettable \subseteq Orders
\* create_accounts ends the process for the other margin modes.
ASSUME MarginModeAssumption == MarginMode \in {"ISOLATED", "CROSS"}
ASSUME SettingsAssumption == RetryLogon \in BOOLEAN /\ SubsAccepted \in BOOLEAN

VARIABLES
  socket,             \* the drop-copy web socket: "down", "up", "closing"
  connection_status,  \* DropCopy5::connection_status_
  download,           \* DropCopy5::download_.state()
  awaiting,           \* log-on or subscriptions sent, not yet answered
  subscribed,         \* topics the exchange subscribed us to, this session
  rest_ready,         \* OrderEntryREST5::ready()
  open_orders,        \* Request::open_orders
  stale_orders,       \* Request::stale_orders
  details,            \* Request::details_stale_orders
  counter,            \* OrderEntryREST5::download_stale_orders_counter_
  open_calls,         \* open-orders calls on the wire
  info_calls,         \* orders with an order-info call on the wire
  stale,              \* what get_all_stale_orders visits
  known,              \* what find_order finds
  fatal,              \* which log::fatal ended the process, "none" if none
  \* History, read by the properties only:
  evidence,           \* the open-orders answer this session waits for
  unasked             \* stale at reconciliation, not asked about since

socketVars  == <<socket, connection_status, download, awaiting, subscribed>>
requestVars == <<open_orders, stale_orders, details>>
restVars    == <<rest_ready, counter, open_calls, info_calls>>
cacheVars   == <<stale, known>>
historyVars == <<evidence, unasked>>
vars == <<socketVars, requestVars, restVars, cacheVars, fatal, historyVars>>

-----------------------------------------------------------------------------
(* The download of drop_copy_5.cpp *)

Subscriptions == {"SUBSCRIBE_BALANCES", "SUBSCRIBE_POSITIONS",
                  "SUBSCRIBE_MATCH_ORDERS", "SUBSCRIBE_ORDERS"}

\* enum class State.  A subscription and its topic go by the same name.
State == Subscriptions \cup
           {"UNDEFINED", "GET_OPEN_ORDERS", "GET_STALE_ORDERS", "DONE"}

Status == {"DISCONNECTED", "LOGIN_SENT", "DOWNLOADING", "READY"}

Fatals == {"none", "logon", "isolated", "details", "counter"}

\* Faulty: the match-orders state is skipped.
NextSubscription_Skips ==
  [SUBSCRIBE_BALANCES     |-> "SUBSCRIBE_POSITIONS",
   SUBSCRIBE_POSITIONS    |-> "SUBSCRIBE_ORDERS",
   SUBSCRIBE_MATCH_ORDERS |-> "SUBSCRIBE_ORDERS"]

\* The subscription the download moves to after the one acknowledged.
NextSubscription ==
  [SUBSCRIBE_BALANCES     |-> "SUBSCRIBE_POSITIONS",
   SUBSCRIBE_POSITIONS    |-> "SUBSCRIBE_MATCH_ORDERS",
   SUBSCRIBE_MATCH_ORDERS |-> "SUBSCRIBE_ORDERS"]

Running == fatal = "none"

DropCopyReady == connection_status = "READY"

\* Faulty: only the other slot is looked at.
RequestReady_OneSlot == SlotReady(open_orders)

\* Request::ready, asked by check_pending before either slot is sent.
RequestReady == SlotReady(open_orders) /\ SlotReady(stale_orders)

\* A question put to the stale_orders slot when there is something to ask.
AskIf(cond) == IF cond THEN Requested(stale_orders) ELSE stale_orders

-----------------------------------------------------------------------------
Init ==
  /\ socket = "down"
  /\ connection_status = "DISCONNECTED"
  /\ download = "UNDEFINED"
  /\ awaiting = {} /\ subscribed = {}
  /\ rest_ready = FALSE
  /\ open_orders = Idle /\ stale_orders = Idle
  /\ details = {}
  /\ counter = 0 /\ open_calls = 0 /\ info_calls = {}
  /\ stale = {} /\ known = Orders
  /\ fatal = "none"
  /\ evidence = "none" /\ unasked = {}

-----------------------------------------------------------------------------
(* DropCopy5: web socket events *)

\* web::socket::Ready: the log-on message goes out.
DropCopyConnected ==
  /\ Running /\ socket = "down"
  /\ socket' = "up"
  /\ connection_status' = "LOGIN_SENT"
  /\ awaiting' = {"LOGIN"}
  /\ UNCHANGED <<download, subscribed, requestVars, restVars, cacheVars,
                 fatal, historyVars>>

\* web::socket::Disconnected.  The request slots and the details are kept.
DropCopyDisconnected ==
  /\ Running /\ socket # "down"
  /\ socket' = "down"
  /\ connection_status' = "DISCONNECTED"
  /\ download' = "UNDEFINED"
  /\ awaiting' = {} /\ subscribed' = {}
  /\ evidence' = "none" /\ unasked' = {}
  /\ UNCHANGED <<requestVars, restVars, cacheVars, fatal>>

\* Close2 and Error2: we close; Disconnected follows.
ExchangeCloses ==
  /\ Running /\ socket = "up"
  /\ socket' = "closing"
  /\ UNCHANGED <<connection_status, download, awaiting, subscribed,
                 requestVars, restVars, cacheVars, fatal, historyVars>>

\* Auth, accepted: the download begins, for a cross-margin account.
LogonAccepted ==
  /\ Running /\ socket = "up" /\ "LOGIN" \in awaiting
  /\ IF MarginMode = "CROSS"
       THEN /\ download' = "SUBSCRIBE_BALANCES"
            /\ connection_status' = "DOWNLOADING"
            /\ awaiting' = {"SUBSCRIBE_BALANCES"}
            /\ UNCHANGED fatal
       ELSE /\ fatal' = "isolated"
            /\ UNCHANGED <<download, connection_status, awaiting>>
  /\ UNCHANGED <<socket, subscribed, requestVars, restVars, cacheVars,
                 historyVars>>

\* Auth, refused.
LogonRefused ==
  /\ Running /\ socket = "up" /\ "LOGIN" \in awaiting
  /\ awaiting' = awaiting \ {"LOGIN"}
  /\ IF RetryLogon THEN socket' = "closing" /\ fatal' = fatal
                   ELSE fatal' = "logon" /\ UNCHANGED socket
  /\ UNCHANGED <<connection_status, download, subscribed, requestVars,
                 restVars, cacheVars, historyVars>>

\* Faulty: open orders are asked for with the orders subscription unanswered.
Subscribed_AsksEarly(topic, accepted) ==
  /\ Running /\ socket = "up" /\ topic \in awaiting \cap Subscriptions
  /\ SubsAccepted => accepted
  /\ subscribed' = IF accepted THEN subscribed \cup {topic} ELSE subscribed
  /\ connection_status' = "DOWNLOADING"
  /\ \/ /\ topic \in {"SUBSCRIBE_BALANCES", "SUBSCRIBE_POSITIONS"}
        /\ download' = NextSubscription[topic]
        /\ awaiting' = {NextSubscription[topic]}
        /\ UNCHANGED open_orders
     \/ /\ topic = "SUBSCRIBE_MATCH_ORDERS"
        /\ download' = "GET_OPEN_ORDERS"
        /\ awaiting' = {"SUBSCRIBE_ORDERS"}
        /\ open_orders' = Requested(open_orders)
     \/ /\ topic = "SUBSCRIBE_ORDERS" /\ awaiting' = {}
        /\ UNCHANGED <<download, open_orders>>
  /\ UNCHANGED <<socket, stale_orders, details, restVars, cacheVars, fatal,
                 historyVars>>

\* Sub: a failed subscription is logged and advances the download as well.
Subscribed(topic, accepted) ==
  /\ Running /\ socket = "up" /\ topic \in awaiting \cap Subscriptions
  /\ SubsAccepted => accepted
  /\ subscribed' = IF accepted THEN subscribed \cup {topic} ELSE subscribed
  /\ connection_status' = "DOWNLOADING"
  /\ \/ /\ topic \in DOMAIN NextSubscription
        /\ download' = NextSubscription[topic]
        /\ awaiting' = {NextSubscription[topic]}
        /\ UNCHANGED open_orders
     \/ /\ topic = "SUBSCRIBE_ORDERS"
        /\ download' = "GET_OPEN_ORDERS"
        /\ awaiting' = {}
        /\ open_orders' = Requested(open_orders)
  /\ UNCHANGED <<socket, stale_orders, details, restVars, cacheVars, fatal,
                 historyVars>>

\* Orders5: an incremental update reaches the order cache.  MatchOrders5
\* carries the same orders and is switched off by an unconditional continue.
OrderUpdated(o) ==
  /\ Running /\ socket = "up" /\ "SUBSCRIBE_ORDERS" \in subscribed
  /\ o \in stale
  /\ stale' = stale \ {o}
  /\ UNCHANGED <<socketVars, requestVars, restVars, known, fatal,
                 historyVars>>

-----------------------------------------------------------------------------
(* DropCopy5: timer *)

\* Faulty: the download advances before stale orders are collected.
OpenOrdersArrived_LateCollect ==
  /\ download = "GET_OPEN_ORDERS" /\ HasResponse(open_orders)
  /\ details' = details \cup stale
  /\ unasked' = details \cup stale
  /\ IF details = {}
       THEN /\ download' = "DONE" /\ connection_status' = "READY"
            /\ UNCHANGED stale_orders
       ELSE /\ download' = "GET_STALE_ORDERS"
            /\ connection_status' = "DOWNLOADING"
            /\ stale_orders' = Requested(stale_orders)
  /\ UNCHANGED <<open_orders, fatal>>

\* check_request_queue in GET_OPEN_ORDERS: stale orders are collected
\* before the download advances, so that it knows whether to ask for them.
OpenOrdersArrived ==
  /\ download = "GET_OPEN_ORDERS" /\ HasResponse(open_orders)
  /\ details' = details \cup stale
  /\ unasked' = details \cup stale
  /\ IF details' = {}
       THEN /\ download' = "DONE" /\ connection_status' = "READY"
            /\ UNCHANGED stale_orders
       ELSE /\ download' = "GET_STALE_ORDERS"
            /\ connection_status' = "DOWNLOADING"
            /\ stale_orders' = Requested(stale_orders)
  /\ UNCHANGED <<open_orders, fatal>>

\* Faulty: collected orders are not asked for.
CheckStaleOrders_NoRequest(due) ==
  /\ details' = IF due THEN details \cup stale ELSE details
  /\ UNCHANGED stale_orders

\* check_stale_orders(trace_info), due once per check_stale_order_freq.
CheckStaleOrders(due) ==
  /\ details' = IF due THEN details \cup stale ELSE details
  /\ stale_orders' = AskIf(due /\ ~(stale \subseteq details))

\* check_request_queue in GET_STALE_ORDERS; we are ready at once, and the
\* same timer event goes on to the periodic check.
StaleOrdersArrived(due) ==
  /\ download = "GET_STALE_ORDERS" /\ HasResponse(stale_orders)
  /\ IF details # {}
       THEN /\ fatal' = "details"
            /\ UNCHANGED <<download, connection_status, details,
                           stale_orders>>
       ELSE /\ download' = "DONE" /\ connection_status' = "READY"
            /\ CheckStaleOrders(due)
            /\ UNCHANGED fatal
  /\ UNCHANGED <<open_orders, unasked>>

\* Faulty: once ready, stale orders are no longer looked for.
PeriodicCheck_Never(due) == FALSE /\ CheckStaleOrders(due)

PeriodicCheck(due) ==
  /\ download = "DONE" /\ DropCopyReady
  /\ CheckStaleOrders(due)
  /\ UNCHANGED <<download, connection_status, open_orders, fatal, unasked>>

DropCopyTimer(due) ==
  /\ Running /\ socket = "up"
  /\ \/ OpenOrdersArrived
     \/ StaleOrdersArrived(due)
     \/ PeriodicCheck(due)
  /\ UNCHANGED <<socket, awaiting, subscribed, restVars, cacheVars, evidence>>

-----------------------------------------------------------------------------
(* OrderEntryREST5 *)

RestConnected ==
  /\ Running /\ ~rest_ready
  /\ rest_ready' = TRUE
  /\ UNCHANGED <<socketVars, requestVars, counter, open_calls, info_calls,
                 cacheVars, fatal, historyVars>>

\* Calls on the wire stay there until they are answered, with an error.
RestDisconnected ==
  /\ Running /\ rest_ready
  /\ rest_ready' = FALSE
  /\ UNCHANGED <<socketVars, requestVars, counter, open_calls, info_calls,
                 cacheVars, fatal, historyVars>>

\* check_pending of open_orders: get_open_orders.
SendOpenOrders ==
  /\ open_orders.pending
  /\ open_orders' = Sent(open_orders)
  /\ open_calls' = open_calls + 1
  /\ evidence' = IF download = "GET_OPEN_ORDERS" THEN "sent" ELSE "none"
  /\ UNCHANGED <<stale_orders, details, counter, info_calls, unasked>>

\* Faulty: the details are not cleared.
SendStaleOrders_KeepsDetails ==
  /\ ~open_orders.pending /\ stale_orders.pending
  /\ stale_orders' = Sent(stale_orders)
  /\ LET found == details \cap known IN
       /\ info_calls' = info_calls \cup found
       /\ counter' = counter + Cardinality(found)
       /\ unasked' = unasked \ (details \ found)
  /\ UNCHANGED <<open_orders, open_calls, evidence, details>>

\* check_pending of stale_orders: one get_order_info per order still found,
\* each of them counted; then the details are forgotten.
SendStaleOrders ==
  /\ ~open_orders.pending /\ stale_orders.pending
  /\ stale_orders' = Sent(stale_orders)
  /\ LET found == details \cap known IN
       /\ info_calls' = info_calls \cup found
       /\ counter' = counter + Cardinality(found)
       /\ unasked' = unasked \ (details \ found)
  /\ details' = {}
  /\ UNCHANGED <<open_orders, open_calls, evidence>>

\* The timer: check_request_queue, when the rate limiter agrees.  Sending
\* open orders makes the request not ready, so that stale orders wait.
RestTimer ==
  /\ Running /\ rest_ready /\ RequestReady
  /\ SendOpenOrders \/ SendStaleOrders
  /\ UNCHANGED <<socketVars, rest_ready, cacheVars, fatal>>

\* Faulty: an error is not committed.
OpenOrdersAck_CommitsData(listed) ==
  /\ Running /\ open_calls > 0
  /\ open_calls' = open_calls - 1
  /\ stale' = stale \ listed
  /\ open_orders' = IF listed = {} THEN open_orders
                                   ELSE Committed(open_orders)
  /\ evidence' = IF evidence = "sent" THEN "answered" ELSE evidence
  /\ UNCHANGED <<socketVars, stale_orders, details, rest_ready, counter,
                 info_calls, known, fatal, unasked>>

\* get_open_orders_ack.  The snapshot updates the orders it lists; an error
\* updates none.  Committed in both cases.
OpenOrdersAck(listed) ==
  /\ Running /\ open_calls > 0
  /\ open_calls' = open_calls - 1
  /\ stale' = stale \ listed
  /\ open_orders' = Committed(open_orders)
  /\ evidence' = IF evidence = "sent" THEN "answered" ELSE evidence
  /\ UNCHANGED <<socketVars, stale_orders, details, rest_ready, counter,
                 info_calls, known, fatal, unasked>>

\* Faulty: counted down twice.
OrderInfoAck_Twice(o, settled) ==
  /\ Running /\ o \in info_calls
  /\ info_calls' = info_calls \ {o}
  /\ stale' = IF settled THEN stale \ {o} ELSE stale
  /\ counter' = counter - 2
  /\ stale_orders' = IF counter = 2 THEN Committed(stale_orders)
                                    ELSE stale_orders
  /\ UNCHANGED <<socketVars, open_orders, details, rest_ready, open_calls,
                 known, fatal, historyVars>>

\* get_order_info_ack.  Data or "does not exist" (1061) settles the order,
\* an error does not.  The last answer of the batch commits.
OrderInfoAck(o, settled) ==
  /\ Running /\ o \in info_calls
  /\ info_calls' = info_calls \ {o}
  /\ stale' = IF settled THEN stale \ {o} ELSE stale
  /\ unasked' = IF o \in details THEN unasked ELSE unasked \ {o}
  /\ IF counter > 0
       THEN /\ counter' = counter - 1
            /\ stale_orders' = IF counter = 1 THEN Committed(stale_orders)
                                              ELSE stale_orders
            /\ UNCHANGED fatal
       ELSE fatal' = "counter" /\ UNCHANGED <<counter, stale_orders>>
  /\ UNCHANGED <<socketVars, open_orders, details, rest_ready, open_calls,
                 known, evidence>>

-----------------------------------------------------------------------------
(* The order cache of the framework *)

\* An order goes stale: its stream went down, an update is overdue.
OrderGoesStale(o) ==
  /\ Running /\ o \in known \ stale
  /\ stale' = stale \cup {o}
  /\ UNCHANGED <<socketVars, requestVars, restVars, known, fatal,
                 historyVars>>

\* The cache drops an order.
OrderForgotten(o) ==
  /\ Running /\ o \in known \cap Forgettable
  /\ known' = known \ {o}
  /\ stale' = stale \ {o}
  /\ UNCHANGED <<socketVars, requestVars, restVars, fatal, historyVars>>

\* log::fatal ends the process: nothing happens any more.
Dead == ~Running /\ UNCHANGED vars

-----------------------------------------------------------------------------
\* The steps of a process that lives, with an order cache that forgets nothing.
Steps ==
  \/ DropCopyConnected
  \/ DropCopyDisconnected
  \/ ExchangeCloses
  \/ LogonAccepted
  \/ LogonRefused
  \/ \E topic \in Subscriptions, accepted \in BOOLEAN :
       Subscribed(topic, accepted)
  \/ \E o \in Orders : OrderUpdated(o)
  \/ \E due \in BOOLEAN : DropCopyTimer(due)
  \/ RestConnected
  \/ RestDisconnected
  \/ RestTimer
  \/ \E listed \in SUBSET Orders : OpenOrdersAck(listed)
  \/ \E o \in Orders, settled \in BOOLEAN : OrderInfoAck(o, settled)
  \/ \E o \in Orders : OrderGoesStale(o)

Next ==
  \/ Steps
  \/ \E o \in Orders : OrderForgotten(o)
  \/ Dead

Spec == Init /\ [][Next]_vars

(***************************************************************************)
(* Fairness.  Timers are driven for ever by the framework's event loop and *)
(* the rate limiter refills, hence WF of both timers; the web socket       *)
(* client reconnects; the exchange answers log-on, subscriptions and calls *)
(* (a lost call is answered by a network error).  Nothing is asked of      *)
(* disconnections, refusals, or orders going stale.  A log-on that is      *)
(* refused is retried (RetryLogon), so that the process lives, and the     *)
(* order cache forgets nothing.                                            *)
(***************************************************************************)
Fairness ==
  /\ WF_vars(DropCopyConnected)
  /\ WF_vars(RestConnected)
  /\ WF_vars(LogonAccepted)
  /\ \A topic \in Subscriptions :
       WF_vars(\E accepted \in BOOLEAN : Subscribed(topic, accepted))
  /\ WF_vars(DropCopyTimer(TRUE))
  /\ WF_vars(RestTimer)
  /\ WF_vars(\E listed \in SUBSET Orders : OpenOrdersAck(listed))
  /\ \A o \in Orders :
       /\ WF_vars(\E settled \in BOOLEAN : OrderInfoAck(o, settled))
       /\ SF_vars(OrderInfoAck(o, TRUE))

FairSpec == Init /\ [][Steps]_vars /\ Fairness

-----------------------------------------------------------------------------
(* Properties *)

\* Every variable has its type.
TypeOK ==
  /\ socket \in {"down", "up", "closing"}
  /\ connection_status \in Status
  /\ download \in State
  /\ awaiting \subseteq Subscriptions \cup {"LOGIN"}
  /\ subscribed \subseteq Subscriptions
  /\ rest_ready \in BOOLEAN
  /\ open_orders \in RequestSlot /\ stale_orders \in RequestSlot
  /\ details \subseteq Orders /\ info_calls \subseteq Orders
  /\ counter \in Nat /\ open_calls \in Nat
  /\ stale \subseteq Orders /\ known \subseteq Orders
  /\ fatal \in Fatals
  /\ evidence \in {"none", "sent", "answered"}
  /\ unasked \subseteq Orders

\* Neither log::fatal("Unexpected") of the recovery is ever reached: the
\* details are empty when the stale-order answers are in
\* (drop_copy_5.cpp, check_request_queue), and no order-info answer arrives
\* uncounted (order_entry_rest_5.cpp, get_order_info_ack), whatever
\* disconnections, errors and late answers came before.
NeverUnexpected == fatal \notin {"details", "counter"}

\* The counter that decides when a batch is complete counts the calls really
\* on the wire, and a slot has calls on the wire only while it is in flight:
\* an answer is never committed to the wrong question.
CallsAccountedFor ==
  /\ counter = Cardinality(info_calls)
  /\ open_calls = IF open_orders.in_flight THEN 1 ELSE 0
  /\ info_calls # {} => stale_orders.in_flight
  /\ ~(open_orders.in_flight /\ stale_orders.in_flight)

\* An order collected by check_stale_orders is never left behind: as long as
\* it sits in the details, the slot that will send it is pending.
CollectedOrdersArePending == details # {} <=> stale_orders.pending

\* READY is only published on an answer to an open-orders question sent in
\* this very session, after which every order then stale was asked about,
\* not on an answer left over from before a disconnection.
ReadyIsReconciled ==
  DropCopyReady => evidence = "answered" /\ unasked = {}

\* READY is only published with all four channels live, when the exchange
\* refuses no subscription: the download skips none of them.
ReadyIsSubscribed ==
  SubsAccepted /\ DropCopyReady => subscribed = Subscriptions

Batches == INSTANCE StaleOrderBatches
             WITH queued <- details, asked <- info_calls,
                  busy <- stale_orders.in_flight

\* As long as the order cache forgets nothing, collecting and asking about
\* stale orders implements the batches of StaleOrderBatches: batches never
\* overlap, no order is asked twice at once or answered without having been
\* asked, and no batch waits for answers that cannot come.
BatchesRefined == Batches!Spec

\* The connections stay up from some point on.
Stable == <>[](socket = "up" /\ rest_ready)

\* Once the connections hold, the recovery completes and READY is kept.
RecoveryCompletes == Stable => <>[]DropCopyReady

\* Once the connections hold, every stale order is eventually settled, even
\* if its order-info call failed before: the periodic check asks again.
StaleOrdersSettle ==
  Stable => \A o \in Orders : o \in stale ~> o \notin stale
=============================================================================
