--------------------------- MODULE OrderRecovery1 ---------------------------
(***************************************************************************)
(* How one account recovers its orders on the v1 API: the private web      *)
(* socket (gateway/drop_copy_1.cpp) subscribes and at once asks for the    *)
(* open orders, through the slot of gateway/request.cpp, which the REST    *)
(* connection (gateway/order_entry_rest_1.cpp) sends and commits.  Order   *)
(* updates, the snapshot and the subscriptions travel on their own ways,   *)
(* so that the module also says which changes of orders the gateway hears  *)
(* of.  One thread: each handler is one action.                            *)
(*                                                                         *)
(* External: the exchange; the request slot (LimitRequest); the order      *)
(* cache, which believes what it is told last: every update of v1 bears    *)
(* the creation time of the order, so that nothing tells old from new.     *)
(* Abstracted: the topics of balances and positions; orders change and     *)
(* stay open (what becomes of an order that is missing in a snapshot is    *)
(* the order cache's affair); several older updates of one order on one    *)
(* topic are one.                                                          *)
(***************************************************************************)
EXTENDS LimitRequest

CONSTANTS
  Orders,       \* the open orders of the account
  RetryLogon,   \* settings.experimental.retry_logon
  SubsAccepted  \* the exchange accepts every subscription

ASSUME SettingsAssumption == RetryLogon \in BOOLEAN /\ SubsAccepted \in BOOLEAN

VARIABLES
  socket,             \* the drop-copy web socket: "down", "up", "closing"
  connection_status,  \* DropCopy1::connection_status_
  download,           \* DropCopy1::download_.state()
  login,              \* the log-on has been sent and not been answered
  rest_ready,         \* OrderEntryREST1::ready()
  open_orders,        \* Request::open_orders
  \* The exchange and what is under way:
  subscribing,        \* topics asked for
  subscribed,         \* topics that are live
  call,               \* the open-orders call: "none", "sent", "taken"
  fresh,              \* orders that have not changed since it was taken
  updates,            \* the order updates under way on the stream
  outdated,           \* orders that the order cache does not know as they are
  fatal,              \* a log::fatal ended the process
  \* History, read by the properties only:
  evidence,           \* what this session has learnt from its question
  gap,                \* changed or lost unheard since a snapshot was taken
  hearsay             \* the news came first, something older came or may come

socketVars   == <<socket, connection_status, download, login>>
restVars     == <<rest_ready, open_orders>>
exchangeVars == <<subscribing, subscribed, call, fresh, updates, outdated>>
historyVars  == <<evidence, gap, hearsay>>
vars == <<socketVars, restVars, exchangeVars, fatal, historyVars>>

-----------------------------------------------------------------------------
\* The topics that carry orders; both are processed.
Topics == {"match_orders", "orders"}

\* A fill is told on both topics, any other change of an order on one.
TopicsOf(change) == IF change = "fill" THEN Topics ELSE {"orders"}

\* An update under way is current until its order changes again.
Update == [order : Orders, topic : Topics, current : BOOLEAN]

OnTheWay(o) == \E u \in updates : u.order = o /\ u.current

\* enum class State
State == {"UNDEFINED", "OPEN_ORDERS", "DONE"}

Status == {"DISCONNECTED", "LOGIN_SENT", "DOWNLOADING", "READY"}

DropCopyReady == connection_status = "READY"

Init ==
  /\ socket = "down" /\ connection_status = "DISCONNECTED"
  /\ download = "UNDEFINED" /\ login = FALSE
  /\ rest_ready = FALSE /\ open_orders = Idle
  /\ subscribing = {} /\ subscribed = {} /\ call = "none"
  /\ fresh = {} /\ updates = {} /\ outdated = Orders
  /\ fatal = FALSE
  /\ evidence = "none" /\ gap = Orders /\ hearsay = {}

-----------------------------------------------------------------------------
(* DropCopy1 *)

\* web::socket::Ready: the log-on message goes out.
DropCopyConnected ==
  /\ ~fatal /\ socket = "down"
  /\ socket' = "up" /\ connection_status' = "LOGIN_SENT" /\ login' = TRUE
  /\ UNCHANGED <<download, restVars, exchangeVars, fatal, historyVars>>

\* web::socket::Disconnected.  The request slot is kept.
DropCopyDisconnected ==
  /\ ~fatal /\ socket # "down"
  /\ socket' = "down" /\ connection_status' = "DISCONNECTED"
  /\ download' = "UNDEFINED" /\ login' = FALSE
  /\ subscribing' = {} /\ subscribed' = {} /\ updates' = {}
  /\ evidence' = "none" /\ gap' = gap \cup {o \in Orders : OnTheWay(o)}
  /\ UNCHANGED <<restVars, call, fresh, outdated, fatal, hearsay>>

\* Close2 and Error2: we close; Disconnected follows.
ExchangeCloses ==
  /\ ~fatal /\ socket = "up"
  /\ socket' = "closing"
  /\ UNCHANGED <<connection_status, download, login, restVars, exchangeVars,
                 fatal, historyVars>>

\* Auth, accepted: subscribe, and begin the download in the same breath.
LogonAccepted ==
  /\ ~fatal /\ socket = "up" /\ login
  /\ login' = FALSE
  /\ subscribing' = Topics
  /\ download' = "OPEN_ORDERS" /\ connection_status' = "DOWNLOADING"
  /\ open_orders' = Requested(open_orders)
  /\ UNCHANGED <<socket, rest_ready, subscribed, call, fresh, updates,
                 outdated, fatal, historyVars>>

\* Auth, refused.
LogonRefused ==
  /\ ~fatal /\ socket = "up" /\ login
  /\ login' = FALSE
  /\ IF RetryLogon THEN socket' = "closing" /\ UNCHANGED fatal
                   ELSE fatal' = TRUE /\ UNCHANGED socket
  /\ UNCHANGED <<connection_status, download, restVars, exchangeVars,
                 historyVars>>

\* The exchange answers a subscription.  The answer is not waited for, and
\* a refusal is logged: neither moves the download.
Sub(topic, accepted) ==
  /\ ~fatal /\ socket = "up" /\ topic \in subscribing
  /\ SubsAccepted => accepted
  /\ subscribing' = subscribing \ {topic}
  /\ subscribed' = IF accepted THEN subscribed \cup {topic} ELSE subscribed
  /\ UNCHANGED <<socketVars, restVars, call, fresh, updates, outdated, fatal,
                 historyVars>>

\* MatchOrders, Orders and their cross-margin variants: the cache takes over
\* what it is told.  Each topic keeps its order, the two have none.
OrderUpdated(u) ==
  /\ ~fatal /\ socket = "up" /\ u \in updates
  /\ u.current => [u EXCEPT !.current = FALSE] \notin updates
  /\ updates' = updates \ {u}
  /\ outdated' = IF u.current THEN outdated \ {u.order}
                             ELSE outdated \cup {u.order}
  /\ hearsay' = CASE u.current /\ (call = "taken" => u.order \in fresh) ->
                       hearsay \ {u.order}
                   [] ~u.current /\ OnTheWay(u.order) -> hearsay
                   [] OTHER -> hearsay \cup {u.order}
  /\ UNCHANGED <<socketVars, restVars, subscribing, subscribed, call, fresh,
                 fatal, evidence, gap>>

\* Faulty: any response will do, one to an earlier question, too.
DropCopyTimer_AnyResponse ==
  /\ ~fatal /\ socket = "up" /\ download = "OPEN_ORDERS"
  /\ open_orders.responded
  /\ download' = "DONE" /\ connection_status' = "READY"
  /\ UNCHANGED <<socket, login, restVars, exchangeVars, fatal, historyVars>>

\* The timer in OPEN_ORDERS.
DropCopyTimer ==
  /\ ~fatal /\ socket = "up" /\ download = "OPEN_ORDERS"
  /\ HasResponse(open_orders)
  /\ download' = "DONE" /\ connection_status' = "READY"
  /\ UNCHANGED <<socket, login, restVars, exchangeVars, fatal, historyVars>>

-----------------------------------------------------------------------------
(* OrderEntryREST1 *)

RestConnected ==
  /\ ~fatal /\ ~rest_ready
  /\ rest_ready' = TRUE
  /\ UNCHANGED <<socketVars, open_orders, exchangeVars, fatal, historyVars>>

\* A call on the wire stays there until it is answered, with an error.
RestDisconnected ==
  /\ ~fatal /\ rest_ready
  /\ rest_ready' = FALSE
  /\ UNCHANGED <<socketVars, open_orders, exchangeVars, fatal, historyVars>>

\* The timer: check_request_queue and open_orders, when the rate limiter
\* agrees.  The other slot of the request is never used.
RestTimer ==
  /\ ~fatal /\ rest_ready /\ SlotReady(open_orders) /\ open_orders.pending
  /\ open_orders' = Sent(open_orders)
  /\ call' = "sent"
  /\ evidence' = IF download = "OPEN_ORDERS" THEN "asked" ELSE "none"
  /\ UNCHANGED <<socketVars, rest_ready, subscribing, subscribed, fresh,
                 updates, outdated, fatal, gap, hearsay>>

\* Faulty: an error is not committed.
OpenOrdersAck_CommitsData(ok) ==
  /\ ~fatal /\ call # "none" /\ (ok => call = "taken")
  /\ call' = "none"
  /\ outdated' = IF ok THEN Orders \ fresh ELSE outdated
  /\ hearsay' = IF ok THEN hearsay \ fresh ELSE hearsay
  /\ open_orders' = IF ok THEN Committed(open_orders) ELSE open_orders
  /\ evidence' = IF evidence # "asked" THEN evidence
                 ELSE IF ok THEN "answered" ELSE "failed"
  /\ UNCHANGED <<socketVars, rest_ready, subscribing, subscribed, fresh,
                 updates, fatal, gap>>

\* Faulty: the snapshot is committed and not processed.
OpenOrdersAck_Drops(ok) ==
  /\ ~fatal /\ call # "none" /\ (ok => call = "taken")
  /\ call' = "none"
  /\ open_orders' = Committed(open_orders)
  /\ evidence' = IF evidence # "asked" THEN evidence
                 ELSE IF ok THEN "answered" ELSE "failed"
  /\ UNCHANGED <<socketVars, rest_ready, subscribing, subscribed, fresh,
                 updates, outdated, fatal, gap, hearsay>>

\* open_orders_ack: the orders of the snapshot, or an error at any time.
\* Committed in both cases.  The cache is set back to what the snapshot says,
\* whatever the stream has told since the snapshot was taken.
OpenOrdersAck(ok) ==
  /\ ~fatal /\ call # "none" /\ (ok => call = "taken")
  /\ call' = "none"
  /\ outdated' = IF ok THEN Orders \ fresh ELSE outdated
  /\ hearsay' = IF ok THEN hearsay \ fresh ELSE hearsay
  /\ open_orders' = Committed(open_orders)
  /\ evidence' = IF evidence # "asked" THEN evidence
                 ELSE IF ok THEN "answered" ELSE "failed"
  /\ UNCHANGED <<socketVars, rest_ready, subscribing, subscribed, fresh,
                 updates, fatal, gap>>

-----------------------------------------------------------------------------
(* The exchange *)

\* The snapshot is taken between the call and its answer.
TakeSnapshot ==
  /\ ~fatal /\ call = "sent"
  /\ call' = "taken" /\ fresh' = Orders
  /\ gap' = {} /\ hearsay' = {}
  /\ UNCHANGED <<socketVars, restVars, subscribing, subscribed, updates,
                 outdated, fatal, evidence>>

\* An order changes, which makes the updates under way about it old; the
\* topics concerned that are live tell of it.
OrderChanges(o, change) ==
  LET heard == TopicsOf(change) \cap subscribed IN
  /\ ~fatal
  /\ outdated' = outdated \cup {o} /\ fresh' = fresh \ {o}
  /\ updates' =
       {[u EXCEPT !.current = @ /\ u.order # o] : u \in updates}
         \cup {[order |-> o, topic |-> t, current |-> TRUE] : t \in heard}
  /\ gap' = IF heard = {} THEN gap \cup {o} ELSE gap \ {o}
  /\ UNCHANGED <<socketVars, restVars, subscribing, subscribed, call, fatal,
                 evidence, hearsay>>

\* log::fatal ends the process: nothing happens any more.
Dead == fatal /\ UNCHANGED vars

-----------------------------------------------------------------------------
Next ==
  \/ DropCopyConnected
  \/ DropCopyDisconnected
  \/ ExchangeCloses
  \/ LogonAccepted
  \/ LogonRefused
  \/ \E topic \in Topics, accepted \in BOOLEAN : Sub(topic, accepted)
  \/ \E u \in Update : OrderUpdated(u)
  \/ DropCopyTimer
  \/ RestConnected
  \/ RestDisconnected
  \/ RestTimer
  \/ \E ok \in BOOLEAN : OpenOrdersAck(ok)
  \/ TakeSnapshot
  \/ \E o \in Orders, change \in {"fill", "other"} : OrderChanges(o, change)
  \/ Dead

Spec == Init /\ [][Next]_vars

(***************************************************************************)
(* Fairness, as in OrderRecovery5: timers go on, both clients reconnect,   *)
(* the log-on and each call are answered, possibly with an error.          *)
(***************************************************************************)
Fairness ==
  /\ WF_vars(DropCopyConnected) /\ WF_vars(RestConnected)
  /\ WF_vars(LogonAccepted)
  /\ WF_vars(DropCopyTimer) /\ WF_vars(RestTimer)
  /\ WF_vars(\E ok \in BOOLEAN : OpenOrdersAck(ok))

FairSpec == Spec /\ Fairness

-----------------------------------------------------------------------------
(* Properties *)

\* Every variable has its type, and the slot is in flight while its one call
\* is on the wire.
TypeOK ==
  /\ socket \in {"down", "up", "closing"}
  /\ connection_status \in Status /\ download \in State
  /\ login \in BOOLEAN /\ rest_ready \in BOOLEAN /\ fatal \in BOOLEAN
  /\ open_orders \in RequestSlot
  /\ subscribing \subseteq Topics /\ subscribed \subseteq Topics
  /\ call \in {"none", "sent", "taken"}
  /\ open_orders.in_flight <=> call # "none"
  /\ fresh \subseteq Orders /\ updates \subseteq Update
  /\ outdated \subseteq Orders /\ gap \subseteq Orders /\ hearsay \subseteq Orders
  /\ evidence \in {"none", "asked", "failed", "answered"}

\* READY is only published on an answer to a question of this session.
ReadyIsReconciled == DropCopyReady => evidence \in {"failed", "answered"}

\* When READY rests on a snapshot, an order that the cache does not know as it
\* is has an update on the way, or changed or got lost unheard since the
\* snapshot was taken, or its news was overtaken: it came before the older
\* snapshot, or before an older update.  Nothing older is missing.
OnlyTheGapIsMissed ==
  DropCopyReady /\ evidence = "answered" =>
    \A o \in outdated : OnTheWay(o) \/ o \in gap \/ o \in hearsay

\* Once the connections hold, the process being alive, the recovery completes
\* and READY is kept.
RecoveryCompletes ==
  <>[](~fatal /\ socket = "up" /\ rest_ready) => <>[]DropCopyReady
=============================================================================
