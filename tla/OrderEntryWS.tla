---------------------------- MODULE OrderEntryWS ----------------------------
(***************************************************************************)
(* Order requests of one account over a web socket, on the v5 API          *)
(* (gateway/order_entry_ws_5.cpp) and on the v1 API                        *)
(* (gateway/order_entry_ws_1.cpp).  Unlike order entry over REST, the      *)
(* objects remember nothing of a request: an answer finds its order by the *)
(* correlation id it carries, requests are sent whether the log-on was     *)
(* answered or not, and a request whose answer does not come is never      *)
(* reported.                                                               *)
(*                                                                         *)
(* External: the exchange; the web socket client, which reconnects, and    *)
(* which refuses to its caller, without a change, what is sent while it is *)
(* down; the framework, which only passes requests of orders that make     *)
(* sense.  Abstracted: the correlation id, by the request it names.        *)
(***************************************************************************)
EXTENDS Sequences

CONSTANTS
  Orders,      \* the orders clients may create
  Symbols,
  SymbolOf,    \* the symbol of each order
  RetryLogon   \* settings.experimental.retry_logon

ASSUME RetryAssumption == RetryLogon \in BOOLEAN
ASSUME OrdersAssumption == SymbolOf \in [Orders -> Symbols]

VARIABLES
  api,                \* "v1" or "v5": settings of the process, never changes
  socket,             \* the order-entry web socket: "down", "up", "closing"
  connection_status,  \* OrderEntryWS5::connection_status_
  login,              \* on this connection: "none", "sent", "accepted"
  wire,               \* requests sent on this connection and not answered
  verdict,            \* what the exchange decided about a request
  told,               \* the events dispatched to the client, per request
  fatal,              \* a log::fatal ended the process
  \* History, read by the properties only:
  lost                \* requests whose answer never came or named nobody

connectionVars == <<api, socket, connection_status, login>>
requestVars == <<wire, verdict, told, lost>>
vars == <<connectionVars, requestVars, fatal>>

-----------------------------------------------------------------------------
\* One create and one cancel request per order, one cancel-all: a bound.
Create(o) == <<"CREATE_ORDER", o>>
Cancel(o) == <<"CANCEL_ORDER", o>>
CancelAll(s) == <<"CANCEL_ALL_ORDERS", s>>

CancelAlls == {CancelAll(s) : s \in Symbols}
Requests == {Create(o) : o \in Orders} \cup {Cancel(o) : o \in Orders}
              \cup CancelAlls

Events == {"ACCEPTED", "REJECTED"}

Sent(r) == verdict[r] # "unsent"

\* create_trace_and_dispatch of a Response or a CancelAllOrdersAck.
Dispatch(r, e) == told' = [told EXCEPT ![r] = Append(@, e)]

Init ==
  /\ api \in {"v1", "v5"}
  /\ socket = "down" /\ connection_status = "DISCONNECTED"
  /\ login = "none"
  /\ wire = {} /\ lost = {}
  /\ verdict = [r \in Requests |-> "unsent"]
  /\ told = [r \in Requests |-> <<>>]
  /\ fatal = FALSE

-----------------------------------------------------------------------------
(* Connection *)

\* web::socket::Ready: the log-on message goes out.  v1 is ready at once.
SocketReady ==
  /\ ~fatal /\ socket = "down"
  /\ socket' = "up" /\ login' = "sent"
  /\ connection_status' = IF api = "v1" THEN "READY" ELSE "LOGIN_SENT"
  /\ UNCHANGED <<api, requestVars, fatal>>

\* Faulty: the status is left alone.
SocketDisconnected_KeepsStatus ==
  /\ ~fatal /\ socket # "down"
  /\ socket' = "down" /\ login' = "none"
  /\ wire' = {} /\ lost' = lost \cup wire
  /\ UNCHANGED <<api, connection_status, verdict, told, fatal>>

\* Faulty: requests wait for the next connection.
SocketDisconnected_KeepsRequests ==
  /\ ~fatal /\ socket # "down"
  /\ socket' = "down" /\ login' = "none"
  /\ connection_status' = "DISCONNECTED"
  /\ UNCHANGED <<api, requestVars, fatal>>

\* web::socket::Disconnected: the answers that were to come do not, and
\* nobody is told.
SocketDisconnected ==
  /\ ~fatal /\ socket # "down"
  /\ socket' = "down" /\ login' = "none"
  /\ connection_status' = "DISCONNECTED"
  /\ wire' = {} /\ lost' = lost \cup wire
  /\ UNCHANGED <<api, verdict, told, fatal>>

\* Close2: we close; Disconnected follows.
ExchangeCloses ==
  /\ ~fatal /\ socket = "up"
  /\ socket' = "closing"
  /\ UNCHANGED <<api, connection_status, login, requestVars, fatal>>

\* Auth, accepted.
LogonAccepted ==
  /\ ~fatal /\ socket = "up" /\ login = "sent"
  /\ login' = "accepted" /\ connection_status' = "READY"
  /\ UNCHANGED <<api, socket, requestVars, fatal>>

\* Auth, refused.
LogonRefused ==
  /\ ~fatal /\ socket = "up" /\ login = "sent"
  /\ login' = "none"
  /\ IF RetryLogon THEN socket' = "closing" /\ UNCHANGED fatal
                   ELSE fatal' = TRUE /\ UNCHANGED socket
  /\ UNCHANGED <<api, connection_status, requestVars>>

-----------------------------------------------------------------------------
(* Requests of the clients: sent when there is a connection, ready or not *)

Sending(S) ==
  /\ wire' = wire \cup S
  /\ verdict' = [r \in Requests |-> IF r \in S THEN "undecided"
                                               ELSE verdict[r]]
  /\ UNCHANGED <<connectionVars, told, lost, fatal>>

CreateOrder(o) ==
  /\ ~fatal /\ socket # "down" /\ ~Sent(Create(o))
  /\ Sending({Create(o)})

CancelOrder(o) ==
  /\ ~fatal /\ socket # "down" /\ Sent(Create(o)) /\ ~Sent(Cancel(o))
  /\ Sending({Cancel(o)})

\* One message for each symbol in which the account has orders, all with
\* the same correlation id.
CancelAllOrders ==
  /\ ~fatal /\ socket # "down" /\ \A r \in CancelAlls : ~Sent(r)
  /\ LET owned == {o \in Orders : Sent(Create(o))} IN
       /\ owned # {}
       /\ Sending({CancelAll(SymbolOf[o]) : o \in owned})

\* The exchange takes a request up, perhaps after the connection is gone;
\* only a connection that is logged on has its requests accepted.
ExchangeDecides(r, outcome) ==
  /\ verdict[r] = "undecided"
  /\ outcome = "accepted" /\ r \in wire => login = "accepted"
  /\ verdict' = [verdict EXCEPT ![r] = outcome]
  /\ UNCHANGED <<connectionVars, wire, told, lost, fatal>>

-----------------------------------------------------------------------------
(* Answers *)

\* The exchange answers a request that it has decided about.
Answers(r) ==
  /\ ~fatal /\ socket = "up" /\ r \in wire
  /\ verdict[r] \in {"accepted", "refused"}
  /\ wire' = wire \ {r}
  /\ UNCHANGED <<connectionVars, verdict>>

\* Error2: an error that names no request is logged.
Error2(r) ==
  /\ Answers(r) /\ verdict[r] = "refused"
  /\ lost' = lost \cup {r}
  /\ UNCHANGED <<told, fatal>>

\* Faulty: failures are dropped with the successes.
Response5_DropsFailures(r) ==
  /\ api = "v5" /\ Answers(r)
  /\ IF r \in CancelAlls
       THEN Dispatch(r, IF verdict[r] = "accepted" THEN "ACCEPTED"
                                                   ELSE "REJECTED")
       ELSE UNCHANGED told
  /\ UNCHANGED <<lost, fatal>>

\* Response5: the answer to a cancel-all is passed on; of the others, the
\* failures are, and the successes are left to the order stream.
Response5(r) ==
  /\ api = "v5" /\ Answers(r)
  /\ IF verdict[r] = "refused" THEN Dispatch(r, "REJECTED")
     ELSE IF r \in CancelAlls THEN Dispatch(r, "ACCEPTED")
     ELSE UNCHANGED told
  /\ UNCHANGED <<lost, fatal>>

\* Faulty: without a list of errors it is a success.
Response_ListDecides(r) ==
  /\ api = "v1" /\ Answers(r)
  /\ IF r \in CancelAlls THEN UNCHANGED told
     ELSE Dispatch(r, "ACCEPTED")
  /\ UNCHANGED <<lost, fatal>>

\* Response: the answer to a cancel-all is dropped, every other is passed
\* on.  A refusal with a list of several errors ends the process.
Response(r) ==
  /\ api = "v1" /\ Answers(r)
  /\ \/ /\ r \in CancelAlls
        /\ UNCHANGED <<told, fatal>>
     \/ /\ r \notin CancelAlls
        /\ Dispatch(r, IF verdict[r] = "accepted" THEN "ACCEPTED"
                                                  ELSE "REJECTED")
        /\ UNCHANGED fatal
     \/ /\ r \notin CancelAlls /\ verdict[r] = "refused"
        /\ fatal' = TRUE
        /\ UNCHANGED told
  /\ UNCHANGED lost

\* log::fatal ends the process: nothing happens any more.
Dead == fatal /\ UNCHANGED vars

Next ==
  \/ SocketReady
  \/ SocketDisconnected
  \/ ExchangeCloses
  \/ LogonAccepted
  \/ LogonRefused
  \/ \E o \in Orders : CreateOrder(o) \/ CancelOrder(o)
  \/ CancelAllOrders
  \/ \E r \in Requests :
       \/ \E outcome \in {"accepted", "refused"} : ExchangeDecides(r, outcome)
       \/ Error2(r)
       \/ Response5(r)
       \/ Response(r)
  \/ Dead

Spec == Init /\ [][Next]_vars

-----------------------------------------------------------------------------
(* Properties *)

\* Every variable has its type; what is on the wire was sent and has not
\* been answered, on a connection that is there.
TypeOK ==
  /\ api \in {"v1", "v5"}
  /\ socket \in {"down", "up", "closing"}
  /\ connection_status \in {"DISCONNECTED", "LOGIN_SENT", "READY"}
  /\ login \in {"none", "sent", "accepted"}
  /\ wire \subseteq {r \in Requests : Sent(r) /\ told[r] = <<>>}
  /\ socket = "down" => wire = {}
  /\ verdict \in [Requests -> {"unsent", "undecided", "accepted", "refused"}]
  /\ told \in [Requests -> Seq(Events)]
  /\ lost \subseteq Requests
  /\ fatal \in BOOLEAN

\* Silence is explained: a client that hears nothing of a request has it
\* still on the wire, or it was accepted (v5, where the order stream tells),
\* or it was a cancel-all (v1), or its answer was lost with a connection or
\* named nobody.  Nothing else goes unreported.
SilenceExplained ==
  \A r \in Requests : Sent(r) /\ told[r] = <<>> /\ ~fatal =>
    \/ r \in wire \cup lost
    \/ api = "v5" /\ verdict[r] = "accepted" /\ r \notin CancelAlls
    \/ api = "v1" /\ r \in CancelAlls

\* On v5 the stream says READY only on a connection that is logged on.
ReadyIsLoggedOn ==
  api = "v5" /\ connection_status = "READY" => login = "accepted"

\* What a client makes of the events it heard about a request.
Heard(events) ==
  CASE events = <<>> -> "nothing"
    [] events = <<"ACCEPTED">> -> "accepted"
    [] events = <<"REJECTED">> -> "refused"
    [] OTHER -> "several events"

\* Order entry over a web socket keeps the promise of RequestOutcomes, for a
\* carrier that loses requests in silence: what is heard, is heard once and
\* is true, even of requests that outlive their connection.
Outcomes == INSTANCE RequestOutcomes WITH
  open <- wire,
  heard <- [r \in Requests |-> Heard(told[r])],
  MayLose <- TRUE

OutcomesRefined == Outcomes!Spec
=============================================================================
