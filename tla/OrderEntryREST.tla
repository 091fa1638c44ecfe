-------------------------- MODULE OrderEntryREST --------------------------
(***************************************************************************)
(* Order requests of one account over REST, on the v5 API                  *)
(* (gateway/order_entry_rest_5.cpp) and on the v1 API                      *)
(* (gateway/order_entry_rest_1.cpp): what happens to a request between the *)
(* client's order action and the last event the client hears about it.     *)
(* Requests, answers, network failures and the connection interleave; the  *)
(* exchange may handle a request whose answer nobody waits for any more.   *)
(*                                                                         *)
(* External: the exchange, the HTTP client (a call is answered once, by    *)
(* the exchange or by a network error, and calls made while a connection   *)
(* closes are answered by a network error), the framework's order          *)
(* management, which only passes requests of orders that make sense.       *)
(* A request made while the connection is not ready throws NotReady to its *)
(* caller and changes nothing.                                             *)
(***************************************************************************)
EXTENDS Integers, Sequences, FiniteSets

CONSTANTS
  Api,           \* "v1" or "v5"
  Orders,        \* the orders clients may create
  Symbols,
  SymbolOf,      \* the symbol of each order
  NetworkFails   \* connections, calls and answers may fail

ASSUME OrdersAssumption ==
  /\ IsFiniteSet(Orders) /\ IsFiniteSet(Symbols)
  /\ SymbolOf \in [Orders -> Symbols]
ASSUME ApiAssumption == Api \in {"v1", "v5"} /\ NetworkFails \in BOOLEAN

VARIABLES
  connection,  \* the REST connection: "down", "up", "closing"
  wire,        \* requests whose call has not been answered
  verdict,     \* what the exchange decided about a request
  told,        \* the events dispatched to the client, per request
  fatal,       \* a log::fatal ended the process
  \* History, read by the properties only:
  unavailable  \* requests answered by an HTTP 5xx

vars == <<connection, wire, verdict, told, fatal, unavailable>>

-----------------------------------------------------------------------------
\* What create_order, cancel_order and, for each symbol, cancel_all_orders
\* send: the two APIs differ in the wording and in the answers only.  One
\* create and one cancel request per order, one cancel-all: a bound.
Create(o) == <<"CREATE_ORDER", o>>
Cancel(o) == <<"CANCEL_ORDER", o>>
CancelAll(s) == <<"CANCEL_ALL_ORDERS", s>>

OrderRequests == {Create(o) : o \in Orders} \cup {Cancel(o) : o \in Orders}
CancelAlls == {CancelAll(s) : s \in Symbols}
Requests == OrderRequests \cup CancelAlls

\* REJECTED: the exchange said no.  ERROR: nobody knows.  FORWARDED: the
\* acknowledgement of a cancel-all that its request is on the wire.
Events == {"REJECTED", "ERROR", "FORWARDED"}

Verdicts == {"unsent", "undecided", "accepted", "refused"}

\* ready(), in both classes; close() takes effect with Disconnected.
Ready == connection # "down"

Sent(r) == verdict[r] # "unsent"

\* create_trace_and_dispatch of a Response or a CancelAllOrdersAck.
Dispatch(r, e) == told' = [told EXCEPT ![r] = Append(@, e)]

Init ==
  /\ connection = "down"
  /\ wire = {}
  /\ verdict = [r \in Requests |-> "unsent"]
  /\ told = [r \in Requests |-> <<>>]
  /\ fatal = FALSE
  /\ unavailable = {}

-----------------------------------------------------------------------------
(* Connection *)

Connected ==
  /\ ~fatal /\ connection = "down"
  /\ connection' = "up"
  /\ UNCHANGED <<wire, verdict, told, fatal, unavailable>>

Disconnected ==
  /\ ~fatal
  /\ connection = "closing" \/ (NetworkFails /\ connection = "up")
  /\ connection' = "down"
  /\ UNCHANGED <<wire, verdict, told, fatal, unavailable>>

-----------------------------------------------------------------------------
(* Requests of the clients *)

CreateOrder(o) ==
  /\ ~fatal /\ Ready /\ ~Sent(Create(o))
  /\ wire' = wire \cup {Create(o)}
  /\ verdict' = [verdict EXCEPT ![Create(o)] = "undecided"]
  /\ UNCHANGED <<connection, told, fatal, unavailable>>

CancelOrder(o) ==
  /\ ~fatal /\ Ready /\ Sent(Create(o)) /\ ~Sent(Cancel(o))
  /\ wire' = wire \cup {Cancel(o)}
  /\ verdict' = [verdict EXCEPT ![Cancel(o)] = "undecided"]
  /\ UNCHANGED <<connection, told, fatal, unavailable>>

\* Faulty: every symbol is asked about, whether it has orders or not.
CancelAllOrders_EverySymbol ==
  /\ ~fatal /\ Ready /\ \A r \in CancelAlls : ~Sent(r)
  /\ LET all == {CancelAll(SymbolOf[o]) :
                   o \in {p \in Orders : Sent(Create(p))}} IN
       /\ wire' = wire \cup CancelAlls
       /\ verdict' = [r \in Requests |->
                        IF r \in all THEN "undecided" ELSE verdict[r]]
       /\ told' = [r \in Requests |->
                     IF r \in all THEN Append(told[r], "FORWARDED")
                                  ELSE told[r]]
  /\ UNCHANGED <<connection, fatal, unavailable>>

\* One request, and one FORWARDED acknowledgement, for each symbol in which
\* the account has orders; neither when it has none.
CancelAllOrders ==
  /\ ~fatal /\ Ready /\ \A r \in CancelAlls : ~Sent(r)
  /\ LET all == {CancelAll(SymbolOf[o]) :
                   o \in {p \in Orders : Sent(Create(p))}} IN
       /\ wire' = wire \cup all
       /\ verdict' = [r \in Requests |->
                        IF r \in all THEN "undecided" ELSE verdict[r]]
       /\ told' = [r \in Requests |->
                     IF r \in all THEN Append(told[r], "FORWARDED")
                                  ELSE told[r]]
  /\ UNCHANGED <<connection, fatal, unavailable>>

\* The exchange takes a request up, perhaps after its call has failed here.
ExchangeDecides(r, outcome) ==
  /\ verdict[r] = "undecided"
  /\ verdict' = [verdict EXCEPT ![r] = outcome]
  /\ UNCHANGED <<connection, wire, told, fatal, unavailable>>

-----------------------------------------------------------------------------
(* Answers *)

\* The exchange's answer arrives over a connection that is up, and the
\* request's callback (create_order_ack and the like) handles it.
Answerable(r) == ~fatal /\ r \in wire /\ connection = "up"

\* Success: nothing is dispatched, the stream will tell; but on v5 the answer
\* to a create request closes the connection (PlaceOrderAck5).
Accepted(r) ==
  /\ Answerable(r) /\ verdict[r] = "accepted"
  /\ wire' = wire \ {r}
  /\ connection' = IF Api = "v5" /\ r[1] = "CREATE_ORDER" THEN "closing"
                                                           ELSE connection
  /\ UNCHANGED <<verdict, told, fatal, unavailable>>

\* A code other than 200 (v5), an err_code (v1), or an HTTP 4xx
\* (process_response).  That the exchange refuses in one of these ways is
\* assumed: the list of errors in a v1 answer to a cancel is not read.
Refused(r) ==
  /\ Answerable(r) /\ verdict[r] = "refused"
  /\ wire' = wire \ {r}
  /\ Dispatch(r, "REJECTED")
  /\ UNCHANGED <<connection, verdict, fatal, unavailable>>

\* An HTTP 5xx is dispatched as a refusal too, whatever became of the request.
ServerError(r) ==
  /\ Answerable(r) /\ NetworkFails
  /\ wire' = wire \ {r}
  /\ Dispatch(r, "REJECTED")
  /\ unavailable' = unavailable \cup {r}
  /\ UNCHANGED <<connection, verdict, fatal>>

\* Faulty: a network error is taken for a refusal.
NetworkError_Rejects(r) ==
  /\ ~fatal /\ r \in wire /\ (NetworkFails \/ connection # "up")
  /\ wire' = wire \ {r}
  /\ Dispatch(r, "REJECTED")
  /\ UNCHANGED <<connection, verdict, fatal, unavailable>>

\* Faulty: a network error is only logged.
NetworkError_Silent(r) ==
  /\ ~fatal /\ r \in wire /\ (NetworkFails \/ connection # "up")
  /\ wire' = wire \ {r}
  /\ UNCHANGED <<connection, verdict, told, fatal, unavailable>>

\* NetworkError: a timeout, or the connection is gone.
NetworkError(r) ==
  /\ ~fatal /\ r \in wire /\ (NetworkFails \/ connection # "up")
  /\ wire' = wire \ {r}
  /\ Dispatch(r, "ERROR")
  /\ UNCHANGED <<connection, verdict, fatal, unavailable>>

\* An answer that is no answer: 1xx, an unknown status, a body that does not
\* parse.  A redirection ends the process.
BadAnswer(r) ==
  /\ Answerable(r) /\ NetworkFails
  /\ \/ /\ wire' = wire \ {r}
        /\ Dispatch(r, "ERROR")
        /\ UNCHANGED fatal
     \/ /\ fatal' = TRUE
        /\ UNCHANGED <<wire, told>>
  /\ UNCHANGED <<connection, verdict, unavailable>>

Next ==
  \/ Connected
  \/ Disconnected
  \/ \E o \in Orders : CreateOrder(o) \/ CancelOrder(o)
  \/ CancelAllOrders
  \/ \E r \in Requests :
       \/ \E outcome \in {"accepted", "refused"} : ExchangeDecides(r, outcome)
       \/ Accepted(r)
       \/ Refused(r)
       \/ ServerError(r)
       \/ NetworkError(r)
       \/ BadAnswer(r)

Spec == Init /\ [][Next]_vars

-----------------------------------------------------------------------------
(* Properties *)

\* The events that end a request for the client.
Finals(r) == {i \in DOMAIN told[r] : told[r][i] # "FORWARDED"}

\* Every variable has its type; nothing unsent is on the wire.
TypeOK ==
  /\ connection \in {"down", "up", "closing"}
  /\ wire \subseteq {r \in Requests : Sent(r)}
  /\ verdict \in [Requests -> Verdicts]
  /\ told \in [Requests -> Seq(Events)]
  /\ fatal \in BOOLEAN
  /\ unavailable \subseteq Requests

\* A request is answered to the client once: not while it is on the wire,
\* and afterwards with one event, or with none when the exchange accepted
\* it, for then the order stream tells.  No request is lost in silence.
EveryRequestAccountedFor ==
  \A r \in Requests : Sent(r) =>
    \/ r \in wire /\ Finals(r) = {}
    \/ r \notin wire /\ Finals(r) = {} /\ verdict[r] = "accepted"
    \/ r \notin wire /\ \E i \in DOMAIN told[r] : Finals(r) = {i}

\* A client is told REJECTED only of a request that the exchange refused, so
\* that it will not find the order alive, or its cancel done, later on.  The
\* one exception is an HTTP 5xx, which says nothing about the request.
RejectedMeansRefused ==
  \A r \in Requests :
    (\E i \in DOMAIN told[r] : told[r][i] = "REJECTED")
      => verdict[r] = "refused" \/ r \in unavailable

\* What a client should make of the events it heard about a request; an HTTP
\* 5xx counts as an error, whatever it is called.
Heard(r) ==
  CASE Finals(r) = {} -> "nothing"
    [] \E i \in Finals(r) :
         Finals(r) = {i} /\ told[r][i] = "REJECTED" /\ r \notin unavailable
         -> "refused"
    [] \E i \in Finals(r) :
         Finals(r) = {i} /\ (told[r][i] = "ERROR" \/ r \in unavailable)
         -> "unknown"
    [] OTHER -> "several events"

\* Order entry over REST keeps the promise of RequestOutcomes, for a carrier
\* that loses nothing: each request is settled once, by a true answer, by an
\* error or by consent, and what was said stays said, whenever the exchange
\* decides.
Outcomes == INSTANCE RequestOutcomes WITH
  open <- wire,
  heard <- [r \in Requests |-> Heard(r)],
  MayLose <- FALSE

OutcomesRefined == Outcomes!Spec

\* The answer to a create request is dropped: "we only get order_id, no
\* detailed information about order status" (order_entry_rest_5.cpp, and
\* order_entry_rest_1.cpp).  As long as the network holds, no request then
\* ends in an error: the client is told the verdict or left to the stream.
NoErrorWithoutOutage ==
  ~NetworkFails =>
    \A r \in Requests : \A i \in DOMAIN told[r] : told[r][i] # "ERROR"
=============================================================================
