-------------------------- MODULE MessageDispatch --------------------------
(***************************************************************************)
(* Which handler a message of the exchange reaches: the parsers of         *)
(* protocol/json, which look at the keys of a message in its own order,    *)
(* and the handlers that the six web sockets leave unimplemented.  A name  *)
(* is the sequence of its words, split at the dots; a message is the       *)
(* sequence of its top-level fields that a parser knows of.                *)
(***************************************************************************)
EXTENDS Integers, Sequences

CONSTANT AllowUnknown  \* settings.experimental.allow_unknown_event_types

ASSUME AllowUnknownAssumption == AllowUnknown \in BOOLEAN

Field(key, words) == [key |-> key, words |-> words]

\* log::fatal ends the process, unless unknown messages are allowed.
Unexpected == IF AllowUnknown THEN "ignored" ELSE "fatal"

\* The values of "op" that have a handler; "notify" leaves it to later keys.
Ops == {"close", "error", "ping", "auth", "sub"}

\* Faulty: the search ends at a notification's "op".
Decides_Notify(keys, passed, f) ==
  f.key \in keys /\ f.words[1] \notin passed \ {"notify"}

\* The key settles which handler is called, unless the value is passed over.
Decides(keys, passed, f) == f.key \in keys /\ f.words[1] \notin passed

\* The first field that decides.
FirstOf(fields, keys, passed) ==
  LET deciding == {i \in DOMAIN fields : Decides(keys, passed, fields[i])}
  IN IF deciding = {} THEN Field("none", <<>>)
     ELSE fields[CHOOSE i \in deciding : \A j \in deciding : i <= j]

\* The handler by that field: of "op", or the handler given for other keys.
HandlerOf(first, other) ==
  CASE first.key = "none" -> Unexpected
    [] first.key = "op" ->
         IF first.words[1] \in Ops THEN first.words[1] ELSE Unexpected
    [] OTHER -> other

Known(word, words) == IF word \in words THEN word ELSE Unexpected

-----------------------------------------------------------------------------
(* Parser5: the private sockets of v5 *)

Topics5 == {"account", "positions", "match_orders", "orders"}

Parser5(fields) ==
  LET first == FirstOf(fields, {"op", "cid", "topic"}, {"notify"})
  IN HandlerOf(first, IF first.key = "cid" THEN "response"
                                           ELSE Known(first.words[1], Topics5))

(* Parser2: the drop copy of v1 *)

Topics2 == {"accounts", "positions", "matchOrders", "orders",
            "accounts_cross", "positions_cross", "matchOrders_cross",
            "orders_cross", "funding_rate"}

\* public.<symbol>.<topic>, or <topic>.<symbol>.
TopicOf2(words) ==
  IF words[1] = "public" THEN words[Len(words)] ELSE words[1]

Parser2(fields) ==
  LET first == FirstOf(fields, {"op", "topic"}, {"notify"})
  IN HandlerOf(first, Known(TopicOf2(first.words), Topics2))

(* Parser3: order entry of v1.  Here "sub" leaves it to later keys as well. *)

Parser3(fields) ==
  LET first == FirstOf(fields, {"op", "status"}, {"notify", "sub"})
  IN HandlerOf(first, "response")

-----------------------------------------------------------------------------
(* Parser: the public sockets, by the members of the frame *)

Topics == {"bbo", "depth", "trade", "detail", "estimated_rate",
           "premium_index", "basis", "index"}

\* extract_topic: market.<symbol>.<topic>..., the parts that are there.
TopicOf(ch) == CASE Len(ch) >= 3 -> ch[3] [] OTHER -> ch[Len(ch)]

\* extract_symbol.
SymbolOf(ch) == IF Len(ch) >= 2 THEN ch[2] ELSE ch[1]

Frame(ping, status, subbed, ch) ==
  [ping |-> ping, status |-> status, subbed |-> subbed, ch |-> ch]

Parser(frame) ==
  CASE frame.ping -> "ping"
    [] ~frame.ping /\ frame.status = "error" -> "error"
    [] ~frame.ping /\ frame.status = "ok" ->
         IF frame.subbed THEN "subbed" ELSE "fatal"
    [] ~frame.ping /\ frame.status = "none" ->
         IF frame.ch = <<>> THEN "fatal"
         ELSE IF TopicOf(frame.ch) \in Topics5 THEN "ignored"
         ELSE Known(TopicOf(frame.ch), Topics)
    [] OTHER -> Unexpected

-----------------------------------------------------------------------------
\* The handlers of each socket that are log::fatal("Unexpected").
Refused ==
  [MarketData    |-> {"estimated_rate", "premium_index", "basis", "index"},
   WebSocket     |-> {"bbo", "depth", "trade", "detail"},
   DropCopy5     |-> {"response"},
   DropCopy1     |-> {"funding_rate"},
   OrderEntryWS5 |-> {"sub"} \cup Topics5,
   OrderEntryWS1 |-> {}]

\* What a message does at a socket: the handler called, "ignored" or "fatal".
Outcome(socket, message) ==
  LET handler == CASE socket \in {"MarketData", "WebSocket"} -> Parser(message)
                   [] socket \in {"DropCopy5", "OrderEntryWS5"} ->
                        Parser5(message)
                   [] socket = "DropCopy1" -> Parser2(message)
                   [] socket = "OrderEntryWS1" -> Parser3(message)
  IN IF handler \in Refused[socket] THEN "fatal" ELSE handler
=============================================================================
