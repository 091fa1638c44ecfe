---------------------------- MODULE OrderIntent ----------------------------
(***************************************************************************)
(* What becomes of a client's intention: an order is asked for, written    *)
(* for the exchange, held there, and reported back by the drop copy while  *)
(* its state advances, on two channels that overtake each other: orders,   *)
(* and matches, which report fills only.  Orders do not influence each     *)
(* other here, hence one order.                                            *)
(*                                                                         *)
(* External: the framework, which checks that a request has a side and a   *)
(* type; the exchange, which holds the order as it reads the message and   *)
(* repeats its words in updates, "both" for a position side or an offset   *)
(* that was left out.  The URL that a margin mode selects is not looked    *)
(* at, only what the message says.                                         *)
(***************************************************************************)
EXTENDS OrderFields, Naturals, Sequences

CONSTANTS
  TimesInForce,  \* what clients ask for
  MaxUpdates     \* bound: updates on their way, on each channel

ASSUME TimesInForceAssumption == "UNDEFINED" \in TimesInForce
ASSUME MaxUpdatesAssumption == MaxUpdates \in Nat

VARIABLES
  api,      \* 1 or 5, never changes
  account,  \* the margin mode of the account, never changes
  ws_api,   \* the setting: orders go over the web socket, never changes
  request,  \* what the client asked for, never changes
  message,  \* what was sent to the exchange
  state,    \* of the order at the exchange
  updates,  \* the orders channel to the drop copy
  matches,  \* its match-orders channel
  view,     \* what the client was last told
  fatal,    \* a log::fatal ended the process
  \* History, read by the properties only:
  source    \* the channel it was told by

settings == <<api, account, ws_api, request>>
exchangeVars == <<state, updates, matches>>
toldVars == <<view, source>>
vars == <<settings, message, exchangeVars, toldVars, fatal>>

Request ==
  [side : {"BUY", "SELL"}, type : {"MARKET", "LIMIT"},
   time_in_force : TimesInForce, post_only : BOOLEAN, reduce_only : BOOLEAN,
   position_effect : {"UNDEFINED", "OPEN", "CLOSE"},
   margin_mode : {"UNDEFINED", "ISOLATED", "CROSS", "PORTFOLIO"}]

\* Records, so that they compare with messages and updates.
None == [is |-> "none"]
NotSent == [is |-> "not sent"]

Sent == message \notin {None, NotSent}

\* default_margin_mode, on v5.
ApiMarginMode == "CROSS"

\* What a v5 order is margined by when the client does not say.
DefaultMarginMode == IF ws_api THEN account ELSE ApiMarginMode

\* The log-on of the drop copy ends the process of an isolated v5 account, so
\* that it never subscribes to anything.
Subscribes == api = 1 \/ account = "CROSS"

Init ==
  /\ api \in {1, 5}
  /\ account \in {"ISOLATED", "CROSS"}
  /\ ws_api \in BOOLEAN
  /\ request \in Request
  /\ message = None /\ state = "none" /\ updates = <<>>
  /\ matches = <<>> /\ view = None /\ source = "none" /\ fatal = FALSE

-----------------------------------------------------------------------------
(* The gateway *)

\* create_order, on v1.
CreateV1 ==
  /\ api = 1 /\ message = None
  /\ Encodes1(request)
  /\ message' = CreateOrder1(request)
  /\ UNCHANGED <<settings, exchangeVars, toldVars, fatal>>

\* create_order, on v5.  Neither connection waits for the drop copy: orders go
\* out before it is logged on, and while its log-on is refused.
CreateV5 ==
  /\ ~fatal /\ api = 5 /\ message = None
  /\ Encodes5(request)
  /\ message' = CreateOrder5(request, DefaultMarginMode)
  /\ UNCHANGED <<settings, exchangeVars, toldVars, fatal>>

\* DropCopy5::download, upon the accepted log-on of an isolated account.
DropCopyEnds ==
  /\ ~fatal /\ ~Subscribes
  /\ fatal' = TRUE
  /\ UNCHANGED <<settings, message, exchangeVars, toldVars>>

\* No translation: the request fails in its caller.
Unsupported ==
  /\ ~fatal /\ message = None
  /\ IF api = 1 THEN ~Encodes1(request) ELSE ~Encodes5(request)
  /\ message' = NotSent
  /\ UNCHANGED <<settings, exchangeVars, toldVars, fatal>>

\* remaining_quantity; the orders of this gateway cannot be modified.
Remaining(update) == update.volume - update.trade_volume

\* Orders, OrdersCross, MatchOrders and MatchOrdersCross.
Orders1(update) ==
  [side |-> SideOfDirection[update.direction],
   position_effect |-> EffectOfOffset[update.offset],
   order_type |-> TypeOfPriceType[update.order_price_type],
   order_status |-> StatusOfNumber[update.status],
   traded_quantity |-> update.trade_volume,
   remaining_quantity |-> Remaining(update)]

\* Orders5.
Orders5(update) ==
  [side |-> SideOf[update.side],
   position_effect |-> EffectOf(update.position_side, update.side),
   order_type |-> TypeOfType[update.type],
   order_status |-> StatusOfState[update.state],
   traded_quantity |-> update.trade_volume,
   remaining_quantity |-> Remaining(update)]

Tell(update, channel) ==
  /\ view' = IF api = 1 THEN Orders1(update) ELSE Orders5(update)
  /\ source' = channel

OrderUpdated ==
  /\ updates # <<>>
  /\ Tell(Head(updates), "orders")
  /\ updates' = Tail(updates)
  /\ UNCHANGED <<settings, message, state, matches, fatal>>

\* Faulty: v5 forwards matches as well.
OrderMatched_Forwards ==
  /\ matches # <<>>
  /\ Tell(Head(matches), "matches")
  /\ matches' = Tail(matches)
  /\ UNCHANGED <<settings, message, state, updates, fatal>>

\* MatchOrders and MatchOrdersCross forward their update, MatchOrders5 is
\* disabled by a continue.
OrderMatched ==
  /\ matches # <<>>
  /\ IF api = 1 THEN Tell(Head(matches), "matches") ELSE UNCHANGED toldVars
  /\ matches' = Tail(matches)
  /\ UNCHANGED <<settings, message, state, updates, fatal>>

-----------------------------------------------------------------------------
(* The exchange *)

\* What may follow a state of an order.
After ==
  [none |-> {"new"}, new |-> {"partially_filled", "filled", "canceled"},
   partially_filled |-> {"partially_filled", "filled", "partially_canceled"},
   filled |-> {}, canceled |-> {}, partially_canceled |-> {}]

\* The numbers of a state on v1.
Numbers ==
  [new |-> {1, 2, 3}, partially_filled |-> {4}, partially_canceled |-> {5},
   filled |-> {6}, canceled |-> {7}]

\* Of a volume of Volume, how much is traded in a state.
Volume == 2

Traded ==
  [new |-> 0, partially_filled |-> 1, filled |-> Volume, canceled |-> 0,
   partially_canceled |-> 1]

Both(word) == IF word = "undefined" THEN "both" ELSE word

\* The update of a state that v1 gives the number s.
Update(next, s) ==
  IF api = 1
    THEN [direction |-> message.direction,
          offset |-> Both(message.offset),
          order_price_type |-> message.order_price_type,
          status |-> s,
          volume |-> Volume, trade_volume |-> Traded[next]]
    ELSE [side |-> message.side,
          position_side |-> Both(message.position_side),
          type |-> message.type,
          state |-> s,
          volume |-> Volume, trade_volume |-> Traded[next]]

Advance ==
  /\ Sent /\ Len(updates) < MaxUpdates /\ Len(matches) < MaxUpdates
  /\ \E next \in After[state] :
       /\ state' = next
       /\ \E s \in IF api = 1 THEN Numbers[next] ELSE {next} :
            /\ updates' = IF Subscribes
                            THEN Append(updates, Update(next, s)) ELSE updates
            /\ matches' = IF Subscribes /\ next \in {"partially_filled", "filled"}
                            THEN Append(matches, Update(next, s)) ELSE matches
  /\ UNCHANGED <<settings, message, toldVars, fatal>>

Next ==
  \/ CreateV1
  \/ CreateV5
  \/ DropCopyEnds
  \/ Unsupported
  \/ OrderUpdated
  \/ OrderMatched
  \/ Advance

Spec == Init /\ [][Next]_vars

-----------------------------------------------------------------------------
(* What is meant and what is understood.  How an order of a hedged account *)
(* is understood on v5: it opens when it buys long or sells short.         *)

Meant ==
  [side |-> request.side,
   limit |-> request.type = "LIMIT",
   time_in_force |->
     IF request.type = "MARKET" THEN "NONE"
     ELSE IF request.time_in_force = "UNDEFINED" THEN "GTC"
     ELSE request.time_in_force,
   post_only |-> request.type = "LIMIT" /\ request.post_only,
   reduce_only |-> request.reduce_only,
   position_effect |-> request.position_effect,
   margin_mode |-> IF request.margin_mode = "UNDEFINED" THEN account
                   ELSE request.margin_mode]

Understood1 ==
  LET type == message.order_price_type IN
  [side |-> IF message.direction = "buy" THEN "BUY" ELSE "SELL",
   limit |-> type # "market",
   time_in_force |-> CASE type = "market" -> "NONE"
                       [] type = "ioc"    -> "IOC"
                       [] type = "fok"    -> "FOK"
                       [] OTHER           -> "GTC",
   post_only |-> type = "post_only",
   reduce_only |-> FALSE,
   position_effect |-> CASE message.offset = "open"  -> "OPEN"
                         [] message.offset = "close" -> "CLOSE"
                         [] OTHER                    -> "UNDEFINED",
   margin_mode |-> account]

Understood5 ==
  LET type == message.type IN
  [side |-> IF message.side = "buy" THEN "BUY" ELSE "SELL",
   limit |-> type # "market",
   time_in_force |-> CASE type = "market"                  -> "NONE"
                       [] message.time_in_force = "ioc"    -> "IOC"
                       [] message.time_in_force = "fok"    -> "FOK"
                       [] OTHER                            -> "GTC",
   post_only |-> type = "post_only",
   reduce_only |-> message.reduce_only,
   position_effect |->
     IF message.position_side = "undefined" THEN "UNDEFINED"
     ELSE IF (message.position_side = "long") <=> (message.side = "buy")
       THEN "OPEN" ELSE "CLOSE",
   margin_mode |-> IF message.margin_mode = "cross" THEN "CROSS"
                   ELSE "ISOLATED"]

Understood == IF api = 1 THEN Understood1 ELSE Understood5

-----------------------------------------------------------------------------
(* Properties *)

\* REST takes the margin mode of the API for that of the account.
MarginedByApi ==
  ~ws_api /\ request.margin_mode = "UNDEFINED" /\ account # ApiMarginMode

\* The exchange understands an order as the client meant it: a limit order
\* that must not rest does not, a post-only order makes, the position that was
\* to be opened is not reduced, the margin mode is the client's, or else the
\* account's.  What is lost on the way is this: v1 has neither reduce-only
\* orders nor a margin mode by order, and no time in force of post-only
\* orders; v5 over REST takes an isolated account for a cross one, unless the
\* request says otherwise; sales on v5 are the matter of OpenMeansOpen.
UnderstoodAsMeant ==
  Sent =>
    /\ Understood.side = Meant.side
    /\ Understood.limit = Meant.limit
    /\ Understood.post_only = Meant.post_only
    /\ api = 5 \/ ~Meant.post_only =>
         Understood.time_in_force = Meant.time_in_force
    /\ api = 5 => Understood.reduce_only = Meant.reduce_only
    /\ api = 5 /\ ~MarginedByApi => Understood.margin_mode = Meant.margin_mode
    /\ api = 1 \/ request.side = "BUY" =>
         Understood.position_effect = Meant.position_effect

\* Once its updates have arrived, a client sees its order as the exchange
\* holds it: the same side, type and effect on the position, what is traded
\* and what remains, and done if and only if it is done there.  The state of
\* an order that v1 told last by a match may lag: nothing in an update says
\* which of the two channels is ahead.
SeenAsHeld ==
  updates = <<>> /\ matches = <<>> /\ view # None =>
    /\ view.side = Understood.side
    /\ view.order_type = IF Understood.limit THEN "LIMIT" ELSE "MARKET"
    /\ view.position_effect = Understood.position_effect
    /\ view.remaining_quantity = Volume - view.traded_quantity
    /\ source = "orders" =>
         /\ view.traded_quantity = Traded[state]
         /\ view.order_status = "COMPLETED" <=> state = "filled"
         /\ view.order_status = "CANCELED"
              <=> state \in {"canceled", "partially_canceled"}

\* How far an order has come in its life, as clients see it.
Progress(v) ==
  CASE v.order_status = "ACCEPTED" -> 0
    [] v.order_status = "WORKING"  -> 1 + v.traded_quantity
    [] OTHER                       -> 2 + Volume

\* What a client is told of an order never goes back: a done order is not
\* working again, a fill is not taken back.  On v1 it may, around a match:
\* there both channels are forwarded and the slower one repeats.
NeverGoesBack ==
  [][view # None /\ Progress(view') < Progress(view)
       => api = 1 /\ "matches" \in {source, source'}]_vars

\* An order to open a position opens one, and an order to close one closes
\* one, in the words that protocol/json/map.cpp itself uses of updates.
OpenMeansOpen ==
  Sent => Understood.position_effect = Meant.position_effect
=============================================================================
