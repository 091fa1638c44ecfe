---------------------------- MODULE OrderFields ----------------------------
(***************************************************************************)
(* How an order is told to the exchange and how the exchange's words are   *)
(* told to clients: the tables of protocol/json/map.cpp and the fields     *)
(* that the create messages of protocol/json/encoder.cpp carry, on both    *)
(* APIs.  The words of the gateway are in upper case, those of the         *)
(* exchange in lower case.  A value that a table lacks has no translation: *)
(* a request that needs it is not sent.                                    *)
(*                                                                         *)
(* Abstracted: symbols, ids, quantities, prices and leverage, which are    *)
(* passed through; the layout of messages; unknown words.                  *)
(***************************************************************************)

-----------------------------------------------------------------------------
(* From the exchange *)

\* v1 calls it a direction, v5 a side.
SideOfDirection == [undefined |-> "UNDEFINED", buy |-> "BUY", sell |-> "SELL"]

SideOf == [undefined |-> "UNDEFINED", buy |-> "BUY", sell |-> "SELL"]

EffectOfOffset ==
  [undefined |-> "UNDEFINED", open |-> "OPEN", close |-> "CLOSE",
   both |-> "UNDEFINED"]

TypeOfPriceType ==
  [undefined |-> "UNDEFINED", market |-> "MARKET", limit |-> "LIMIT",
   post_only |-> "LIMIT", ioc |-> "LIMIT", fok |-> "LIMIT",
   opponent |-> "UNDEFINED", optimal_5 |-> "UNDEFINED"]

TypeOfType ==
  [undefined |-> "UNDEFINED", market |-> "MARKET", limit |-> "LIMIT",
   post_only |-> "LIMIT"]

\* Faulty: the side of the order is not looked at.
EffectOf_Side(position_side, side) ==
  CASE position_side = "long"  -> "OPEN"
    [] position_side = "short" -> "CLOSE"
    [] OTHER                   -> "UNDEFINED"

EffectOf(position_side, side) ==
  CASE <<position_side, side>> \in {<<"long", "buy">>, <<"short", "sell">>}
         -> "OPEN"
    [] <<position_side, side>> \in {<<"long", "sell">>, <<"short", "buy">>}
         -> "CLOSE"
    [] OTHER -> "UNDEFINED"

\* v1: 1 and 2 ready to submit, 3 submitted, 4 partially matched, 5 partially
\* matched and cancelled, 6 matched, 7 cancelled.
StatusOfNumber ==
  <<"ACCEPTED", "ACCEPTED", "WORKING", "WORKING", "CANCELED", "COMPLETED",
    "CANCELED">>

StatusOfState ==
  [undefined |-> "UNDEFINED", new |-> "WORKING", canceled |-> "CANCELED",
   filled |-> "COMPLETED", partially_canceled |-> "CANCELED",
   partially_filled |-> "WORKING"]

-----------------------------------------------------------------------------
(* To the exchange *)

DirectionOf == [UNDEFINED |-> "undefined", BUY |-> "buy", SELL |-> "sell"]

OffsetOf == [UNDEFINED |-> "undefined", OPEN |-> "open", CLOSE |-> "close"]

PositionSideOf ==
  [UNDEFINED |-> "undefined", OPEN |-> "long", CLOSE |-> "short"]

MarginModeOf ==
  [UNDEFINED |-> "undefined", ISOLATED |-> "isolated", CROSS |-> "cross"]

TimeInForceOf ==
  [UNDEFINED |-> "undefined", GTC |-> "gtc", IOC |-> "ioc", FOK |-> "fok"]

TypeOf(type, post_only) ==
  CASE type = "MARKET"             -> "market"
    [] type = "LIMIT" /\ post_only -> "post_only"
    [] OTHER                       -> "limit"

\* The price type of a limit order that is not post-only.
LimitPriceType ==
  [UNDEFINED |-> "limit", GTC |-> "limit", IOC |-> "ioc", FOK |-> "fok"]

\* Faulty: an immediate order rests.
PriceTypeOf_Rests(type, time_in_force, post_only) ==
  CASE type = "MARKET" -> "market"
    [] post_only       -> "post_only"
    [] OTHER           -> IF time_in_force = "FOK" THEN "fok" ELSE "limit"

PriceTypeOf(type, time_in_force, post_only) ==
  CASE type = "MARKET" -> "market"
    [] post_only       -> "post_only"
    [] OTHER           -> LimitPriceType[time_in_force]

-----------------------------------------------------------------------------
(* The create messages.  An undefined field is left out.  A request has    *)
(* side, type, time_in_force, position_effect, margin_mode, and the        *)
(* instructions post_only (PARTICIPATE_DO_NOT_INITIATE) and reduce_only    *)
(* (DO_NOT_INCREASE).                                                      *)

\* The v1 message can be written.
Encodes1(request) ==
  request.type = "LIMIT" /\ ~request.post_only
    => request.time_in_force \in DOMAIN LimitPriceType

CreateOrder1(request) ==
  [direction |-> DirectionOf[request.side],
   order_price_type |-> PriceTypeOf(request.type, request.time_in_force,
                                    request.post_only),
   offset |-> OffsetOf[request.position_effect]]

Encodes5(request) ==
  /\ request.margin_mode \in DOMAIN MarginModeOf
  /\ request.type # "MARKET" => request.time_in_force \in DOMAIN TimeInForceOf

\* REST passes the default of the API, the web socket that of the account.
CreateOrder5(request, default) ==
  [margin_mode |-> MarginModeOf[IF request.margin_mode = "UNDEFINED"
                                THEN default ELSE request.margin_mode],
   side |-> DirectionOf[request.side],
   type |-> TypeOf(request.type, request.post_only),
   reduce_only |-> request.reduce_only,
   time_in_force |-> IF request.type = "MARKET" THEN "undefined"
                     ELSE TimeInForceOf[request.time_in_force],
   position_side |-> PositionSideOf[request.position_effect]]
=============================================================================
