------------------------- MODULE OrderIntentProofs -------------------------
(***************************************************************************)
(* Theorems about what becomes of a client's order, for every set of times *)
(* in force that clients ask for and any number of updates on their way.   *)
(***************************************************************************)
EXTENDS OrderIntent, SequenceTheorems, TLAPS

(***************************************************************************)
(* The vocabulary of the invariant                                         *)
(***************************************************************************)

\* The states of an order that the exchange holds, the words for one of them,
\* the updates that report it, and how clients are told of an update.
Held == {"new", "partially_filled", "filled", "canceled", "partially_canceled"}

Words(st) == IF api = 1 THEN Numbers[st] ELSE {st}

UpdatesOf(st) == {Update(st, s) : s \in Words(st)}

Reports == UNION {UpdatesOf(st) : st \in Held}

Told(update) == IF api = 1 THEN Orders1(update) ELSE Orders5(update)

\* The progress that clients see once they have heard of a state.
Rank(st) ==
  CASE st = "none"             -> 0
    [] st = "new"              -> 1
    [] st = "partially_filled" -> 1 + 1
    [] OTHER                   -> 2 + Volume

\* How far along the update at a place of the orders channel is.
ProgressAt(i) == Progress(Told(updates[i]))

(***************************************************************************)
(* The inductive invariant.  The message is the translation of the request *)
(* or there is none, and then nothing has come back, and nothing ever does *)
(* unless the drop copy subscribes.  Both channels carry reports of        *)
(* states, the last one on the orders channel that of the present state.   *)
(* The client was told of a state, and by the orders channel when it is    *)
(* empty of the present one.  Along the orders channel progress does not   *)
(* decrease, and starts no lower than where the client is, if the client   *)
(* is there by an order.                                                   *)
(***************************************************************************)
SettingsInv ==
  /\ api \in {1, 5} /\ request \in Request
  /\ account \in {"ISOLATED", "CROSS"} /\ ws_api \in BOOLEAN

MessageInv ==
  Sent => \/ /\ api = 1 /\ Encodes1(request)
             /\ message = CreateOrder1(request)
          \/ /\ api = 5 /\ Encodes5(request)
             /\ message = CreateOrder5(request, DefaultMarginMode)

QuietInv ==
  /\ state \in Held \cup {"none"}
  /\ ~Sent => state = "none"
  /\ state = "none" \/ ~Subscribes
       => updates = <<>> /\ matches = <<>> /\ view = None

ChannelsInv ==
  /\ updates \in Seq(Reports) /\ matches \in Seq(Reports)
  /\ updates # <<>> => updates[Len(updates)] \in UpdatesOf(state)

ViewInv ==
  /\ source \in {"none", "orders", "matches"}
  /\ source = "none" <=> view = None
  /\ view # None => \E update \in Reports : view = Told(update)
  /\ source = "orders" /\ updates = <<>>
       => \E update \in UpdatesOf(state) : view = Told(update)
  /\ api = 5 => source # "matches"

OrderedInv ==
  /\ \A i, j \in 1..Len(updates) : i <= j => ProgressAt(i) <= ProgressAt(j)
  /\ \A i \in 1..Len(updates) : ProgressAt(i) <= Rank(state)
  /\ source = "orders" =>
       /\ Progress(view) <= Rank(state)
       /\ \A i \in 1..Len(updates) : Progress(view) <= ProgressAt(i)

IntentInv ==
  /\ SettingsInv /\ MessageInv /\ QuietInv
  /\ ChannelsInv /\ ViewInv /\ OrderedInv

-----------------------------------------------------------------------------
(* What messages and updates say *)

\* The words of the request in the v1 message.
LEMMA WordsOfCreate1 ==
  ASSUME IntentInv, Sent, api = 1
  PROVE  /\ message.direction = IF request.side = "BUY" THEN "buy" ELSE "sell"
         /\ message.offset = CASE request.position_effect = "OPEN"  -> "open"
                               [] request.position_effect = "CLOSE" -> "close"
                               [] OTHER -> "undefined"
         /\ message.order_price_type =
              CASE request.type = "MARKET"       -> "market"
                [] request.type = "LIMIT" /\ request.post_only -> "post_only"
                [] OTHER -> LimitPriceType[request.time_in_force]
         /\ request.type = "LIMIT" /\ ~request.post_only
              => request.time_in_force \in {"UNDEFINED", "GTC", "IOC", "FOK"}
<1>1. /\ Encodes1(request) /\ message = CreateOrder1(request)
      /\ request \in Request
  BY DEF IntentInv, MessageInv, SettingsInv
<1>2. /\ request.side \in {"BUY", "SELL"}
      /\ request.type \in {"MARKET", "LIMIT"} /\ request.post_only \in BOOLEAN
      /\ request.position_effect \in {"UNDEFINED", "OPEN", "CLOSE"}
  BY <1>1 DEF Request
<1>3. /\ message.direction = DirectionOf[request.side]
      /\ message.offset = OffsetOf[request.position_effect]
      /\ message.order_price_type =
           PriceTypeOf(request.type, request.time_in_force, request.post_only)
  BY <1>1 DEF CreateOrder1
<1>4. request.type = "LIMIT" /\ ~request.post_only
        => request.time_in_force \in {"UNDEFINED", "GTC", "IOC", "FOK"}
  BY <1>1 DEF Encodes1, LimitPriceType
<1>5. DirectionOf[request.side] = IF request.side = "BUY" THEN "buy" ELSE "sell"
  BY <1>2 DEF DirectionOf
<1>6. OffsetOf[request.position_effect] =
        CASE request.position_effect = "OPEN"  -> "open"
          [] request.position_effect = "CLOSE" -> "close"
          [] OTHER -> "undefined"
  BY <1>2 DEF OffsetOf
<1>7. PriceTypeOf(request.type, request.time_in_force, request.post_only) =
        CASE request.type = "MARKET"       -> "market"
          [] request.type = "LIMIT" /\ request.post_only -> "post_only"
          [] OTHER -> LimitPriceType[request.time_in_force]
  BY <1>2 DEF PriceTypeOf
<1> QED BY <1>3, <1>4, <1>5, <1>6, <1>7

\* The words of the request in the v5 message.
LEMMA WordsOfCreate5 ==
  ASSUME IntentInv, Sent, api = 5
  PROVE  /\ message.side = IF request.side = "BUY" THEN "buy" ELSE "sell"
         /\ message.position_side =
              CASE request.position_effect = "OPEN"  -> "long"
                [] request.position_effect = "CLOSE" -> "short"
                [] OTHER -> "undefined"
         /\ message.type = CASE request.type = "MARKET" -> "market"
                             [] request.type = "LIMIT" /\ request.post_only
                                  -> "post_only"
                             [] OTHER -> "limit"
         /\ message.reduce_only = request.reduce_only
         /\ request.type = "MARKET" => message.time_in_force = "undefined"
         /\ request.type # "MARKET"
              => message.time_in_force =
                   CASE request.time_in_force = "GTC" -> "gtc"
                     [] request.time_in_force = "IOC" -> "ioc"
                     [] request.time_in_force = "FOK" -> "fok"
                     [] OTHER -> "undefined"
         /\ request.type # "MARKET"
              => request.time_in_force \in {"UNDEFINED", "GTC", "IOC", "FOK"}
         /\ LET mode == IF request.margin_mode = "UNDEFINED"
                        THEN DefaultMarginMode ELSE request.margin_mode
            IN  /\ mode \in {"ISOLATED", "CROSS"}
                /\ message.margin_mode =
                     IF mode = "ISOLATED" THEN "isolated" ELSE "cross"
<1> DEFINE mode == IF request.margin_mode = "UNDEFINED"
                   THEN DefaultMarginMode ELSE request.margin_mode
<1>1. /\ Encodes5(request) /\ message = CreateOrder5(request, DefaultMarginMode)
      /\ request \in Request
      /\ DefaultMarginMode \in {"ISOLATED", "CROSS"}
  BY DEF IntentInv, MessageInv, SettingsInv, DefaultMarginMode, ApiMarginMode
<1>2. /\ request.side \in {"BUY", "SELL"}
      /\ request.type \in {"MARKET", "LIMIT"} /\ request.post_only \in BOOLEAN
      /\ request.position_effect \in {"UNDEFINED", "OPEN", "CLOSE"}
  BY <1>1 DEF Request
<1>3. mode \in {"ISOLATED", "CROSS"}
  BY <1>1 DEF Encodes5, MarginModeOf
<1>4. request.type # "MARKET"
        => request.time_in_force \in {"UNDEFINED", "GTC", "IOC", "FOK"}
  BY <1>1 DEF Encodes5, TimeInForceOf
<1>5. /\ message.side = DirectionOf[request.side]
      /\ message.position_side = PositionSideOf[request.position_effect]
      /\ message.type = TypeOf(request.type, request.post_only)
      /\ message.reduce_only = request.reduce_only
      /\ message.time_in_force =
           IF request.type = "MARKET" THEN "undefined"
           ELSE TimeInForceOf[request.time_in_force]
      /\ message.margin_mode = MarginModeOf[mode]
  BY <1>1 DEF CreateOrder5
<1>6. DirectionOf[request.side] = IF request.side = "BUY" THEN "buy" ELSE "sell"
  BY <1>2 DEF DirectionOf
<1>7. PositionSideOf[request.position_effect] =
        CASE request.position_effect = "OPEN"  -> "long"
          [] request.position_effect = "CLOSE" -> "short"
          [] OTHER -> "undefined"
  BY <1>2 DEF PositionSideOf
<1>8. TypeOf(request.type, request.post_only) =
        CASE request.type = "MARKET" -> "market"
          [] request.type = "LIMIT" /\ request.post_only -> "post_only"
          [] OTHER -> "limit"
  BY DEF TypeOf
<1>9. request.type # "MARKET"
        => TimeInForceOf[request.time_in_force] =
             CASE request.time_in_force = "GTC" -> "gtc"
               [] request.time_in_force = "IOC" -> "ioc"
               [] request.time_in_force = "FOK" -> "fok"
               [] OTHER -> "undefined"
  BY <1>4 DEF TimeInForceOf
<1>10. MarginModeOf[mode] = IF mode = "ISOLATED" THEN "isolated" ELSE "cross"
  BY <1>3 DEF MarginModeOf
<1> QED BY <1>3, <1>4, <1>5, <1>6, <1>7, <1>8, <1>9, <1>10

\* Where a report of a state leaves the client: no further than the state, and
\* exactly there, but for v1's first numbers of a new order.
LEMMA ReportsProgress ==
  ASSUME api \in {1, 5}, NEW st \in Held, NEW update \in UpdatesOf(st)
  PROVE  /\ Progress(Told(update)) \in 0..4
         /\ Progress(Told(update)) <= Rank(st)
         /\ st # "new" => Progress(Told(update)) = Rank(st)
<1> DEFINE status(s) == IF api = 1 THEN StatusOfNumber[s] ELSE StatusOfState[s]
<1>1. PICK s \in Words(st) : update = Update(st, s)
  BY DEF UpdatesOf
<1>2. /\ Told(update).order_status = status(s)
      /\ Told(update).traded_quantity = Traded[st]
  BY <1>1 DEF Told, Orders1, Orders5, Update
<1>3. /\ st = "new" => status(s) \in {"ACCEPTED", "WORKING"}
      /\ st = "partially_filled" => status(s) = "WORKING"
      /\ st \in {"filled", "canceled", "partially_canceled"}
           => status(s) \in {"COMPLETED", "CANCELED"}
  BY DEF Words, Numbers, StatusOfNumber, StatusOfState, Held
<1>4. /\ st = "new" => Traded[st] = 0
      /\ st = "partially_filled" => Traded[st] = 1
  BY DEF Traded
<1> HIDE DEF status
<1>5. CASE st = "new"
  BY <1>2, <1>3, <1>4, <1>5 DEF Progress, Rank
<1>6. CASE st = "partially_filled"
  BY <1>2, <1>3, <1>4, <1>6 DEF Progress, Rank
<1>7. CASE st \in {"filled", "canceled", "partially_canceled"}
  BY <1>2, <1>3, <1>7 DEF Progress, Rank, Volume
<1> QED BY <1>5, <1>6, <1>7 DEF Held

\* No state that may follow another one is reported as less progress.
LEMMA ProgressFollows ==
  ASSUME api \in {1, 5}, NEW st \in Held \cup {"none"},
         NEW next \in After[st], NEW update \in UpdatesOf(next)
  PROVE  next \in Held /\ Rank(st) <= Progress(Told(update))
<1>1. /\ next \in Held
      /\ next = "new" => st = "none"
      /\ next # "new" => st \in {"new", "partially_filled"}
      /\ next = "partially_filled" => st \in {"new", "partially_filled"}
  BY DEF After, Held
<1>2. /\ Progress(Told(update)) \in 0..4
      /\ next # "new" => Progress(Told(update)) = Rank(next)
  BY <1>1, ReportsProgress
<1>3. CASE next = "new"
  BY <1>1, <1>2, <1>3 DEF Rank
<1>4. CASE next # "new"
  BY <1>1, <1>2, <1>4 DEF Rank, Volume, Held
<1> QED BY <1>1, <1>3, <1>4

\* Every word of the message is understood as what it stands for.
LEMMA MeantIsUnderstood == IntentInv => UnderstoodAsMeant
<1> SUFFICES ASSUME IntentInv, Sent PROVE UnderstoodAsMeant
  BY DEF UnderstoodAsMeant
<1>1. /\ request.side \in {"BUY", "SELL"}
      /\ request.type \in {"MARKET", "LIMIT"} /\ request.post_only \in BOOLEAN
      /\ request.position_effect \in {"UNDEFINED", "OPEN", "CLOSE"}
      /\ api \in {1, 5} /\ account \in {"ISOLATED", "CROSS"}
      /\ ws_api \in BOOLEAN
  BY DEF IntentInv, SettingsInv, Request
<1>2. CASE api = 1
  <2>1. Understood = Understood1
    BY <1>2 DEF Understood
  <2>2. /\ Understood1.side = Meant.side
        /\ Understood1.position_effect = Meant.position_effect
    BY <1>1, <1>2, WordsOfCreate1 DEF Understood1, Meant
  <2>3. request.type = "LIMIT" /\ ~request.post_only
          => LimitPriceType[request.time_in_force] =
               CASE request.time_in_force = "IOC" -> "ioc"
                 [] request.time_in_force = "FOK" -> "fok"
                 [] OTHER -> "limit"
    BY <1>2, WordsOfCreate1 DEF LimitPriceType
  <2>4. /\ Understood1.limit = Meant.limit
        /\ Understood1.post_only = Meant.post_only
        /\ ~Meant.post_only => Understood1.time_in_force = Meant.time_in_force
    BY <1>1, <1>2, <2>3, WordsOfCreate1 DEF Understood1, Meant
  <2> QED BY <1>2, <2>1, <2>2, <2>4 DEF UnderstoodAsMeant
<1>3. CASE api = 5
  <2>1. Understood = Understood5
    BY <1>3 DEF Understood
  <2>2. /\ Understood5.side = Meant.side
        /\ Understood5.reduce_only = Meant.reduce_only
        /\ request.side = "BUY"
             => Understood5.position_effect = Meant.position_effect
    BY <1>1, <1>3, WordsOfCreate5 DEF Understood5, Meant
  <2>3. /\ Understood5.limit = Meant.limit
        /\ Understood5.post_only = Meant.post_only
    BY <1>1, <1>3, WordsOfCreate5 DEF Understood5, Meant
  <2>4. Understood5.time_in_force = Meant.time_in_force
    <3>1. CASE request.type = "MARKET"
      BY <1>3, <3>1, WordsOfCreate5 DEF Understood5, Meant
    <3>2. CASE request.type = "LIMIT"
      BY <1>3, <3>2, WordsOfCreate5 DEF Understood5, Meant
    <3> QED BY <1>1, <3>1, <3>2
  <2>5. ~MarginedByApi => Understood5.margin_mode = Meant.margin_mode
    <3> DEFINE mode == IF request.margin_mode = "UNDEFINED"
                       THEN DefaultMarginMode ELSE request.margin_mode
    <3>1. mode \in {"ISOLATED", "CROSS"} /\ Understood5.margin_mode = mode
      BY <1>3, WordsOfCreate5 DEF Understood5
    <3>2. ~MarginedByApi => mode = Meant.margin_mode
      BY <1>1 DEF MarginedByApi, Meant, DefaultMarginMode
    <3> QED BY <3>1, <3>2
  <2> QED BY <1>3, <2>1, <2>2, <2>3, <2>4, <2>5 DEF UnderstoodAsMeant
<1> QED BY <1>1, <1>2, <1>3

\* A report of a state tells the client the order as the exchange understood
\* it, with the quantities of the state, and as done if the state is.
LEMMA ReportsAreSeen ==
  ASSUME IntentInv, Sent, NEW st \in Held, NEW update \in UpdatesOf(st)
  PROVE  LET seen == Told(update) IN
         /\ seen.side = Understood.side
         /\ seen.order_type = IF Understood.limit THEN "LIMIT" ELSE "MARKET"
         /\ seen.position_effect = Understood.position_effect
         /\ seen.traded_quantity = Traded[st]
         /\ seen.remaining_quantity = Volume - Traded[st]
         /\ seen.order_status = "COMPLETED" <=> st = "filled"
         /\ seen.order_status = "CANCELED"
              <=> st \in {"canceled", "partially_canceled"}
<1>1. PICK s \in Words(st) : update = Update(st, s)
  BY DEF UpdatesOf
<1>2. /\ request.side \in {"BUY", "SELL"}
      /\ request.type \in {"MARKET", "LIMIT"} /\ request.post_only \in BOOLEAN
      /\ request.position_effect \in {"UNDEFINED", "OPEN", "CLOSE"}
      /\ api \in {1, 5}
  BY DEF IntentInv, SettingsInv, Request
<1>3. CASE api = 1
  <2>1. /\ Told(update) = Orders1(update) /\ Understood = Understood1
        /\ s \in Numbers[st]
    BY <1>3 DEF Told, Understood, Words
  <2>2. /\ update.direction = message.direction
        /\ update.offset = Both(message.offset)
        /\ update.order_price_type = message.order_price_type
        /\ update.status = s
        /\ update.volume = Volume /\ update.trade_volume = Traded[st]
    BY <1>1, <1>3 DEF Update
  <2>3. SideOfDirection[message.direction] = Understood1.side
    BY <1>2, <1>3, WordsOfCreate1 DEF SideOfDirection, Understood1
  <2>4. TypeOfPriceType[message.order_price_type] =
          IF Understood1.limit THEN "LIMIT" ELSE "MARKET"
    <3>1. message.order_price_type
            \in {"market", "limit", "post_only", "ioc", "fok"}
      BY <1>2, <1>3, WordsOfCreate1 DEF LimitPriceType
    <3>2. Understood1.limit <=> message.order_price_type # "market"
      BY DEF Understood1
    <3> QED BY <3>1, <3>2 DEF TypeOfPriceType
  <2>5. EffectOfOffset[Both(message.offset)] = Understood1.position_effect
    BY <1>2, <1>3, WordsOfCreate1 DEF EffectOfOffset, Both, Understood1
  <2>6. /\ StatusOfNumber[s] = "COMPLETED" <=> st = "filled"
        /\ StatusOfNumber[s] = "CANCELED"
             <=> st \in {"canceled", "partially_canceled"}
    BY <2>1 DEF StatusOfNumber, Numbers, Held
  <2> QED BY <2>1, <2>2, <2>3, <2>4, <2>5, <2>6 DEF Orders1, Remaining
<1>4. CASE api = 5
  <2>1. /\ Told(update) = Orders5(update) /\ Understood = Understood5
        /\ s = st
    BY <1>4 DEF Told, Understood, Words
  <2>2. /\ update.side = message.side
        /\ update.position_side = Both(message.position_side)
        /\ update.type = message.type
        /\ update.state = st
        /\ update.volume = Volume /\ update.trade_volume = Traded[st]
    BY <1>1, <1>4, <2>1 DEF Update
  <2>3. SideOf[message.side] = Understood5.side
    BY <1>2, <1>4, WordsOfCreate5 DEF SideOf, Understood5
  <2>4. TypeOfType[message.type] =
          IF Understood5.limit THEN "LIMIT" ELSE "MARKET"
    <3>1. /\ message.type \in {"market", "limit", "post_only"}
          /\ Understood5.limit <=> message.type # "market"
      BY <1>2, <1>4, WordsOfCreate5 DEF Understood5
    <3> QED BY <3>1 DEF TypeOfType
  <2>5. EffectOf(Both(message.position_side), message.side)
          = Understood5.position_effect
    <3>1. /\ message.side \in {"buy", "sell"}
          /\ message.position_side \in {"long", "short", "undefined"}
      BY <1>2, <1>4, WordsOfCreate5
    <3> QED BY <3>1 DEF EffectOf, Both, Understood5
  <2>6. /\ StatusOfState[st] = "COMPLETED" <=> st = "filled"
        /\ StatusOfState[st] = "CANCELED"
             <=> st \in {"canceled", "partially_canceled"}
    BY DEF StatusOfState, Held
  <2> QED BY <2>1, <2>2, <2>3, <2>4, <2>5, <2>6 DEF Orders5, Remaining
<1> QED BY <1>2, <1>3, <1>4

\* With both channels empty, the client was last told of a state, and by the
\* orders channel of the present one.
LEMMA HeldIsSeen == IntentInv => SeenAsHeld
<1> SUFFICES ASSUME IntentInv, updates = <<>>, matches = <<>>, view # None
             PROVE  SeenAsHeld
  BY DEF SeenAsHeld
<1>1. Sent /\ state \in Held
  BY DEF IntentInv, QuietInv
<1>2. PICK st \in Held : \E update \in UpdatesOf(st) : view = Told(update)
  BY DEF IntentInv, ViewInv, Reports
<1>3. PICK update \in UpdatesOf(st) : view = Told(update)
  BY <1>2
<1>4. /\ view.side = Understood.side
      /\ view.order_type = IF Understood.limit THEN "LIMIT" ELSE "MARKET"
      /\ view.position_effect = Understood.position_effect
      /\ view.remaining_quantity = Volume - view.traded_quantity
  BY <1>1, <1>3, ReportsAreSeen
<1>5. ASSUME source = "orders"
      PROVE  /\ view.traded_quantity = Traded[state]
             /\ view.order_status = "COMPLETED" <=> state = "filled"
             /\ view.order_status = "CANCELED"
                  <=> state \in {"canceled", "partially_canceled"}
  <2>1. PICK last \in UpdatesOf(state) : view = Told(last)
    BY <1>5 DEF IntentInv, ViewInv
  <2> QED BY <1>1, <2>1, ReportsAreSeen
<1> QED BY <1>4, <1>5 DEF SeenAsHeld

-----------------------------------------------------------------------------
(* The steps *)

LEMMA InitEstablishesIntentInv == Init => IntentInv
<1> SUFFICES ASSUME Init PROVE IntentInv
  OBVIOUS
<1>1. ~Sent
  BY DEF Init, Sent
<1>2. SettingsInv /\ MessageInv /\ QuietInv /\ ViewInv
  BY <1>1 DEF Init, SettingsInv, MessageInv, QuietInv, ViewInv, Held
<1>3. ChannelsInv /\ OrderedInv
  BY DEF Init, ChannelsInv, OrderedInv
<1> QED BY <1>2, <1>3 DEF IntentInv

\* Before a message is sent, nothing has come back: whatever is sent, the
\* channels and the client know nothing that it could contradict.
LEMMA SendingKeepsIntentInv ==
  ASSUME IntentInv, message = None,
         UNCHANGED <<settings, exchangeVars, toldVars>>, MessageInv'
  PROVE  IntentInv'
<1>1. ~Sent
  BY DEF Sent
<1>2. /\ state = "none" /\ updates = <<>> /\ matches = <<>> /\ view = None
      /\ source = "none"
  BY <1>1 DEF IntentInv, QuietInv, ViewInv
<1>3. SettingsInv' /\ QuietInv'
  BY <1>2 DEF IntentInv, SettingsInv, QuietInv, Subscribes, settings,
              exchangeVars, toldVars
<1>4. ChannelsInv' /\ ViewInv' /\ OrderedInv'
  BY <1>2 DEF ChannelsInv, ViewInv, OrderedInv, exchangeVars, toldVars
<1> QED BY <1>3, <1>4 DEF IntentInv

LEMMA CreateKeepsIntentInv ==
  ASSUME IntentInv, CreateV1 \/ CreateV5 \/ Unsupported
  PROVE  IntentInv'
<1>1. MessageInv'
  <2>1. CASE CreateV1
    BY <2>1 DEF CreateV1, MessageInv, settings
  <2>2. CASE CreateV5
    BY <2>2 DEF CreateV5, MessageInv, settings, DefaultMarginMode
  <2>3. CASE Unsupported
    BY <2>3 DEF Unsupported, MessageInv, Sent
  <2> QED BY <2>1, <2>2, <2>3
<1> QED BY <1>1, SendingKeepsIntentInv DEF CreateV1, CreateV5, Unsupported

\* While the settings and the message stay, so do the words of the exchange.
LEMMA WordsStay ==
  ASSUME UNCHANGED <<settings, message>>
  PROVE  /\ \A st : UpdatesOf(st)' = UpdatesOf(st)
         /\ Reports' = Reports
         /\ \A update : Told(update)' = Told(update)
         /\ Sent' = Sent /\ Subscribes' = Subscribes
         /\ SettingsInv => SettingsInv'
         /\ MessageInv => MessageInv'
<1>1. /\ api' = api /\ account' = account /\ request' = request
      /\ ws_api' = ws_api
  BY DEF settings
<1>2. \A st : UpdatesOf(st)' = UpdatesOf(st)
  BY <1>1 DEF UpdatesOf, Words, Update
<1>3. \A update : Told(update)' = Told(update)
  BY <1>1 DEF Told, Orders1, Orders5, Remaining
<1>4. SettingsInv => SettingsInv'
  BY <1>1 DEF SettingsInv
<1>5. Sent' = Sent /\ Subscribes' = Subscribes
  BY <1>1 DEF Sent, Subscribes
<1>6. MessageInv => MessageInv'
  BY <1>1, <1>5 DEF MessageInv, DefaultMarginMode
<1> QED BY <1>2, <1>3, <1>4, <1>5, <1>6 DEF Reports

\* The end of the process changes nothing else.
LEMMA StutteringKeepsIntentInv ==
  IntentInv /\ (DropCopyEnds \/ UNCHANGED vars) => IntentInv'
<1> SUFFICES ASSUME IntentInv, DropCopyEnds \/ UNCHANGED vars PROVE IntentInv'
  OBVIOUS
<1>1. UNCHANGED <<settings, message, state, updates, matches, view, source>>
  BY DEF vars, DropCopyEnds, exchangeVars, toldVars
<1>2. SettingsInv' /\ MessageInv' /\ QuietInv'
  BY <1>1, WordsStay DEF IntentInv, QuietInv
<1>3. ChannelsInv'
  BY <1>1, WordsStay DEF IntentInv, ChannelsInv
<1>4. ViewInv'
  BY <1>1, WordsStay DEF IntentInv, ViewInv, settings
<1>5. OrderedInv'
  BY <1>1, WordsStay DEF IntentInv, OrderedInv, ProgressAt
<1> QED BY <1>2, <1>3, <1>4, <1>5 DEF IntentInv

\* What is told is an order.
LEMMA ToldIsAnOrder == ASSUME NEW update PROVE Told(update) # None
<1>1. DOMAIN None = {"is"}
  BY DEF None
<1>2. "side" \in DOMAIN Told(update)
  BY DEF Told, Orders1, Orders5
<1> QED BY <1>1, <1>2

\* What both channels carry are reports of states, each with its progress.
LEMMA ChannelsCarryReports ==
  ASSUME IntentInv
  PROVE  /\ \A i \in 1..Len(updates) :
              updates[i] \in Reports /\ ProgressAt(i) \in 0..4
         /\ \A update \in Reports : Progress(Told(update)) \in 0..4
         /\ matches # <<>> => matches[1] \in Reports
<1>1. updates \in Seq(Reports) /\ matches \in Seq(Reports) /\ api \in {1, 5}
  BY DEF IntentInv, ChannelsInv, SettingsInv
<1>2. \A i \in 1..Len(updates) : updates[i] \in Reports
  BY <1>1
<1>3. matches # <<>> => matches[1] \in Reports
  BY <1>1
<1>4. \A update \in Reports : Progress(Told(update)) \in 0..4
  BY <1>1, ReportsProgress DEF Reports
<1> QED BY <1>2, <1>3, <1>4 DEF ProgressAt

\* The client hears of the first order on its way: it is where that one is,
\* which is where the exchange is if it was the last one.
LEMMA OrderUpdatedKeepsIntentInv ==
  ASSUME IntentInv, OrderUpdated
  PROVE  IntentInv'
<1>1. /\ updates # <<>> /\ updates' = Tail(updates)
      /\ UNCHANGED <<settings, message, state, matches>>
      /\ view' = Told(updates[1]) /\ source' = "orders"
  BY DEF OrderUpdated, Tell, Told
<1>0. Subscribes
  BY <1>1 DEF IntentInv, QuietInv
<1>2. updates \in Seq(Reports) /\ Len(updates) \in Nat \ {0}
  BY <1>1, EmptySeq DEF IntentInv, ChannelsInv
<1>3. /\ updates' \in Seq(Reports) /\ Len(updates') = Len(updates) - 1
      /\ \A i \in 1..Len(updates') :
           updates'[i] = updates[i + 1] /\ i + 1 \in 1..Len(updates)
  BY <1>1, <1>2
<1>4. SettingsInv' /\ MessageInv'
  BY <1>1, WordsStay DEF IntentInv
<1>5. QuietInv'
  BY <1>0, <1>1, WordsStay DEF IntentInv, QuietInv
<1>6. ChannelsInv'
  <2>1. ASSUME updates' # <<>> PROVE updates'[Len(updates')] = updates[Len(updates)]
    BY <1>1, <1>2, <2>1, <1>3
  <2> QED BY <1>1, <1>3, <2>1, WordsStay DEF IntentInv, ChannelsInv
<1>7. ViewInv'
  <2>1. PICK first \in Reports : first = updates[1]
    BY <1>2
  <2>2. view' # None /\ view' = Told(first)
    BY <1>1, <2>1, ToldIsAnOrder
  <2>3. updates' = <<>> => first \in UpdatesOf(state)
    <3>1. updates' = <<>> => Len(updates) = 1
      BY <1>2, <1>3
    <3> QED BY <1>1, <2>1, <3>1 DEF IntentInv, ChannelsInv
  <2> QED BY <1>1, <2>1, <2>2, <2>3, WordsStay DEF ViewInv, None
<1>8. OrderedInv'
  <2>1. \A i \in 1..Len(updates') : ProgressAt(i)' = ProgressAt(i + 1)
    BY <1>1, <1>3, WordsStay DEF ProgressAt
  <2>2. Progress(view)' = ProgressAt(1)
    BY <1>1 DEF Progress, ProgressAt, Volume
  <2>3. 1 \in 1..Len(updates)
    BY <1>2
  <2> QED BY <1>1, <1>2, <1>3, <2>1, <2>2, <2>3 DEF IntentInv, OrderedInv
<1> QED BY <1>4, <1>5, <1>6, <1>7, <1>8 DEF IntentInv

\* Matches reach clients on v1 only, and say nothing of the orders channel.
LEMMA OrderMatchedKeepsIntentInv ==
  ASSUME IntentInv, OrderMatched
  PROVE  IntentInv'
<1>1. /\ matches # <<>> /\ matches' = Tail(matches)
      /\ UNCHANGED <<settings, message, state, updates>>
      /\ IF api = 1
           THEN view' = Told(matches[1]) /\ source' = "matches"
           ELSE view' = view /\ source' = source
  BY DEF OrderMatched, Tell, Told, toldVars
<1>0. Subscribes
  BY <1>1 DEF IntentInv, QuietInv
<1>2. matches[1] \in Reports /\ matches' \in Seq(Reports)
  BY <1>1, ChannelsCarryReports DEF IntentInv, ChannelsInv
<1>3. SettingsInv' /\ MessageInv'
  BY <1>1, WordsStay DEF IntentInv
<1>4. QuietInv'
  BY <1>0, <1>1, WordsStay DEF IntentInv, QuietInv
<1>5. ChannelsInv'
  BY <1>1, <1>2, WordsStay DEF IntentInv, ChannelsInv
<1>6. ViewInv'
  <2>1. CASE api = 1
    <3>1. PICK match \in Reports : match = matches[1]
      BY <1>2
    <3>2. view' # None /\ view' = Told(match)
      BY <1>1, <2>1, <3>1, ToldIsAnOrder
    <3> QED BY <1>1, <2>1, <3>1, <3>2, WordsStay DEF ViewInv, None, settings
  <2>2. CASE api # 1
    BY <1>1, <2>2, WordsStay DEF IntentInv, ViewInv, settings
  <2> QED BY <2>1, <2>2
<1>7. OrderedInv'
  <2>1. \A i : ProgressAt(i)' = ProgressAt(i)
    BY <1>1, WordsStay DEF ProgressAt
  <2> QED BY <1>1, <2>1 DEF IntentInv, OrderedInv
<1> QED BY <1>3, <1>4, <1>5, <1>6, <1>7 DEF IntentInv

\* The order moves on: its report is the last one, and no less progress than
\* anything that was reported before.
LEMMA AdvanceKeepsIntentInv ==
  ASSUME IntentInv, Advance, Subscribes
  PROVE  IntentInv'
<1>1. PICK next \in After[state] :
        /\ state' = next
        /\ \E s \in Words(next) :
             /\ updates' = Append(updates, Update(next, s))
             /\ matches' = IF next \in {"partially_filled", "filled"}
                             THEN Append(matches, Update(next, s)) ELSE matches
  BY DEF Advance, Words
<1>2. PICK s \in Words(next) :
        /\ updates' = Append(updates, Update(next, s))
        /\ matches' = IF next \in {"partially_filled", "filled"}
                        THEN Append(matches, Update(next, s)) ELSE matches
  BY <1>1
<1>3. PICK report \in UpdatesOf(next) : report = Update(next, s)
  BY DEF UpdatesOf
<1>4. Sent /\ UNCHANGED <<settings, message, view, source>>
  BY DEF Advance, toldVars
<1>5. /\ api \in {1, 5} /\ state \in Held \cup {"none"}
      /\ updates \in Seq(Reports) /\ matches \in Seq(Reports)
  BY DEF IntentInv, SettingsInv, QuietInv, ChannelsInv
<1>6. /\ next \in Held
      /\ Rank(state) <= Progress(Told(report))
      /\ Progress(Told(report)) <= Rank(next)
      /\ Progress(Told(report)) \in 0..4
  BY <1>1, <1>5, ProgressFollows, ReportsProgress
<1>7. report \in Reports
  BY <1>6 DEF Reports
<1>8. /\ updates' \in Seq(Reports) /\ matches' \in Seq(Reports)
      /\ Len(updates) \in Nat /\ Len(updates') = Len(updates) + 1
      /\ \A i \in 1..Len(updates) : updates'[i] = updates[i]
      /\ updates'[Len(updates')] = report /\ updates' # <<>>
  BY <1>2, <1>3, <1>5, <1>7
<1>9. SettingsInv' /\ MessageInv'
  BY <1>4, WordsStay DEF IntentInv
<1>10. QuietInv'
  <2>1. next # "none"
    BY <1>6 DEF Held
  <2> QED BY <1>1, <1>4, <1>6, <2>1, WordsStay DEF QuietInv
<1>11. ChannelsInv'
  BY <1>1, <1>3, <1>4, <1>8, WordsStay DEF ChannelsInv
<1>12. ViewInv'
  BY <1>4, <1>8, WordsStay DEF IntentInv, ViewInv, settings
<1>13. OrderedInv'
  <2>1. PICK n \in Nat : n = Len(updates) /\ n + 1 = Len(updates')
    BY <1>8
  <2>2. \A i \in 1..n : ProgressAt(i)' = ProgressAt(i)
    BY <1>4, <1>8, <2>1, WordsStay DEF ProgressAt
  <2>3. ProgressAt(n + 1)' = Progress(Told(report))
    BY <1>4, <1>8, <2>1, WordsStay DEF ProgressAt
  <2>4. Rank(state) \in 0..4 /\ Rank(state)' = Rank(next) /\ Rank(next) \in 0..4
    BY <1>1, <1>5, <1>6 DEF Rank, Volume
  <2>5. /\ \A i \in 1..n : ProgressAt(i) \in 0..4 /\ ProgressAt(i) <= Rank(state)
        /\ \A i, j \in 1..n : i <= j => ProgressAt(i) <= ProgressAt(j)
    BY <2>1, ChannelsCarryReports DEF IntentInv, OrderedInv
  <2>6. source = "orders" =>
          /\ Progress(view) \in 0..4 /\ Progress(view) <= Rank(state)
          /\ \A i \in 1..n : Progress(view) <= ProgressAt(i)
    BY <1>4, <2>1, ChannelsCarryReports DEF IntentInv, OrderedInv, ViewInv
  <2>7. \A i, j \in 1..n + 1 : i <= j => ProgressAt(i)' <= ProgressAt(j)'
    BY <1>6, <2>2, <2>3, <2>4, <2>5
  <2>8. \A i \in 1..n + 1 : ProgressAt(i)' <= Rank(next)
    BY <1>6, <2>2, <2>3, <2>4, <2>5
  <2>9. source = "orders" =>
          /\ Progress(view) <= Rank(next)
          /\ \A i \in 1..n + 1 : Progress(view) <= ProgressAt(i)'
    BY <1>6, <2>2, <2>3, <2>4, <2>5, <2>6
  <2> QED BY <1>4, <2>1, <2>4, <2>7, <2>8, <2>9 DEF OrderedInv
<1> QED BY <1>9, <1>10, <1>11, <1>12, <1>13 DEF IntentInv

\* Nobody hears of an order that no drop copy has subscribed to.
LEMMA UnheardAdvanceKeepsIntentInv ==
  ASSUME IntentInv, Advance, ~Subscribes
  PROVE  IntentInv'
<1>1. PICK next \in After[state] : state' = next
  BY DEF Advance
<1>2. /\ Sent
      /\ UNCHANGED <<settings, message, updates, matches, view, source>>
  BY DEF Advance, toldVars
<1>3. /\ updates = <<>> /\ matches = <<>> /\ view = None /\ source = "none"
      /\ api \in {1, 5} /\ state \in Held \cup {"none"}
  BY DEF IntentInv, QuietInv, ViewInv, SettingsInv
<1>4. next \in Held
  BY <1>1, <1>3 DEF After, Held
<1>5. SettingsInv' /\ MessageInv'
  BY <1>2, WordsStay DEF IntentInv
<1>6. QuietInv'
  BY <1>1, <1>2, <1>3, <1>4, WordsStay DEF QuietInv, Held
<1>7. ChannelsInv' /\ ViewInv' /\ OrderedInv'
  BY <1>2, <1>3, WordsStay DEF ChannelsInv, ViewInv, OrderedInv, IntentInv
<1> QED BY <1>5, <1>6, <1>7 DEF IntentInv

\* IntentInv is inductive.
THEOREM IntentInvariance == Spec => []IntentInv
<1>1. IntentInv /\ [Next]_vars => IntentInv'
  BY CreateKeepsIntentInv, OrderUpdatedKeepsIntentInv,
     OrderMatchedKeepsIntentInv, AdvanceKeepsIntentInv,
     UnheardAdvanceKeepsIntentInv, StutteringKeepsIntentInv
     DEF Next
<1> QED BY <1>1, InitEstablishesIntentInv, PTL DEF Spec

-----------------------------------------------------------------------------
(* The properties *)

\* UnderstoodAsMeant: whatever a client asks for, on either API, by either
\* connection and for either kind of account, is what the exchange understands,
\* but for what the API has no words for and for isolated v5 accounts over REST.
THEOREM OrdersAreUnderstood == Spec => []UnderstoodAsMeant
  BY IntentInvariance, MeantIsUnderstood, PTL

\* SeenAsHeld: with nothing on its way, the client sees its order as the
\* exchange holds it, however many updates there were and whichever of the two
\* channels was ahead.
THEOREM OrdersAreSeen == Spec => []SeenAsHeld
  BY IntentInvariance, HeldIsSeen, PTL

\* NeverGoesBack: what a client is told of its order never goes back, but
\* around a match on v1.
THEOREM ProgressIsKept == Spec => NeverGoesBack
<1> DEFINE Forward == view # None /\ Progress(view') < Progress(view)
                        => api = 1 /\ "matches" \in {source, source'}
<1>1. IntentInv /\ [Next]_vars => [Forward]_vars
  <2> SUFFICES ASSUME IntentInv, Next PROVE Forward
    OBVIOUS
  <2>1. \A update \in Reports : Progress(Told(update)) \in 0..4
    BY ChannelsCarryReports
  <2>2. view # None => Progress(view) \in 0..4
    BY <2>1 DEF IntentInv, ViewInv
  <2>3. CASE view' = view
    BY <2>2, <2>3 DEF Progress, Volume
  <2>4. CASE OrderUpdated
    <3>1. /\ updates # <<>> /\ view' = Told(updates[1]) /\ api' = api
          /\ updates \in Seq(Reports) /\ Len(updates) \in Nat \ {0}
      BY <2>4, EmptySeq
         DEF OrderUpdated, Tell, Told, settings, IntentInv, ChannelsInv
    <3>2. Progress(view') = ProgressAt(1) /\ ProgressAt(1) \in 0..4
      BY <2>1, <3>1 DEF ProgressAt
    <3>3. source = "orders" => Progress(view) <= ProgressAt(1)
      BY <3>1 DEF IntentInv, OrderedInv
    <3>4. view # None /\ source # "orders" => source = "matches" /\ api = 1
      BY DEF IntentInv, ViewInv, SettingsInv
    <3> QED BY <2>2, <3>2, <3>3, <3>4
  <2>5. CASE OrderMatched
    BY <2>3, <2>5 DEF OrderMatched, Tell, toldVars
  <2>6. CASE CreateV1 \/ CreateV5 \/ DropCopyEnds \/ Unsupported \/ Advance
    BY <2>3, <2>6 DEF CreateV1, CreateV5, DropCopyEnds, Unsupported, Advance,
                      toldVars
  <2> QED BY <2>4, <2>5, <2>6 DEF Next
<1> QED BY <1>1, IntentInvariance, PTL DEF Spec, NeverGoesBack
=============================================================================
