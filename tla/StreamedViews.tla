---------------------------- MODULE StreamedViews ----------------------------
(***************************************************************************)
(* What clients see of what the exchange streams: market data              *)
(* (gateway/market_data.cpp, gateway/web_socket.cpp), funds and positions  *)
(* (gateway/drop_copy_5.cpp, gateway/drop_copy_1.cpp).  A behaviour        *)
(* follows one feed, a topic of a socket.  The exchange pushes snapshots   *)
(* and changes in order, until the connection is lost and everything       *)
(* starts anew, beside other messages of the same socket.                  *)
(*                                                                         *)
(* External: the exchange, and the framework's view, in which an update    *)
(* stands for what it mentions and a book snapshot for the whole book.     *)
(***************************************************************************)
EXTENDS Integers, MessageDispatch, SequencesExt

CONSTANTS
  Symbols,
  Values,  \* what a price level, a balance or a position may be
  MaxWire  \* bound: nothing is added to this many messages on the wire

ASSUME SymbolsAssumption == IsFiniteSet(Symbols)
ASSUME ValuesAssumption == Values \subseteq Nat /\ 0 \in Values

VARIABLES
  feed,       \* [socket, topic], chosen at the start
  up,         \* the connection
  asked,      \* symbols whose subscription is not answered yet
  streamed,   \* symbols the exchange streams to us
  held,       \* what the exchange has: symbol -> part -> value
  wire,       \* messages on their way
  buffer,     \* shared_.bids and asks, or shared_.trades
  view,       \* what clients see
  fatal,      \* the process ended by log::fatal
  \* History, read by the properties only:
  heard,      \* <<symbol, part>> we were sent, this connection
  spoiled,    \* symbols whose book refused an update since its snapshot
  lapsed      \* <<symbol, direction>> of v5 positions closed unheard

vars == <<feed, up, asked, streamed, held, wire, buffer, view, fatal, heard,
          spoiled, lapsed>>

-----------------------------------------------------------------------------
\* NaN: says nothing about a quantity.
NaN == -1

Topics1 == {"accounts", "positions", "accounts_cross", "positions_cross"}

Feeds ==
       [socket : {"MarketData"}, topic : {"bbo", "depth", "trade", "detail"}]
  \cup [socket : {"WebSocket"}, topic : {"index"}]
  \cup [socket : {"DropCopy5"}, topic : {"account", "positions"}]
  \cup [socket : {"DropCopy1"}, topic : Topics1]
  \cup [socket : {"OrderEntryWS5", "OrderEntryWS1"}, topic : {"none"}]

PositionsOf5 == [socket |-> "DropCopy5", topic |-> "positions"]

Public == feed.socket \in {"MarketData", "WebSocket"}

\* What there is to know of a symbol.
Parts ==
  CASE feed.topic \in {"bbo", "depth"} -> {"bids", "asks"}
    [] feed.topic \in {"trade", "positions", "positions_cross"} ->
         {"BUY", "SELL"}
    [] feed.topic = "detail" -> {"open", "close"}
    [] feed.topic = "none" -> {}
    [] OTHER -> {"value"}

Nothing == [s \in Symbols |-> [p \in Parts |-> 0]]

\* The fields by which a message of the feed is dispatched.  The private
\* sockets of v1 add the contract to the topic of an update.
Written(s, event) ==
  IF Public
    THEN Frame(FALSE, "none", FALSE, <<"market", s, feed.topic>>)
    ELSE <<Field("op", <<"notify">>),
           Field("topic", IF event = "init" \/ feed.socket = "DropCopy5"
                            THEN <<feed.topic>> ELSE <<feed.topic, s>>)>>

\* A message, and the values it lists.
Message(s, event, items) ==
  [fields |-> Written(s, event), event |-> event, items |-> items]

\* Other messages a socket may be sent, having subscribed as it does.
Chatter ==
  LET OpsAre(words) == {<<Field("op", <<w>>)>> : w \in words}
      Topical(op, topics) == {<<Field("op", <<op>>), Field("topic", t)>> : t \in topics}
      s == CHOOSE x \in Symbols : TRUE
      Control == {Frame(TRUE, "none", FALSE, <<>>), Frame(FALSE, "error", FALSE, <<>>),
                  Frame(FALSE, "ok", TRUE, <<>>)}
      Channels(topics) == {Frame(FALSE, "none", FALSE, <<"market", s>> \o t) : t \in topics}
      Session == OpsAre({"close", "error", "ping", "auth"})
      Own1 == Topics2 \ {"funding_rate"}
  IN CASE feed.socket = "MarketData" ->
            Control \cup Channels({<<"bbo">>, <<"depth", "size_150", "high_freq">>,
                                   <<"trade", "detail">>, <<"detail">>})
       [] feed.socket = "WebSocket" ->
            Control \cup Channels({<<"basis", "1min", "open">>,
                                   <<"estimated_rate", "1min">>, <<"index", "1min">>})
       [] feed.socket = "DropCopy5" ->
            Session \cup Topical("sub", {<<t>> : t \in Topics5})
                    \cup Topical("notify", {<<t>> : t \in Topics5})
       [] feed.socket = "DropCopy1" ->
            Session \cup Topical("sub", {<<t, "*">> : t \in Own1})
                    \cup Topical("notify", {<<t, s>> : t \in Own1})
       [] feed.socket = "OrderEntryWS5" ->
            Session \cup {<<Field("cid", <<"id">>)>>}
       [] feed.socket = "OrderEntryWS1" ->
            Session \cup {<<Field("status", <<"ok">>)>>, <<Field("status", <<"error">>)>>}

Init ==
  /\ feed \in Feeds
  /\ up = FALSE /\ asked = {} /\ streamed = {}
  /\ held = Nothing /\ view = Nothing
  /\ wire = <<>> /\ buffer = <<>>
  /\ fatal = FALSE
  /\ heard = {} /\ spoiled = {} /\ lapsed = {}

-----------------------------------------------------------------------------
(* The exchange *)

\* The values of some parts of a symbol, as a message lists them.
Listed(s, parts, values) ==
  [k \in {s} \X parts |-> values[k[2]]]

\* Changes of a book or of trades, funds and positions are pushed alone,
\* everything else as a whole.
Pushed(changed) ==
  IF feed.topic \in {"bbo", "detail"} THEN Parts ELSE changed

\* Those of the v5 positions that are closed.
Closed(keys, quantities) ==
  IF feed = PositionsOf5 THEN {k \in keys : quantities[k[1]][k[2]] = 0} ELSE {}

Changes(s) ==
  \E new \in [Parts -> Values], changed \in SUBSET Parts :
    /\ changed = {p \in Parts : new[p] # held[s][p]} /\ changed # {}
    /\ Len(wire) < MaxWire
    /\ held' = [held EXCEPT ![s] = new]
    /\ IF s \in streamed
         THEN /\ wire' = Append(wire, Message(s, "update",
                                   Listed(s, Pushed(changed), new)))
              /\ heard' = heard \cup {s} \X Pushed(changed)
              /\ UNCHANGED lapsed
         ELSE /\ lapsed' = (lapsed \ {s} \X changed)
                              \cup Closed({s} \X changed, held')
              /\ UNCHANGED <<wire, heard>>
    /\ UNCHANGED <<feed, up, asked, streamed, buffer, view, fatal, spoiled>>

\* The levels of a book, or the positions of a contract, that there are.
Standing(s) ==
  Message(s, "snapshot", Listed(s, {p \in Parts : held[s][p] > 0}, held[s]))

\* What a subscription begins with: a book, one message for every symbol; funds,
\* one message; positions, on v5 a message for every contract that lists the
\* positions there are, on v1 a message that lists them all.
Snapshots(symbols) ==
  LET All == [k \in symbols \X Parts |-> held[k[1]][k[2]]]
  IN CASE feed.topic = "depth" \/ feed = PositionsOf5 ->
            SetToSeq({Standing(s) : s \in symbols})
       [] feed.topic = "account" ->
            <<Message(CHOOSE s \in symbols : TRUE, "snapshot", All)>>
       [] feed.topic \in Topics1 /\ feed.socket = "DropCopy1" ->
            <<Message(CHOOSE s \in symbols : TRUE, "init", All)>>
       [] OTHER -> <<>>

\* A subscription is answered; a refusal (Error, Sub) is logged.
Subscribed(symbols, accepted) ==
  /\ up /\ symbols # {} /\ symbols \subseteq asked
  /\ IF Public THEN \E s \in asked : symbols = {s} ELSE symbols = asked
  /\ asked' = asked \ symbols
  /\ IF accepted
       THEN /\ streamed' = streamed \cup symbols
            /\ wire' = wire \o Snapshots(symbols)
            /\ heard' = IF Snapshots(symbols) = <<>> THEN heard
                                                      ELSE heard \cup symbols \X Parts
       ELSE UNCHANGED <<streamed, wire, heard>>
  /\ UNCHANGED <<feed, up, held, buffer, view, fatal, spoiled, lapsed>>

\* The connection is ready, and subscribes.
Connected ==
  /\ ~fatal /\ ~up
  /\ up' = TRUE /\ asked' = Symbols
  /\ UNCHANGED <<feed, streamed, held, wire, buffer, view, fatal, heard, spoiled,
                 lapsed>>

Disconnected ==
  /\ ~fatal /\ up
  /\ up' = FALSE /\ asked' = {} /\ streamed' = {} /\ wire' = <<>> /\ heard' = {}
  /\ lapsed' = lapsed \cup
                 Closed(UNION {DOMAIN m.items : m \in ToSet(wire)}, held)
  /\ UNCHANGED <<feed, held, buffer, view, fatal, spoiled>>

-----------------------------------------------------------------------------
(* The handlers *)

\* Helper{Event}, Helper{Event5}.
UpdateType(event) ==
  IF event \in {"init", "snapshot"} THEN "SNAPSHOT" ELSE "INCREMENTAL"

\* Faulty: what the last message left in the buffers is told again.
Filled_Kept(items) ==
  [p \in {k[2] : k \in DOMAIN items} |->
     items[CHOOSE k \in DOMAIN items : k[2] = p]] @@ buffer

\* shared_.bids and shared_.asks, or shared_.trades: cleared, then filled.
Filled(items) ==
  [p \in {k[2] : k \in DOMAIN items} |->
     items[CHOOSE k \in DOMAIN items : k[2] = p]]

\* long_quantity and short_quantity of a position, by its direction.
PositionUpdate(direction, available) ==
  [p \in {"BUY", "SELL"} |-> IF p = direction THEN available ELSE NaN]

\* What an update mentions replaces what was seen.
Seen(old, update) ==
  [p \in Parts |-> IF p \notin DOMAIN update THEN old[p]
                   ELSE IF update[p] = NaN THEN old[p] ELSE update[p]]

\* BBO, Detail, Index: one update of one symbol.
TellSymbol(m) ==
  /\ view' = [view EXCEPT ![SymbolOf(m.fields.ch)] = Seen(@, Filled(m.items))]
  /\ UNCHANGED <<buffer, spoiled>>

\* Trade.
TellTrades(m) ==
  /\ buffer' = Filled(m.items)
  /\ view' = [view EXCEPT ![SymbolOf(m.fields.ch)] = Seen(@, buffer')]
  /\ UNCHANGED spoiled

\* Depth.  The framework may refuse an update that does not fit the book
\* (BadState); the exception is caught and nothing else is done about it.
TellBook(m) ==
  LET s == SymbolOf(m.fields.ch)
      book == IF UpdateType(m.event) = "SNAPSHOT" THEN Nothing[s] ELSE view[s]
  IN /\ buffer' = Filled(m.items)
     /\ \/ /\ view' = [view EXCEPT ![s] = Seen(book, buffer')]
           /\ spoiled' = IF m.event = "snapshot" THEN spoiled \ {s} ELSE spoiled
        \/ /\ m.event = "update"
           /\ spoiled' = spoiled \cup {s}
           /\ UNCHANGED view

\* One update for every item.  No two of a message say something about the
\* same quantity, so that their order does not matter.
TellItems(updates) ==
  /\ view' = [s \in Symbols |-> [p \in Parts |->
       LET telling == {k \in DOMAIN updates :
                         /\ k[1] = s /\ p \in DOMAIN updates[k]
                         /\ updates[k][p] # NaN}
       IN IF telling = {} THEN view[s][p]
          ELSE updates[CHOOSE k \in telling : TRUE][p]]]
  /\ UNCHANGED <<buffer, spoiled>>

\* Account5, Accounts, AccountsCross.
TellFunds(m) ==
  TellItems([k \in DOMAIN m.items |-> [p \in {k[2]} |-> m.items[k]]])

\* Positions5, Positions, PositionsCross.
TellPositions(m) ==
  TellItems([k \in DOMAIN m.items |-> PositionUpdate(k[2], m.items[k])])

Receive ==
  /\ ~fatal /\ up /\ wire # <<>>
  /\ LET m == Head(wire)
         outcome == Outcome(feed.socket, m.fields)
     IN /\ wire' = Tail(wire)
        /\ fatal' = (outcome = "fatal")
        /\ lapsed' = lapsed \ DOMAIN m.items
        /\ CASE outcome # feed.topic -> UNCHANGED <<view, buffer, spoiled>>
             [] outcome = "depth" -> TellBook(m)
             [] outcome = "trade" -> TellTrades(m)
             [] outcome \in {"bbo", "detail", "index"} -> TellSymbol(m)
             [] outcome \in {"positions", "positions_cross"} -> TellPositions(m)
             [] OTHER -> TellFunds(m)
  /\ UNCHANGED <<feed, up, asked, streamed, held, heard>>

\* Messages of the socket's other topics, and those that are no topic's.
ReceiveOther(message) ==
  /\ ~fatal /\ up
  /\ Outcome(feed.socket, message) # feed.topic
  /\ fatal' = (Outcome(feed.socket, message) = "fatal")
  /\ UNCHANGED <<feed, up, asked, streamed, held, wire, buffer, view, heard,
                 spoiled, lapsed>>

Next ==
  \/ Connected
  \/ Disconnected
  \/ \E symbols \in SUBSET Symbols, accepted \in BOOLEAN :
       Subscribed(symbols, accepted)
  \/ \E s \in Symbols : Changes(s)
  \/ Receive
  \/ \E message \in Chatter : ReceiveOther(message)

Spec == Init /\ [][Next]_vars

-----------------------------------------------------------------------------
(* Properties *)

\* No message that the exchange sends in answer to what a socket subscribes to
\* ends the process: each one finds its handler, in the order of its own keys.
NothingUnexpected == ~fatal

\* When everything pushed has arrived, clients see what the exchange has, of
\* whatever was pushed since the connection came up, however often the
\* connection was lost before and whichever messages of other symbols came
\* between.  Excepted are books that refused an update, until their next
\* snapshot, and a v5 position that was closed while nobody listened: the
\* snapshot of its contract lists nothing, and nothing is told.
ViewIsExact ==
  up /\ wire = <<>> =>
    \A s \in Symbols, p \in Parts :
      \/ <<s, p>> \notin heard
      \/ view[s][p] = held[s][p]
      \/ s \in spoiled
      \/ <<s, p>> \in lapsed
=============================================================================
