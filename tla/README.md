# Verification of the HTX futures gateway

TLA+ models, TLC runs and TLAPS proofs about the gateway in
`src/roq/htx_futures`: the process that connects one or several accounts, and
the public market data, of the HTX futures exchange to the clients of a trading
framework. Paths below are relative to `src/roq/htx_futures/gateway/` unless
they say otherwise.

## 1. The system

The gateway is one process, and the components below run on one thread: timers,
connection events and messages are handlers that run to completion. What is
concurrent is everything outside: each component has a connection of its own,
whose connects, disconnections, answers and messages interleave in any order
with those of the others, with the timers and with the clients' requests.

| Component | State it keeps | Operations |
| --- | --- | --- |
| `Controller` | the streams, per account or per slice of symbols | passes timers to all streams; routes order actions to the account's REST or web socket connection (`ws_api`); spreads symbols over streams |
| `Shared` | symbols (set and sequence), buffers, rate limiter, API names | used by all |
| `Rest` | download state and sequence | polls contract info; publishes reference data; announces new symbols |
| `MarketData`, `WebSocket` | connection status, slice index | subscribe the symbols of a slice; translate market data |
| `DropCopy5`, `DropCopy1` | connection status, download state, time of the next stale-order check | log on, subscribe private channels, ask for open and stale orders, translate private updates |
| `Request` | two request slots, the set of collected stale orders | shared by the drop copy, which asks, and the REST connection, which sends |
| `OrderEntryREST5`, `OrderEntryREST1` | connection status, counter of order-info calls | create, cancel, cancel-all; open orders, order info |
| `OrderEntryWS5`, `OrderEntryWS1` | connection status | create, cancel, cancel-all over a web socket |
| `tools/throttle.cpp` | last rate-limit headers, time until which clients are suspended | reads headers and statuses of every response of every client |
| `protocol/json` | none | encoders, parsers, mapping tables, the correlation id |
| `Account`, `API`, `Config` | margin mode, paths, keys | read at start; signing |

How they interact:

```
clients --order actions--> Controller --> OrderEntryREST5 --calls--> exchange
                               |               ^    |
                               |     sends     |    | commits
 clients --Subscribe-->        |            Request (2 slots, details)
 Rest ----SymbolsUpdate------> |               | has_response ^ request
                               v               v              |
              MarketData, WebSocket         DropCopy5 <--stream-- exchange
 Throttle <-- headers, statuses -- every HTTP response; --> suspend_until
```

What is hard to get right, and hard to test:

- the drop copy and the REST connection share the two request slots, and lose
  their connections independently: a question may be asked again while the
  answer to the previous one is on its way, answers arrive in another session
  than the one that asked, two handlers end the process when they find
  something "Unexpected";
- failed calls are committed like successful ones; orders are settled only
  because a periodic check collects them again;
- a request whose answer is lost may or may not have been executed;
- what happened to an order comes on three ways that overtake each other, the
  stream, the open-orders snapshot and the order-info answers, and the stream
  loses what it carries when it is lost;
- fills and order states travel on two channels, of which either may be ahead;
- symbols arrive from two sides while streams come and go;
- the handler of a message depends on the order in which the exchange writes its
  keys, and many handlers end the process;
- views of clients are built from snapshots and changes, through buffers that
  all symbols share, across reconnections;
- the headers of different responses interleave at the throttle.

`PROJECT.json` lists all of these under `hazards`, each at the line where it
bites, with the properties that would catch it, and every component under
`components`, the ones not modelled too.

What makes each component correct:

- recovery (`DropCopy5`, `Request`, `OrderEntryREST5`): READY means that the
  orders of the account were reconciled with the exchange in this session; the
  process never dies of its own book-keeping; recovery completes; every stale
  order is settled; batches do not overlap; clients then know what their orders
  are;
- orders: an order is understood by the exchange as it was meant, seen as it is
  held, and never goes back in its life;
- streams: clients see what the exchange holds of whatever it pushed; no message
  that it may send ends the process;
- order entry: each request is answered once, and truthfully;
- symbols: every symbol is served by one stream of each kind, subscribed once;
- throttle: the exchange's quota is respected, and nothing but a report of quota
  cuts a suspension short;
- reference data: every contract is eventually known, an old answer does not
  disturb a new download.

## 2. Modules

| Module | Models | Proofs |
| --- | --- | --- |
| `LimitRequest` | one request slot (external, see 6) | used by the next |
| `OrderRecovery5` | `drop_copy_5.cpp`, `request.cpp`, recovery half of `order_entry_rest_5.cpp`, for one account | `OrderLifecycle5Proofs`, first half |
| `StaleOrderBatches` | abstract: what the stale-order half of a `Request` promises | refined by `OrderRecovery5` |
| `OrderLifecycle5` | `OrderRecovery5` composed with one order at the exchange and what clients are told of it | `OrderLifecycle5Proofs`, second half |
| `OrderRecovery1` | `drop_copy_1.cpp`, recovery half of `order_entry_rest_1.cpp`, for one account | `OrderRecovery1Proofs` |
| `OrderEntryREST` | order half of `order_entry_rest_5.cpp` and of `order_entry_rest_1.cpp`, for one account | `OrderEntryRESTProofs` |
| `OrderEntryWS` | `order_entry_ws_5.cpp`, `order_entry_ws_1.cpp`, for one account | `OrderEntryWSProofs` |
| `RequestOutcomes` | abstract: what a client may hear about its requests | refined by the two above |
| `RefDataDownload` | `rest.cpp`: download, retries, polling | `RestProofs`, first half |
| `SymbolStreams` | symbols in `controller.cpp`, `rest.cpp`, `market_data.cpp`, `web_socket.cpp` | `SymbolStreamsProofs` |
| `Throttle` | `tools/throttle.cpp` | `RestProofs`, at the end |
| `MessageDispatch` | the parsers of `protocol/json`, and the handlers that the sockets refuse | used by the next, lemmas in `ClientViewProofs` |
| `StreamedViews` | market data in `market_data.cpp` and `web_socket.cpp`, funds and positions in `drop_copy_5.cpp` and `drop_copy_1.cpp` | `ClientViewProofs` |
| `OrderFields` | the tables of `protocol/json/map.cpp` that orders go through, the create messages of `protocol/json/encoder.cpp` | used by the next, lemmas in `OrderIntentProofs` |
| `OrderIntent` | one order from the client's request to the updates about it, on both channels, with `OrderFields` | `OrderIntentProofs` |

Each `MC...` module extends the module it is named after and holds the
definitions that only a run needs; the `.cfg` files give the constants values.
Definitions whose comment starts with "Faulty" are variants of the definition
below them, each with a bug that the code could have: replacing the definition
by its variant must break the property `PROJECT.json` names with it.

### OrderRecovery5

Variables are the members of the three objects (named as in the code), the
calls on the wire, and what the framework's order cache would answer
(`stale`: `get_all_stale_orders`; `known`: `find_order`). Two history variables
serve the properties: `evidence` follows the open-orders question asked in the
present session, `unasked` the orders that were stale when READY was decided and
have not been asked about since.

| Action | Code |
| --- | --- |
| `DropCopyConnected`, `DropCopyDisconnected`, `ExchangeCloses` | web socket events, `Close2`, `Error2` |
| `LogonAccepted`, `LogonRefused` | `Auth`; the download begins, `isolated` accounts end the process in `download` |
| `Subscribed` | `Sub` and the state it moves the download to |
| `OrderUpdated` | `Orders5`; the code ignores `MatchOrders5` |
| `DropCopyTimer` | timer: `check_request_queue`, then `check_stale_orders` when ready |
| `RestConnected`, `RestDisconnected` | REST connection events |
| `RestTimer` | timer: `check_request_queue`, one slot at a time, `get_open_orders`, `get_order_info` |
| `OpenOrdersAck`, `OrderInfoAck` | the answers, errors included, and the commits |
| `OrderGoesStale`, `OrderForgotten` | the framework's order cache |

`log::fatal` is a value of `fatal` after which only stuttering is possible
(`Dead`), so that deadlock checking stays on. The drop copy calls its state
handlers through `core::Download2`, which runs a state, waits when the handler
returned a positive number and goes on at once when it returned zero: the model
inlines this, so that an action covers every state passed at once (for example
GET_OPEN_ORDERS to DONE when nothing is stale).

### OrderLifecycle5

The composition says what the recovery is for. All of `OrderRecovery5` runs unchanged, and
one order, `Followed`, is followed outside it: its create request, its life at the exchange
(`none`, `live`, `done`), the updates on the stream, and what the exchange read of it
for the open-orders and the order-info call. `told` is what clients were last told, by
whichever of the three.

| Action | Code |
| --- | --- |
| `FollowedUpdated` | `Orders5` |
| `FollowedListed` | `OpenOrdersAck5`: each order that is listed is told, nothing is said of the others |
| `FollowedInfo` | `OrderInfoAck5`: told as it is answered, and rejected upon code 1061 |
| `StreamLost` | `Disconnected`: what the stream carried is gone |
| `RecoveryTimer` | the timer, which collects stale orders, the order in doubt among them |
| `OtherUpdated`, `OtherInfo`, `RecoveryStep` | the steps of `OrderRecovery5` that tell nothing of the followed order |
| `RequestCreate` to `ReadOrderInfo`, `OrderDoubted` | clients, exchange and order cache |

`hearsay` is history: the last thing told came from an answer that the stream does not
vouch for. The exchange read it before the orders topic was live, or an update has overtaken
it, or it read it while the create request was on its way. In these cases what is told
can be wrong for good, by what the code says, and `ReadyIsTruthful` excepts them by that
name; the point is that there are no others.

### OrderRecovery1

The v1 drop copy sends all subscriptions and begins the download in the handler of the
log-on; it does not wait for the answers. There are no stale-order checks: the
open-orders call is all there is, and the second slot of `request.cpp` stays unused.
To say what this misses, the module follows what the exchange and the gateway know
of each order: `outdated` holds the orders the cache does not know as they are,
`fresh` those that have not changed since the snapshot was taken, `subscribed` the topics that
are live. `updates` are the updates under way, each of an order, on a topic, and current or
made old by a later change: a fill is told on both topics, any other change on `orders` only.

The order cache believes what it is told last. Each v1 update and each order of a
snapshot says `created_at` for its time (`drop_copy_1.cpp:381`, `order_entry_rest_1.cpp:297`),
so that the cache cannot tell old from new: an older update makes an order outdated (`OrderUpdated`), and
an answer sets all orders back to what its snapshot says (`OpenOrdersAck`), whatever the stream
has told in between.

`evidence` is history as in `OrderRecovery5`. So are `gap`, the orders that changed unheard, or
whose update got lost with the connection, since a snapshot was taken, and `hearsay`, those whose
news came first and something older after it, or still to come.

### OrderEntryREST

`wire` is the set of requests without an answer, `verdict` what the exchange
did with each, `told` the events that the client heard about it. The exchange may
decide after the call has failed here. `unavailable` is history: requests
answered by an HTTP 5xx, which the code reports as REJECTED.
A request made while the connection is down throws `NotReady` in its caller and
changes nothing; modify throws `NotSupported`. Neither is a step.
The constant `Api` selects the version; the two differ in this only: on v5 the
answer to a create request closes the connection. A v1 refusal is assumed to
have an `err_code`; the list of errors that a v1 cancel answer may carry is not read by
the code (see the hazards).

### OrderEntryWS

The same requests over a web socket. Here the object remembers nothing: an answer
finds its order by the correlation id it carries, and `wire` is what the exchange
has not answered on this connection. `SocketDisconnected` empties it and nobody
is told; `lost` records those requests, and those answered by an error that
names none. Requests are sent whenever the socket is there, logged on or not.
The variable `api` selects the version at the start and never changes.
`Response5` (v5) passes on failures and the answers to a cancel-all, `Response`
(v1) passes on everything but the answers to a cancel-all.

### RequestOutcomes

What the two have in common, as an abstract specification: a request is open until
the client hears its verdict or that the verdict is unknown, or until silence settles
it, which is only allowed when the exchange accepted it, or when the carrier may lose
requests (`MayLose`). Order entry over REST implements it with `MayLose <- FALSE`, order entry over a web
socket with `MayLose <- TRUE`: that difference is what a client has to know when
it chooses `ws_api`.

### RefDataDownload

A contract-info call carries the sequence that the download had when it was made;
all that matters of it is whether it is the present one, `current` in `calls`. `Ask`
is `begin` and `bump`, which make every call on the wire an old one; `Retry` is
what `download_.retry` brings about, a further call with the same sequence.

| Action | Code |
| --- | --- |
| `Connected`, `Disconnected` | connection events; a download under way is bumped, or kept |
| `Timer` | the poll, when `next_refresh_` has passed |
| `HandleError` | every failure of `process_response`, exceptions of the parser included: no sequence is checked |
| `HandleSuccess` with `Publish` | `skip`, or publish, announce, `check`, and state DONE; an answer without contracts is logged and makes DONE all the same (`rest.cpp:237`) |
| `TakeUp`, `List` | the exchange reads a call, and lists a contract |
| `AnswerEmpty` | the exchange answers with an error status, or no data, under the HTTP status of a success |

`begun`, `answered` and `published` are history: what the exchange listed when the question was last
asked, whether it has been answered, with a listing or with nothing, and what the last reference data said. The exchange only lists: contracts
that expire are dropped by their status in `SymbolStreams`, where `all_symbols` never
shrinks, as in the code. `ReadyIsCurrent`, `PublishedInOrder` and `DownloadIsDriven`
pull in different directions: the sequence makes old answers harmless, and the error
path that checks no sequence may start calls that are not needed, but never leaves
the download with nothing to wait for.

### SymbolStreams

`all_symbols` filters, `symbols` is cut into slices, and a stream is its
connection and the number of times it subscribed each symbol on it. The type of
`sent` is 0..1: a second subscription of a symbol on one connection is a type
error. `SymbolsUpdate` covers the whole handler: append, create the missing
streams, subscribe the new symbols at the streams that are ready.

### Throttle

Each header and each end of a response is an action, since those of several
connections interleave. System and UTC clock differ by a constant. A 403 suspends all
clients for `BLOCKED_BACKOFF`; that the next report of quota lifts this suspension like
any other is what `update_suspend_until` does, and what `OnlyQuotaLifts` names.

### MessageDispatch, StreamedViews

`MessageDispatch` holds no state: the four parsers as functions from a message, the sequence of
the top-level keys a parser knows of, to the handler that is called, `"ignored"`, or
`"fatal"`. The parsers of the private sockets go through the keys in the order of the
message and stop at the first that decides, which is why a notification's `op` must not
(`note! continue`, `parser_5.cpp:75`). `Refused` lists the handlers that are
`log::fatal("Unexpected")`.

`StreamedViews` follows one feed, a topic of a socket, chosen at the start; the order entry
sockets are there with no topic, for their messages. The exchange changes
what it holds and pushes it in order, until the connection is lost; `Receive` dispatches a message by its
keys and calls the handler it reaches; `ReceiveOther` does so with every other message
that the subscriptions of the socket may bring.

| Action | Code |
| --- | --- |
| `Connected`, `Disconnected`, `Subscribed` | socket events; answers to subscriptions are only logged |
| `Receive` with `TellBook` | `Depth`: cleared and filled buffers; `BadState` is caught and forgotten |
| ... with `TellTrades`, `TellSymbol` | `Trade`; `BBO`, `Detail`, `Index` |
| ... with `TellFunds` | `Account5`, `Accounts`, `AccountsCross` |
| ... with `TellPositions` | `Positions5`, `Positions`, `PositionsCross`: one direction per item, NaN for the other |
| `ReceiveOther` | `Ping`, `Error`, `Subbed`, `Auth`, `Sub`, and the topics that tell nothing here |

`heard`, `spoiled` and `lapsed` are history: what was pushed on this connection, which books
refused an update since their last snapshot, and which v5 positions were closed while nobody
listened. An abstract value stands for a price level, a balance, a quantity or a statistic.
The code takes a position's quantity from the field `available` (marked "???" there) and a
cross account's balance from `margin_available` of each of its contracts: whether these are
the quantities clients mean is not for this model to say; the value of an item is whichever field
the code reads.

### OrderFields, OrderIntent

The tables are functions, partial where the code's are: a request that needs a word
the tables lack is `Unsupported`. `OrderIntent` sends one order through them: the create message of
either API, the exchange that holds it as it reads the message, and updates that repeat
the exchange's words while the order advances, decoded by `Orders1` or `Orders5`. They come
on two channels: `OrderMatched` is disabled on v5 by a `continue`, with the reason in the comment
above it ("the order channel is much slower than match_orders", `drop_copy_5.cpp:434`), and forwarded on
v1, where `source` remembers which channel the client was last told by. Accounts are isolated or cross
(`controller.cpp:44-53`), and orders go out by the connection that `ws_api` selects, which decides what a v5 order
is margined by when the client does not say (`DefaultMarginMode`). The accepted log-on of the drop copy ends the
process of an isolated v5 account (`DropCopyEnds`, "Unexpected: UNTESTED"), which therefore subscribes to nothing
(`Subscribes`); but neither order connection waits for that log-on. The margin mode also selects the URL of a REST
request, which is not looked at. `Meant`
is what a client means by a request, `Understood` what the exchange understands by the
message; the latter takes the words at their meaning in the exchange's API as the
comments and assertions of `map.cpp` give it.

## 3. Runs

| Run | Checks | Instance | States |
| --- | --- | --- | --- |
| `MCOrderLifecycle5` | type, the five safety properties of `OrderRecovery5`, and `ReadyIsTruthful` | 2 orders, one followed, the other may be dropped by the cache; a refused log-on is fatal | 251,628 |
| `LiveOrderRecovery5` | `RecoveryCompletes`, `StaleOrdersSettle`, refinement of `StaleOrderBatches` | 2 orders, subscriptions and log-on may be refused, the cache drops nothing | 36,864 |
| `MCOrderRecovery1` | type, `ReadyIsReconciled`, `OnlyTheGapIsMissed`, `RecoveryCompletes` | 2 orders, subscriptions may be refused, a refused log-on is fatal | 184,920 |
| `MCOrderEntryREST5` | type, `EveryRequestAccountedFor`, `RejectedMeansRefused`, refinement of `RequestOutcomes` | v5, 2 orders in one of 2 symbols, every failure | 625,394 |
| `CloseOrderEntryREST5` | finding: `NoErrorWithoutOutage` | v5, 2 orders in 2 symbols, network without failures | |
| `MCOrderEntryWS` | type, `SilenceExplained`, `ReadyIsLoggedOn`, refinement of `RequestOutcomes` | both APIs, 2 orders in one of 2 symbols, a refused log-on is retried | 318,416 |
| `MCRefDataDownload` | type, `ReadyIsCurrent`, `DownloadIsDriven`, `PublishedInOrder`, `ContractsBecomeKnown` | 2 contracts, 3 calls on the wire, contracts are polled | 71,133 |
| `MCSymbolStreams` | type, `KnownOnce`, `SubscribedExactlyOnce`, `EverySymbolServed` | 5 symbols, 1 discarded, 2 per stream | 485 up to symmetry |
| `MCThrottle` | type, `QuotaRespected`, `OnlyQuotaLifts` | clock to 8, back-offs of 2 and 4 | 422 |
| `MCOrderIntent` | `UnderstoodAsMeant`, `SeenAsHeld`, `NeverGoesBack` | both APIs, both connections, accounts of both margin modes, every kind of order, 2 updates under way on each channel | 404,208 |
| `MCStreamedViews` | `NothingUnexpected`, `ViewIsExact` | every feed, 2 symbols, present and absent, changes pushed while fewer than 2 messages are on the wire | 698,231 |
| `HedgeOrderIntent` | finding: `OpenMeansOpen` | as above, without times in force | |

What the properties say, beyond their comments:

- `ReadyIsReconciled` is the point of the recovery, and what the comment
  "*before* updating download" (`drop_copy_5.cpp:613`) protects: collecting the
  stale orders after the download advanced makes the property fail. It also shows
  that a late answer of the previous session cannot complete the present one,
  because asking again invalidates it.
- `NeverUnexpected` depends on the order of three things in two components: the
  details are cleared when they are sent, collected orders are always pending,
  and a pending slot has no response.
- `BatchesRefined` holds when the order cache forgets nothing
  (`Forgettable = {}`). If `find_order` fails for every order of a batch, no call
  is made, nobody commits, and the account's recovery stops for good. Whether
  the cache ever does this is up to the framework: `MCOrderLifecycle5` includes it
  and shows that safety does not depend on it.
- `ReadyIsTruthful` joins recovery and orders: with the drop copy READY, its orders topic live and
  the stream drained, clients were told what the order is at the exchange, or it is
  still listed as stale. It needs the order of the code: asking for open orders before the
  orders topic is live (the mutant `Subscribed_AsksEarly`) breaks it, because a change
  between the two is neither in the snapshot nor on the stream.
- `ViewIsExact` names two things that do go wrong: a book that refused an update stays
  wrong until a snapshot, since the resubscription is commented out
  (`market_data.cpp:314`), and a v5 position closed while the gateway was away stays open for clients,
  since the snapshot lists only the positions there are.
- `NothingUnexpected` covers what the exchange sends in answer to what each socket subscribes
  to, in the order of keys shown by `src/test`; it says nothing of messages the exchange has no
  reason to send.
- `NeverGoesBack` is about the two channels of the drop copy. On v5, where matches are ignored, what these
  tell never goes back; on v1 a match may be overtaken, and a client sees a done order working again, so
  the property excepts the steps around a match. An open-orders answer of the REST connection is not in
  `OrderIntent`: on both APIs it can turn an order back, which is the `hearsay` of `OrderLifecycle5` and `OrderRecovery1`.
- `ReadyIsCurrent`: READY means that the present question was answered, not that contracts were published. An answer
  without contracts, which the authors have met ("saw something 20220603", `rest.cpp:236`), completes the download like
  any other, and it takes a poll, hence `download_refresh`, for `ContractsBecomeKnown`.
- `RejectedMeansRefused` separates a network error, after which an order may be
  live, from a refusal. HTTP 5xx answers are excepted by name.
- `OutcomesRefined` says more than the invariants: it is about steps, so that an
  answer once heard is neither withdrawn nor followed by another, whatever the
  exchange decides later.
- `SilenceExplained` lists every reason a client may hear nothing of a request sent
  over a web socket. On v5 an accepted order is one of them: the drop copy tells.
- `ReadyIsLoggedOn` is stated for v5. v1 publishes READY with the log-on message still
  unanswered (`order_entry_ws_1.cpp:229`), by what its code says.
- `OnlyTheGapIsMissed` bounds what v1 can miss. A cache that lags behind the exchange while READY
  rests on a snapshot has one of three reasons: the news is on its way; it changed unheard since the snapshot was
  taken (`gap`), since the code does not wait for the subscriptions ("XXX FIXME TODO wait for subscribe-ack",
  `drop_copy_1.cpp:269`); or the news was told and then undone (`hearsay`), by the answer with the older
  snapshot or by the slower topic, since all of them bear the same time. Nothing that happened before the snapshot is
  missed. Both exceptions do happen, and last until the order changes again.
- `UnderstoodAsMeant` names what gets lost on the way to the exchange: v1 has no
  reduce-only, and the time in force of a post-only order is not written there. When the client names no margin
  mode, REST on v5 takes that of the API, "cross", and the web socket that of the account. The two differ for an isolated
  account, whose process ends only at the accepted log-on of the drop copy: before it, or while the log-on is
  refused and retried, an order that goes out over REST is a cross order (`MarginedByApi`).
- `SeenAsHeld` closes the circle: the words of an order were written with other tables
  than those its updates are read with.

Findings (details in `PROJECT.json`): the answer to a v5 create request closes the
REST connection, so that other requests end in errors. No line says in so many words that it must not; the connection is
configured to be kept alive, the comment in the same handler says that the answer is dropped and no more, and the v1 handler with
the same comment leaves the connection alone. And on v5 a position effect is written as a position side without regard to
the side of the order, so that selling to open a position is written as a sale of the long
position, by the assertions of `map.cpp` itself a close.

### Bounds

Two orders are enough for an order to be in a batch while another is collected,
and for batches of different sizes to follow each other. There is one REST and
one drop-copy connection per account, and accounts share nothing in these
components, hence one account. Each order has one create and one cancel request,
and there is one round of cancel-all: requests do not influence each other but
through the connection, and repeating a request needs a new id. In
`MCOrderEntryREST5` and over web sockets both orders share a symbol and another
symbol has none; `CloseOrderEntryREST5` uses two symbols. Five symbols over slices of two give
two full slices and an incomplete one. The clock of `Throttle` runs long
enough for every back-off to expire and for reset times in the past, present
and future. Three calls of the reference data download are one of an earlier question, the
present one, and one that a late failure of the first has added; a call that finds
none of `Calls` free waits for one, which every answer frees. Orders do not influence each other in
`OrderIntent`, hence one; two updates under way on each channel let one channel be ahead of the
other by a fill and an end. In `OrderLifecycle5` the second order is what makes batches that the
followed order is not part of. In `StreamedViews` topics and symbols do not
influence each other but through the buffers, the subscriptions and the connection, hence one topic at a time
and two symbols; a snapshot with a change behind it is two messages. `GFD` stands for the times in force that neither API has. The counters of the recovery are not bounded by a guard: they are bounded by
the calls that can be on the wire.

Deadlock is checked but for `Throttle`, where the clock stops at its horizon,
for `OrderEntryREST`, where all requests may be done or the process ended, and for
`OrderIntent`, which ends with its order.

### Fairness

Only `LiveOrderRecovery5`, `MCOrderRecovery1` and `MCRefDataDownload` use fairness. Timers are driven for ever by the
event loop, and the rate limiter refills: weak fairness of both timers. The web
socket client and the HTTP client reconnect on their own, the exchange answers
the log-on, each subscription and each call, a lost call being answered by the
client's own timeout: weak fairness of these. An order-info call does not
fail for ever when it is repeated for ever: strong fairness of its success per
order. Open-orders calls may fail for ever. A contract-info call of the present question is read, and its answer
arrives, if this is possible again and again: strong fairness, since a failure before
or after the exchange has read it starts it anew; nor do the answers that can complete the download stay
empty for ever. Nothing is asked of
disconnections, refusals, listings or orders going stale; all these properties assume that the
connections hold from some point on. `FairSpec` of the v5 recovery takes `Steps`, the next-state
relation without `OrderForgotten` and `Dead`: the live run's constants let neither happen.

## 4. Proofs

All theorems hold for every value of the constants that the named assumptions
allow: any finite set of orders, both margin modes, every setting; any
symbols and slice size; any header values, back-offs and clocks; any contracts, and any number of calls
on the wire; any finite set of symbols, any values and any number of messages of a feed;
any times in force, and any number of updates of an order on their way. That symbols are
finite is what `SymbolsAssumption` says: the gateway learns of them one at a time.

- `OrderLifecycle5Proofs`, the recovery. The runs' invariants are not inductive alone: that a
  slot with a response is not in flight, that `awaiting` holds the one message
  the download waits for, that the details are empty when the slot is in flight
  without being asked again, and how `evidence` and `unasked` follow slot, details and
  calls are stated as further conjuncts of the inductive invariant. Each
  action's preservation is a lemma. From it: `TypeCorrect`, `NoUnexpectedFatal`,
  `CallsAreAccountedFor`, `CollectedOrdersAreAsked`, `ReadyIsEarned`. The
  refinement `RecoveryImplementsBatches` maps `SendStaleOrders` to `Dispatch`,
  each `OrderInfoAck` to `Answer` and the checks of the drop copy to `Collect`;
  it assumes `Forgettable = {}`.
- `OrderLifecycle5Proofs`, the order. `LifecycleKeepsRecovery` carries the invariants of the recovery over to the
  composition: each step is a step of `OrderRecovery5` or leaves its variables alone, so the
  lemmas of the recovery are used as they are. `ReadyTellsTheTruth` needs what connects the order with the recovery,
  `LInv`: an order never requested is nowhere (`UnknownInv`); the stream ends with what is the case, unless it is
  about to be lost (`StreamInv`); an answer that the stream vouches for is the case (`AnswerInv`); an
  end that was told for certain is the end (`FinalInv`); without doubt or hearsay, something is told as it
  is or on its way (`CertainInv`); and an order in doubt that the recovery of this session has not found was
  asked for after it looked (`FoundInv`), which `RecoveryTimer` establishes.
- `OrderRecovery1Proofs`. Missing: what each download state says about the slot and `evidence`, and that
  once the exchange has read the open-orders call, an order that has changed since, which the answer is going
  to turn back, is on its way, in `gap` or in `hearsay` (`Accounted`); after the answer, which puts all others right, the
  same is true of each order that the cache does not know as it is.
- `OrderEntryRESTProofs`. The conjunct that is missing: a request never sent
  has no events. Answers that end a request, requests being sent, and steps that
  only decide are one lemma each, since several actions share each of them.
  `NoErrorsOnV1` proves for v1 what the run `CloseOrderEntryREST5` refutes for v5;
  its invariant adds that the connection never closes and is up while a request
  waits. The runs instantiate `OrderEntryREST` for v5 only, the theorems hold for both.
  `OrderEntryKeepsPromise` is the refinement of `RequestOutcomes`, step by step: an
  answer is `Tell` or `Consent`, a cancel-all is one `Send` of several requests, and
  the events FORWARDED do not count.
- `OrderEntryWSProofs`. The same refinement for the web socket (`OrderEntryKeepsPromise`),
  where a disconnection is `Lose` of the whole wire, and `SilenceIsExplained`,
  `ReadyAfterLogon`.
- `RestProofs`, the download. Missing: an answer to the present question is no older
  than the question, and while the question is open, what is published is no newer;
  nothing is known that was not listed. Both use that the exchange's list only grows. An empty answer
  publishes nothing, so that what is published stays what it was.
- `SymbolStreamsProofs`. Missing: there are exactly as many streams as slices.
  The arithmetic of slices (a position belongs to one slice, which is one of
  those that exist) is a lemma of its own.
- `RestProofs`, the rate limits. `QuotaRespected` is inductive with the type invariant;
  `OnlyQuotaLifts` needs the type invariant only.

- `ClientViewProofs`. That a message is no one's fatal error (`NoMessageIsFatal`) is a matter of the parsers:
  the first key that decides is found by lemmas about `FirstOf`, for each feed and
  for the chatter of each socket. `ViewsAreExact` needs to say what the wire holds while it is not empty,
  `VInv`: of every quantity that must become known (`Due`: it was pushed, or it is a
  v5 position that is absent), the last word on the wire is what the exchange has (`LastWordIs`), and what no
  message on the wire mentions is settled (`Settled`): the view has it, or the symbol is
  spoiled or the quantity lapsed by a lost connection. A message mentions what
  it lists, and the snapshot of a book mentions all of the book, saying zero of what it leaves out.
  Receiving takes a first word away, which was the last one if nothing else is said of the quantity
  (`LastWordOfTail`); pushing and subscribing add last words (`LastWordOfConcat`). The handlers are
  lemmas by themselves: `ItemsTold` and `MessageIsTold` say of each kind of topic that what a message mentions
  is what the view has afterwards, and that the rest of the view stays. With the wire empty,
  `ExactInv` is `ViewIsExact`.
- `OrderIntentProofs`. `IntentInv` says that the message is the translation of the request, with the default margin
  mode of the connection it takes (`DefaultMarginMode`), from which `OrdersAreUnderstood` follows word
  by word (`WordsOfCreate1`, `WordsOfCreate5`). `OrdersAreSeen` needs that both channels carry nothing but reports
  of states, that the last one on the orders channel is of the present state, and that the client is at
  the present state when that channel is empty and told last; what a report tells is the lemma
  `ReportsAreSeen`; where the drop copy subscribes to nothing, the order advances unheard (`UnheardAdvanceKeepsIntentInv`). `ProgressIsKept` needs the order of the channel: progress does not decrease along it, ends
  no further than the state of the order (`Rank`), and begins no lower than where the client is,
  if an order brought the client there (`OrderedInv`). A match does not
  fit in this order, which is why it is the exception of the theorem.

Only model-checked: liveness (`RecoveryCompletes` of both APIs, `StaleOrdersSettle`,
`ContractsBecomeKnown`), since fairness is beyond the prover, and the violations. Every other
property of a run is a theorem.

## 5. Not modelled, and the plan

Next, in this order:

1. `OrderLifecycle5` with the order requested through `RequestOutcomes`: that an order lost by the web socket
   is settled by the stale-order checks, and that clients and exchange agree in the end once
   the connections hold (liveness).
2. `RefDataDownload` composed with `SymbolStreams`: a contract that is listed is
   subscribed.
3. The correlation id of `protocol/json/encoder.cpp` as a function; here it is the request it names.
4. Proofs: that the refinement of `RequestOutcomes` carries over to a composition of both order entry
   connections.

Not planned: signing and cryptography (pure functions of a library), settings
and configuration (constants here), formatting, metrics, the bridges (thin
mains around a framework server), `WebSocket2` (created nowhere: the code is commented
out), application start-up, tests and benchmarks.

Left out of the components that are modelled: prices, names and times of updates; latencies and metrics; the
framing of messages (a text frame on a binary socket, or a frame that cannot be inflated,
ends the process); the building of an object from a message; basis and estimated rate, which are only logged; order actions routed
to the account's connection (a lookup); the keys of the maps.

## 6. What is taken from outside the repository

The framework's sources are not in the repository. These contracts are
written from their use:

- `core::limit::Request` (`LimitRequest`): asking makes a slot pending; a
  pending slot is sent when its handler is ready; commit is the response to the
  question on the wire, and no response to a question asked since. The recovery
  relies on the last point (`drop_copy_5.cpp:612`).
- `core::Download2`: see `OrderRecovery5` above; answers for another state than
  the present one are ignored, a reset forgets the state. `begin` and `bump`
  advance the sequence, `skip` is true of an answer to another sequence or state,
  `retry` runs the handler of the state again, at once or later.
- `server::Dispatcher`: `get_all_stale_orders` visits orders whose state is in
  doubt, any order update ends the doubt, `find_order` may fail.
- the order cache (`OrderLifecycle5`): an update or an answer replaces what clients were
  told; a request, or a disconnection of the drop copy, puts an order in doubt until something is told about
  it; orders in doubt are among the stale orders when these are collected for the download. `OrderRecovery1` takes the
  same contract: the cache believes what it is told last.
- the exchange may answer the contract-info call with the HTTP status of a success and an error or no data in it
  (`RefDataDownload`), as `rest.cpp:236` records.
- the framework's views (`StreamedViews`): an update replaces what it mentions, NaN leaves a quantity as it is, a
  book snapshot replaces the book; an update that does not fit a book may raise `BadState`, which leaves the book
  alone. Funds and positions are keyed by what the update names, and the update type of
  these does not remove the others.
- the exchange's streams: a book begins with a snapshot of each symbol; v5 sends the positions of each contract
  upon subscription and lists those that are open, v1 lists all; a channel is in order, two channels are not.
- the HTTP client answers each call once, with the exchange's answer or with a
  network error; after `close()` a disconnection follows.
- `core::Symbols` is an append-only sequence in slices of equal size.
