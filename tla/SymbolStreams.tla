--------------------------- MODULE SymbolStreams ---------------------------
(***************************************************************************)
(* Who subscribes to what: gateway/controller.cpp spreads the symbols over *)
(* streams, MaxPerStream symbols each, twice: once over MarketData streams *)
(* (gateway/market_data.cpp) and once over WebSocket streams               *)
(* (gateway/web_socket.cpp).  Symbols arrive from two sides, the contract  *)
(* download (gateway/rest.cpp) and the clients' Subscribe events, while    *)
(* each stream connects and disconnects on its own.                        *)
(*                                                                         *)
(* External, as the code uses it: core::Symbols, an append-only sequence   *)
(* cut into slices of equal size.  Abstracted: the three or four topics a  *)
(* stream subscribes per symbol, always together, and the reference data   *)
(* of the download.                                                        *)
(***************************************************************************)
EXTENDS Integers, Sequences, FiniteSets

CONSTANTS
  Symbols,       \* contract codes, listed or asked for by a client
  Discarded,     \* dispatcher.discard_symbol: not wanted by the configuration
  MaxPerStream   \* settings.ws.max_subscriptions_per_stream

ASSUME SymbolsAssumption == IsFiniteSet(Symbols) /\ Discarded \subseteq Symbols
ASSUME MaxPerStreamAssumption == MaxPerStream \in Nat \ {0}

VARIABLES
  all_symbols,   \* Shared::all_symbols
  symbols,       \* Shared::symbols, in the order of arrival
  streams        \* Controller::market_data_ and Controller::web_socket_

vars == <<all_symbols, symbols, streams>>

-----------------------------------------------------------------------------
Kinds == {"market_data", "web_socket"}

\* A stream is ready or not; sent counts the subscriptions it sent for each
\* symbol on its present connection.
Nothing == [s \in Symbols |-> 0]

Stream == [ready : BOOLEAN, sent : [Symbols -> 0..1]]

NewStream == [ready |-> FALSE, sent |-> Nothing]

\* The slice that holds position p.
SliceOf(p) == ((p - 1) \div MaxPerStream) + 1

\* core::Symbols::get_slice: slice i of the sequence list, from the symbols
\* that follow the first start_from.
GetSlice(list, i, start_from) ==
  {list[p] : p \in {q \in DOMAIN list : q > start_from /\ SliceOf(q) = i}}

\* How many slices hold n symbols.
NumSlices(n) == (n + MaxPerStream - 1) \div MaxPerStream

\* Faulty: symbols seen before are not filtered.
Unseen_Everything(items) == items

\* What emplace into all_symbols finds to be new.
Unseen(items) == items \ all_symbols

\* The symbols of a message arrive in the order of the message.
Orderings(S) ==
  {f \in [1..Cardinality(S) -> S] : \A s \in S : \E i \in DOMAIN f : f[i] = s}

\* Stream::subscribe(symbols): one message each.
Subscribing(stream, slice) ==
  [stream EXCEPT !.sent = [s \in Symbols |-> IF s \in slice THEN @[s] + 1
                                                            ELSE @[s]]]

Init ==
  /\ all_symbols = {}
  /\ symbols = <<>>
  /\ streams = [k \in Kinds |-> <<>>]

-----------------------------------------------------------------------------
\* Faulty: every update subscribes the slices from their start.
SymbolsUpdate_FromStart(new) ==
  LET list == symbols \o new
      StreamAt(k, i) == IF i <= Len(streams[k]) THEN streams[k][i]
                                                ELSE NewStream
  IN /\ symbols' = list
     /\ streams' = [k \in Kinds |-> [i \in 1..NumSlices(Len(list)) |->
          IF StreamAt(k, i).ready
            THEN Subscribing(StreamAt(k, i), GetSlice(list, i, 0))
            ELSE StreamAt(k, i)]]

\* Faulty: one stream is created, where a long update needs several.
SymbolsUpdate_OneStream(new) ==
  LET list == symbols \o new
      StreamAt(k, i) == IF i <= Len(streams[k]) THEN streams[k][i]
                                                ELSE NewStream
      Count(k) == IF NumSlices(Len(list)) > Len(streams[k])
                    THEN Len(streams[k]) + 1 ELSE Len(streams[k])
  IN /\ symbols' = list
     /\ streams' = [k \in Kinds |-> [i \in 1..Count(k) |->
          IF StreamAt(k, i).ready
            THEN Subscribing(StreamAt(k, i), GetSlice(list, i, Len(symbols)))
            ELSE StreamAt(k, i)]]

\* Controller on SymbolsUpdate: the new symbols are appended, missing
\* streams are created (ensure_symbol_slices), and every stream that is
\* ready subscribes what is new in its slice.
SymbolsUpdate(new) ==
  LET list == symbols \o new
      StreamAt(k, i) == IF i <= Len(streams[k]) THEN streams[k][i]
                                                ELSE NewStream
  IN /\ symbols' = list
     /\ streams' = [k \in Kinds |-> [i \in 1..NumSlices(Len(list)) |->
          IF StreamAt(k, i).ready
            THEN Subscribing(StreamAt(k, i), GetSlice(list, i, Len(symbols)))
            ELSE StreamAt(k, i)]]

\* Controller on the Subscribe event of a client.
Subscribe(items) ==
  /\ all_symbols' = all_symbols \cup items
  /\ \E new \in Orderings(Unseen(items)) : SymbolsUpdate(new)

\* Rest on ContractInfoAck: discarded symbols are dropped, and nothing is
\* dispatched when nothing is new.
ContractInfo(items) ==
  LET wanted == items \ Discarded IN
    /\ Unseen(wanted) # {}
    /\ all_symbols' = all_symbols \cup wanted
    /\ \E new \in Orderings(Unseen(wanted)) : SymbolsUpdate(new)

\* Faulty: a new connection is taken for the old one.
StreamReady_NoSubscribe(k, i) ==
  /\ i \in DOMAIN streams[k] /\ ~streams[k][i].ready
  /\ streams' = [streams EXCEPT ![k][i].ready = TRUE]
  /\ UNCHANGED <<all_symbols, symbols>>

\* web::socket::Ready: the whole slice is subscribed on the new connection.
StreamReady(k, i) ==
  /\ i \in DOMAIN streams[k] /\ ~streams[k][i].ready
  /\ streams' = [streams EXCEPT ![k][i] =
       Subscribing([@ EXCEPT !.ready = TRUE], GetSlice(symbols, i, 0))]
  /\ UNCHANGED <<all_symbols, symbols>>

\* web::socket::Disconnected: the subscriptions go with the connection.
StreamDisconnected(k, i) ==
  /\ i \in DOMAIN streams[k] /\ streams[k][i].ready
  /\ streams' = [streams EXCEPT ![k][i] = NewStream]
  /\ UNCHANGED <<all_symbols, symbols>>

Next ==
  \/ \E items \in SUBSET Symbols : Subscribe(items)
  \/ \E items \in SUBSET Symbols : ContractInfo(items)
  \/ \E k \in Kinds : \E i \in DOMAIN streams[k] :
       StreamReady(k, i) \/ StreamDisconnected(k, i)

Spec == Init /\ [][Next]_vars

-----------------------------------------------------------------------------
(* Properties *)

\* Every variable has its type; no stream sends a subscription twice.
TypeOK ==
  /\ all_symbols \subseteq Symbols
  /\ symbols \in Seq(Symbols)
  /\ streams \in [Kinds -> Seq(Stream)]

\* The set that filters duplicates and the sequence that is cut into slices
\* never drift apart, although two components write them.
KnownOnce ==
  /\ all_symbols = {symbols[p] : p \in DOMAIN symbols}
  /\ \A p, q \in DOMAIN symbols : symbols[p] = symbols[q] => p = q

\* A stream that is ready has subscribed exactly its slice, each symbol once
\* on this connection, however symbol updates and reconnections interleave.
SubscribedExactlyOnce ==
  \A k \in Kinds : \A i \in DOMAIN streams[k] :
    \A s \in Symbols :
      streams[k][i].sent[s] =
        IF streams[k][i].ready /\ s \in GetSlice(symbols, i, 0) THEN 1 ELSE 0

\* Every symbol the gateway knows is served by one stream of each kind.
EverySymbolServed ==
  \A k \in Kinds : \A s \in all_symbols :
    \E i \in DOMAIN streams[k] :
      /\ s \in GetSlice(symbols, i, 0)
      /\ \A j \in DOMAIN streams[k] :
           s \in GetSlice(symbols, j, 0) => j = i
=============================================================================
