-------------------------- MODULE ClientViewProofs --------------------------
(***************************************************************************)
(* Theorems about what clients see: StreamedViews, for any finite set of   *)
(* symbols, any values and any number of messages on the wire.             *)
(***************************************************************************)
EXTENDS StreamedViews, FiniteSetTheorems, SequenceTheorems, TLAPS

\* What may be on the wire.  Only a contract-wide message of v1 or of the v5
\* account lists other symbols than its own.
Events == {"init", "snapshot", "update"}

Items == UNION {[D -> Values] : D \in SUBSET (Symbols \X Parts)}

Fits(s, event, items) ==
  /\ feed.topic # "none"
  /\ Public => DOMAIN items \subseteq {s} \X Parts
  /\ feed.topic = "depth" => event # "init"

Messages ==
  {m \in [fields : {Written(s, event) : s \in Symbols, event \in Events},
          event : Events, items : Items] :
     \E s \in Symbols : /\ m.fields = Written(s, m.event)
                        /\ Fits(s, m.event, m.items)}

ViewTypeOK ==
  /\ feed \in Feeds
  /\ up \in BOOLEAN
  /\ asked \subseteq Symbols
  /\ streamed \subseteq Symbols
  /\ held \in [Symbols -> [Parts -> Values]]
  /\ view \in [Symbols -> [Parts -> Values]]
  /\ wire \in Seq(Messages)
  /\ spoiled \subseteq Symbols
  /\ lapsed \subseteq Symbols \X Parts

\* A snapshot of a book says something of all of it.
Whole(m, s) ==
  feed.topic = "depth" /\ m.event = "snapshot" /\ SymbolOf(m.fields.ch) = s

Mentions(m, s, p) == <<s, p>> \in DOMAIN m.items \/ Whole(m, s)

\* What a message says of what it mentions.
Says(m, s, p) == IF <<s, p>> \in DOMAIN m.items THEN m.items[<<s, p>>] ELSE 0

Mentioned(messages, s, p) ==
  \E i \in 1..Len(messages) : Mentions(messages[i], s, p)

\* The last message that mentions a quantity says this value.
LastWordIs(messages, s, p, value) ==
  \A i \in 1..Len(messages) :
    /\ Mentions(messages[i], s, p)
    /\ \A j \in (i + 1)..Len(messages) : ~Mentions(messages[j], s, p)
    => Says(messages[i], s, p) = value

\* Only what is streamed is on the wire, or was heard.
StreamedInv ==
  /\ heard \subseteq streamed \X Parts
  /\ \A s \in Symbols, p \in Parts : Mentioned(wire, s, p) => s \in streamed

\* What must become known of a quantity: that it was pushed, or, of the v5
\* positions, that there is none.
Due(s, p) == <<s, p>> \in heard \/ (feed = PositionsOf5 /\ held[s][p] = 0)

Settled(s, p) ==
  view[s][p] = held[s][p] \/ s \in spoiled \/ <<s, p>> \in lapsed

\* The last word on the wire is what the exchange has; what the wire does not
\* mention is settled.
ExactInv ==
  \A s \in Symbols, p \in Parts : Due(s, p) =>
    /\ LastWordIs(wire, s, p, held[s][p])
    /\ Mentioned(wire, s, p) \/ Settled(s, p)

VInv == ViewTypeOK /\ StreamedInv /\ ExactInv

-----------------------------------------------------------------------------
(* Dispatch *)

\* A field that decides, and is not behind another that does, is the first.
LEMMA FirstDecides ==
  ASSUME NEW keys, NEW passed, NEW f, Decides(keys, passed, f)
  PROVE  FirstOf(<<f>>, keys, passed) = f
<1> DEFINE deciding == {i \in DOMAIN <<f>> : Decides(keys, passed, <<f>>[i])}
<1>1. deciding = {1}
  OBVIOUS
<1>2. (CHOOSE i \in deciding : \A j \in deciding : i <= j) = 1
  BY <1>1
<1>3. QED
  BY <1>1, <1>2 DEF FirstOf

LEMMA FirstOfTwoDecides ==
  ASSUME NEW keys, NEW passed, NEW f, NEW g, Decides(keys, passed, f)
  PROVE  FirstOf(<<f, g>>, keys, passed) = f
<1> DEFINE deciding == {i \in DOMAIN <<f, g>> : Decides(keys, passed, <<f, g>>[i])}
<1>1. 1 \in deciding /\ \A i \in deciding : i \in {1, 2}
  OBVIOUS
<1>2. (CHOOSE i \in deciding : \A j \in deciding : i <= j) = 1
  <2>1. \A i \in deciding : (\A j \in deciding : i <= j) <=> i = 1
    BY <1>1
  <2>2. QED
    BY <1>1, <2>1
<1>3. QED
  BY <1>1, <1>2 DEF FirstOf

LEMMA SecondOfTwoDecides ==
  ASSUME NEW keys, NEW passed, NEW f, NEW g,
         ~Decides(keys, passed, f), Decides(keys, passed, g)
  PROVE  FirstOf(<<f, g>>, keys, passed) = g
<1> DEFINE deciding == {i \in DOMAIN <<f, g>> : Decides(keys, passed, <<f, g>>[i])}
<1>1. deciding = {2}
  OBVIOUS
<1>2. (CHOOSE i \in deciding : \A j \in deciding : i <= j) = 2
  BY <1>1
<1>3. QED
  BY <1>1, <1>2 DEF FirstOf

\* A message of the feed reaches the handler of its topic.
LEMMA FeedIsDispatched ==
  ASSUME feed \in Feeds, feed.topic # "none", NEW s, NEW event \in Events
  PROVE  Outcome(feed.socket, Written(s, event)) = feed.topic
<1>1. CASE Public
  <2> DEFINE ch == <<"market", s, feed.topic>>
  <2>1. Written(s, event) = Frame(FALSE, "none", FALSE, ch)
    BY <1>1 DEF Written
  <2>2. ch # <<>> /\ TopicOf(ch) = feed.topic
    BY DEF TopicOf
  <2>3. feed.topic \in Topics /\ feed.topic \notin Topics5
    BY <1>1 DEF Feeds, Public, Topics, Topics5
  <2>4. Parser(Written(s, event)) = feed.topic
    BY <2>1, <2>2, <2>3 DEF Parser, Frame, Known
  <2>5. feed.topic \notin Refused[feed.socket]
    BY <1>1 DEF Feeds, Public, Refused
  <2>6. QED
    BY <1>1, <2>4, <2>5 DEF Outcome, Public
<1>2. CASE feed.socket = "DropCopy5"
  <2> DEFINE f == Field("op", <<"notify">>)
             g == Field("topic", <<feed.topic>>)
  <2>1. Written(s, event) = <<f, g>>
    BY <1>2 DEF Written, Public
  <2>2. feed.topic \in {"account", "positions"}
    BY <1>2 DEF Feeds
  <2>3. FirstOf(<<f, g>>, {"op", "cid", "topic"}, {"notify"}) = g
    BY <2>2, SecondOfTwoDecides DEF Decides, Field
  <2>4. Parser5(<<f, g>>) = feed.topic
    BY <2>2, <2>3 DEF Parser5, HandlerOf, Field, Known, Topics5
  <2>5. QED
    BY <1>2, <2>1, <2>2, <2>4 DEF Outcome, Refused
<1>3. CASE feed.socket = "DropCopy1"
  <2>1. feed.topic \in Topics1
    BY <1>3 DEF Feeds
  <2>2. PICK words : /\ words \in {<<feed.topic>>, <<feed.topic, s>>}
                     /\ Written(s, event) =
                          <<Field("op", <<"notify">>), Field("topic", words)>>
    BY <1>3 DEF Written, Public
  <2> DEFINE f == Field("op", <<"notify">>)
             g == Field("topic", words)
  <2>3. words[1] = feed.topic
    BY <2>2
  <2>4. FirstOf(<<f, g>>, {"op", "topic"}, {"notify"}) = g
    BY <2>1, <2>3, SecondOfTwoDecides DEF Decides, Field, Topics1
  <2>5. TopicOf2(words) = feed.topic /\ feed.topic \in Topics2
    BY <2>1, <2>3 DEF TopicOf2, Topics1, Topics2
  <2>6. Parser2(<<f, g>>) = feed.topic
    BY <2>4, <2>5 DEF Parser2, HandlerOf, Field, Known
  <2>7. QED
    BY <1>3, <2>1, <2>2, <2>6 DEF Outcome, Refused, Topics1
<1>4. QED
  BY <1>1, <1>2, <1>3 DEF Feeds, Public

\* Nothing else that a socket is sent is refused or unknown.
LEMMA ChatterIsExpected ==
  ASSUME feed \in Feeds, NEW m \in Chatter
  PROVE  Outcome(feed.socket, m) # "fatal"
<1> DEFINE x == CHOOSE x \in Symbols : TRUE
           Control == {Frame(TRUE, "none", FALSE, <<>>),
                       Frame(FALSE, "error", FALSE, <<>>),
                       Frame(FALSE, "ok", TRUE, <<>>)}
           Named(op) == <<Field("op", <<op>>)>>
           Topical(op, t) == <<Field("op", <<op>>), Field("topic", t)>>
<1>1. ASSUME NEW c \in Control
      PROVE  Parser(c) \in {"ping", "error", "subbed"}
  BY DEF Parser, Frame
<1>2. ASSUME NEW topic \in Topics \ Topics5, NEW t, t[1] = topic,
             Len(<<"market", x>> \o t) >= 3, (<<"market", x>> \o t)[3] = topic
      PROVE  Parser(Frame(FALSE, "none", FALSE, <<"market", x>> \o t)) = topic
  <2>1. Len(<<>>) = 0
    OBVIOUS
  <2>2. <<"market", x>> \o t # <<>>
    BY <1>2, <2>1
  <2>3. QED
    BY <1>2, <2>2 DEF Parser, Frame, TopicOf, Known
<1>3. CASE feed.socket = "MarketData"
  <2>1. CASE m \in Control
    <3>1. Parser(m) \in {"ping", "error", "subbed"}
      BY <1>1, <2>1
    <3>2. QED
      BY <1>3, <3>1 DEF Outcome, Refused
  <2>2. CASE m \notin Control
    <3>1. PICK t \in {<<"bbo">>, <<"depth", "size_150", "high_freq">>,
                      <<"trade", "detail">>, <<"detail">>} :
            m = Frame(FALSE, "none", FALSE, <<"market", x>> \o t)
      BY <1>3, <2>2 DEF Chatter
    <3>2. /\ t[1] \in {"bbo", "depth", "trade", "detail"}
          /\ Len(<<"market", x>> \o t) >= 3 /\ (<<"market", x>> \o t)[3] = t[1]
      BY <3>1
    <3>3. Parser(m) = t[1]
      BY <3>1, <3>2, <1>2 DEF Topics, Topics5
    <3>4. QED
      BY <1>3, <3>2, <3>3 DEF Outcome, Refused
  <2>3. QED
    BY <2>1, <2>2
<1>4. CASE feed.socket = "WebSocket"
  <2>1. CASE m \in Control
    <3>1. Parser(m) \in {"ping", "error", "subbed"}
      BY <1>1, <2>1
    <3>2. QED
      BY <1>4, <3>1 DEF Outcome, Refused
  <2>2. CASE m \notin Control
    <3>1. PICK t \in {<<"basis", "1min", "open">>, <<"estimated_rate", "1min">>,
                      <<"index", "1min">>} :
            m = Frame(FALSE, "none", FALSE, <<"market", x>> \o t)
      BY <1>4, <2>2 DEF Chatter
    <3>2. /\ t[1] \in {"basis", "estimated_rate", "index"}
          /\ Len(<<"market", x>> \o t) >= 3 /\ (<<"market", x>> \o t)[3] = t[1]
      BY <3>1
    <3>3. Parser(m) = t[1]
      BY <3>1, <3>2, <1>2 DEF Topics, Topics5
    <3>4. QED
      BY <1>4, <3>2, <3>3 DEF Outcome, Refused
  <2>3. QED
    BY <2>1, <2>2
\* An operation, and a notification.
<1>5. ASSUME NEW keys, NEW passed, NEW w, "op" \in keys, w \notin passed
      PROVE  FirstOf(Named(w), keys, passed) = Field("op", <<w>>)
  <2>1. Decides(keys, passed, Field("op", <<w>>))
    BY <1>5 DEF Decides, Field
  <2>2. QED
    BY <2>1, FirstDecides
<1>6. ASSUME NEW keys, NEW t, {"op", "topic"} \subseteq keys, t[1] # "notify"
      PROVE  FirstOf(Topical("notify", t), keys, {"notify"}) = Field("topic", t)
  <2>1. ~Decides(keys, {"notify"}, Field("op", <<"notify">>))
    BY DEF Decides, Field
  <2>2. Decides(keys, {"notify"}, Field("topic", t))
    BY <1>6 DEF Decides, Field
  <2>3. QED
    BY <2>1, <2>2, SecondOfTwoDecides
<1>7. \A w \in Ops : \A other : HandlerOf(Field("op", <<w>>), other) = w
  BY DEF HandlerOf, Field, Ops
<1>8. \A key \in {"topic", "cid", "status"} : \A words, other :
        HandlerOf(Field(key, words), other) = other
  BY DEF HandlerOf, Field
<1>9. CASE feed.socket = "DropCopy5"
  <2> DEFINE keys == {"op", "cid", "topic"}
  <2>1. \/ \E w \in {"close", "error", "ping", "auth"} : m = Named(w)
        \/ \E t \in {<<t>> : t \in Topics5} : m = Topical("sub", t)
        \/ \E t \in {<<t>> : t \in Topics5} : m = Topical("notify", t)
    BY <1>9 DEF Chatter
  <2>2. ASSUME NEW w \in {"close", "error", "ping", "auth"}, m = Named(w)
        PROVE  Parser5(m) = w
    <3>1. FirstOf(m, keys, {"notify"}) = Field("op", <<w>>)
      BY <1>5, <2>2
    <3>2. QED
      BY <1>7, <3>1 DEF Parser5, Ops
  <2>3. ASSUME NEW t, m = Topical("sub", t)
        PROVE  Parser5(m) = "sub"
    <3>1. FirstOf(m, keys, {"notify"}) = Field("op", <<"sub">>)
      <4>1. Decides(keys, {"notify"}, Field("op", <<"sub">>))
        BY DEF Decides, Field
      <4>2. QED
        BY <2>3, <4>1, FirstOfTwoDecides
    <3>2. QED
      BY <1>7, <3>1 DEF Parser5, Ops
  <2>4. ASSUME NEW topic \in Topics5, m = Topical("notify", <<topic>>)
        PROVE  Parser5(m) = topic
    <3>1. topic # "notify" /\ <<topic>>[1] = topic
      BY DEF Topics5
    <3>2. FirstOf(m, keys, {"notify"}) = Field("topic", <<topic>>)
      BY <1>6, <2>4, <3>1
    <3>3. QED
      BY <1>8, <3>2, <3>1 DEF Parser5, Field, Known
  <2>5. Parser5(m) \in {"close", "error", "ping", "auth", "sub"} \cup Topics5
    BY <2>1, <2>2, <2>3, <2>4
  <2>6. QED
    BY <1>9, <2>5 DEF Outcome, Refused, Topics5
<1>10. CASE feed.socket = "DropCopy1"
  <2> DEFINE keys == {"op", "topic"}
             Own1 == Topics2 \ {"funding_rate"}
  <2>1. \/ \E w \in {"close", "error", "ping", "auth"} : m = Named(w)
        \/ \E t \in {<<t, "*">> : t \in Own1} : m = Topical("sub", t)
        \/ \E t \in {<<t, x>> : t \in Own1} : m = Topical("notify", t)
    BY <1>10 DEF Chatter
  <2>2. ASSUME NEW w \in {"close", "error", "ping", "auth"}, m = Named(w)
        PROVE  Parser2(m) = w
    <3>1. FirstOf(m, keys, {"notify"}) = Field("op", <<w>>)
      BY <1>5, <2>2
    <3>2. QED
      BY <1>7, <3>1 DEF Parser2, Ops
  <2>3. ASSUME NEW t, m = Topical("sub", t)
        PROVE  Parser2(m) = "sub"
    <3>1. FirstOf(m, keys, {"notify"}) = Field("op", <<"sub">>)
      <4>1. Decides(keys, {"notify"}, Field("op", <<"sub">>))
        BY DEF Decides, Field
      <4>2. QED
        BY <2>3, <4>1, FirstOfTwoDecides
    <3>2. QED
      BY <1>7, <3>1 DEF Parser2, Ops
  <2>4. ASSUME NEW topic \in Own1, m = Topical("notify", <<topic, x>>)
        PROVE  Parser2(m) = topic
    <3>1. topic # "notify" /\ topic # "public" /\ <<topic, x>>[1] = topic
      BY DEF Topics2
    <3>2. FirstOf(m, keys, {"notify"}) = Field("topic", <<topic, x>>)
      BY <1>6, <2>4, <3>1
    <3>3. QED
      BY <1>8, <3>2, <3>1 DEF Parser2, Field, Known, TopicOf2
  <2>5. Parser2(m) \in {"close", "error", "ping", "auth", "sub"} \cup Own1
    BY <2>1, <2>2, <2>3, <2>4
  <2>6. QED
    BY <1>10, <2>5 DEF Outcome, Refused, Topics2
<1>11. CASE feed.socket = "OrderEntryWS5"
  <2>1. \/ \E w \in {"close", "error", "ping", "auth"} : m = Named(w)
        \/ m = <<Field("cid", <<"id">>)>>
    BY <1>11 DEF Chatter
  <2>2. CASE m = <<Field("cid", <<"id">>)>>
    <3>1. Decides({"op", "cid", "topic"}, {"notify"}, Field("cid", <<"id">>))
      BY DEF Decides, Field
    <3>2. FirstOf(m, {"op", "cid", "topic"}, {"notify"}) = Field("cid", <<"id">>)
      BY <2>2, <3>1, FirstDecides
    <3>3. Parser5(m) = "response"
      BY <1>8, <3>2 DEF Parser5, Field
    <3>4. QED
      BY <1>11, <3>3 DEF Outcome, Refused, Topics5
  <2>3. ASSUME NEW w \in {"close", "error", "ping", "auth"}, m = Named(w)
        PROVE  Outcome(feed.socket, m) # "fatal"
    <3>1. FirstOf(m, {"op", "cid", "topic"}, {"notify"}) = Field("op", <<w>>)
      BY <1>5, <2>3
    <3>2. Parser5(m) = w
      BY <1>7, <3>1 DEF Parser5, Ops
    <3>3. QED
      BY <1>11, <3>2 DEF Outcome, Refused, Topics5
  <2>4. QED
    BY <2>1, <2>2, <2>3
<1>12. CASE feed.socket = "OrderEntryWS1"
  <2>1. \/ \E w \in {"close", "error", "ping", "auth"} : m = Named(w)
        \/ \E w \in {"ok", "error"} : m = <<Field("status", <<w>>)>>
    BY <1>12 DEF Chatter
  <2>2. ASSUME NEW w \in {"ok", "error"}, m = <<Field("status", <<w>>)>>
        PROVE  Outcome(feed.socket, m) # "fatal"
    <3>1. Decides({"op", "status"}, {"notify", "sub"}, Field("status", <<w>>))
      BY DEF Decides, Field
    <3>2. FirstOf(m, {"op", "status"}, {"notify", "sub"}) = Field("status", <<w>>)
      BY <2>2, <3>1, FirstDecides
    <3>3. Parser3(m) = "response"
      BY <1>8, <3>2 DEF Parser3, Field
    <3>4. QED
      BY <1>12, <3>3 DEF Outcome, Refused
  <2>3. ASSUME NEW w \in {"close", "error", "ping", "auth"}, m = Named(w)
        PROVE  Outcome(feed.socket, m) # "fatal"
    <3>1. FirstOf(m, {"op", "status"}, {"notify", "sub"}) = Field("op", <<w>>)
      BY <1>5, <2>3
    <3>2. Parser3(m) = w
      BY <1>7, <3>1 DEF Parser3, Ops
    <3>3. QED
      BY <1>12, <3>2 DEF Outcome, Refused
  <2>4. QED
    BY <2>1, <2>2, <2>3
<1>13. QED
  BY <1>3, <1>4, <1>9, <1>10, <1>11, <1>12 DEF Feeds

-----------------------------------------------------------------------------
(* Messages *)

LEMMA SetAsSequence ==
  ASSUME NEW S, IsFiniteSet(S)
  PROVE  /\ SetToSeq(S) \in Seq(S)
         /\ \A x \in S : \E i \in 1..Len(SetToSeq(S)) : SetToSeq(S)[i] = x
<1> DEFINE n == Cardinality(S)
<1>1. n \in Nat /\ ExistsBijection(1..n, S)
  BY FS_CardinalityType
<1>2. PICK b \in [1..n -> S] : IsInjective(b)
  BY <1>1 DEF ExistsBijection, Bijection, Injection, IsInjective
<1>3. SetToSeq(S) \in [1..n -> S] /\ IsInjective(SetToSeq(S))
  BY <1>2 DEF SetToSeq
<1>4. SetToSeq(S) \in Seq(S) /\ Len(SetToSeq(S)) = n
  BY <1>1, <1>3
<1>5. SetToSeq(S) \in Injection(1..n, S)
  BY <1>3 DEF Injection, IsInjective
<1>6. IsFiniteSet(1..n) /\ Cardinality(1..n) = n
  BY <1>1, FS_Interval
<1>7. SetToSeq(S) \in Surjection(1..n, S)
  BY <1>5, <1>6, FS_Injection
<1>8. QED
  BY <1>4, <1>7 DEF Surjection

\* The channel of a public message names its symbol.
LEMMA SymbolIsNamed ==
  ASSUME Public, NEW s, NEW event
  PROVE  SymbolOf(Written(s, event).ch) = s
BY DEF Written, Frame, SymbolOf

LEMMA DepthIsPublic == feed \in Feeds /\ feed.topic = "depth" => Public
BY DEF Feeds, Public, Topics1

\* A message about one symbol.
LEMMA ListedMessage ==
  ASSUME feed \in Feeds, feed.topic # "none", NEW s \in Symbols,
         NEW parts \in SUBSET Parts, NEW values \in [Parts -> Values],
         NEW event \in Events, feed.topic = "depth" => event # "init"
  PROVE  LET m == Message(s, event, Listed(s, parts, values))
         IN  /\ m \in Messages
             /\ m.event = event
             /\ DOMAIN m.items = {s} \X parts
             /\ \A p \in parts : m.items[<<s, p>>] = values[p]
             /\ \A x \in Symbols : Whole(m, x) <=>
                  feed.topic = "depth" /\ event = "snapshot" /\ x = s
<1> DEFINE items == Listed(s, parts, values)
           m == Message(s, event, items)
<1>1. /\ DOMAIN items = {s} \X parts
      /\ items \in [{s} \X parts -> Values]
      /\ \A p \in parts : items[<<s, p>>] = values[p]
  BY DEF Listed
<1>2. items \in Items
  BY <1>1 DEF Items
<1>3. Fits(s, event, items)
  BY <1>1 DEF Fits
<1>4. m.fields = Written(s, event) /\ m.event = event /\ m.items = items
  BY DEF Message
<1>5. m \in Messages
  BY <1>2, <1>3, <1>4 DEF Messages, Message
<1>6. \A x \in Symbols : Whole(m, x) <=>
         feed.topic = "depth" /\ event = "snapshot" /\ x = s
  BY <1>4, SymbolIsNamed, DepthIsPublic DEF Whole
<1>7. QED
  BY <1>1, <1>4, <1>5, <1>6

\* What a subscription begins with says what there is of all its symbols, but
\* of the v5 positions that there are none of.
LEMMA SnapshotsSayWhatIsHeld ==
  ASSUME ViewTypeOK, NEW symbols \in SUBSET Symbols, symbols # {}
  PROVE  LET new == Snapshots(symbols) IN
         /\ new \in Seq(Messages)
         /\ \A i \in 1..Len(new), s \in Symbols, p \in Parts :
              Mentions(new[i], s, p) =>
                s \in symbols /\ Says(new[i], s, p) = held[s][p]
         /\ new # <<>> => \A s \in symbols, p \in Parts :
              \/ \E i \in 1..Len(new) : Mentions(new[i], s, p)
              \/ feed = PositionsOf5 /\ held[s][p] = 0
<1> DEFINE new == Snapshots(symbols)
<1> SUFFICES /\ new \in Seq(Messages)
             /\ \A i \in 1..Len(new), s \in Symbols, p \in Parts :
                  Mentions(new[i], s, p) =>
                    s \in symbols /\ Says(new[i], s, p) = held[s][p]
             /\ new # <<>> => \A s \in symbols, p \in Parts :
                  \/ \E i \in 1..Len(new) : Mentions(new[i], s, p)
                  \/ feed = PositionsOf5 /\ held[s][p] = 0
  OBVIOUS
<1>1. CASE feed.topic = "depth" \/ feed = PositionsOf5
  <2> DEFINE There(s) == {p \in Parts : held[s][p] > 0}
             all == {Standing(s) : s \in symbols}
  <2>1. new = SetToSeq(all)
    <3>1. /\ feed.topic # "account"
          /\ ~(feed.topic \in Topics1 /\ feed.socket = "DropCopy1")
      BY <1>1 DEF Topics1, PositionsOf5
    <3>2. QED
      BY <1>1, <3>1 DEF Snapshots
  <2>2. IsFiniteSet(all)
    <3> DEFINE f == [s \in symbols |-> Standing(s)]
    <3>1. f \in Surjection(symbols, all)
      BY DEF Surjection
    <3>2. IsFiniteSet(symbols)
      BY SymbolsAssumption, FS_Subset
    <3> HIDE DEF f, all
    <3>3. QED
      BY <3>1, <3>2, FS_Surjection
  <2>3. ASSUME NEW s \in symbols
        PROVE  /\ Standing(s) \in Messages
               /\ Standing(s).event = "snapshot"
               /\ DOMAIN Standing(s).items = {s} \X There(s)
               /\ \A p \in There(s) : Standing(s).items[<<s, p>>] = held[s][p]
               /\ \A x \in Symbols :
                    Whole(Standing(s), x) <=> feed.topic = "depth" /\ x = s
    <3>1. feed \in Feeds /\ feed.topic # "none"
      BY <1>1 DEF ViewTypeOK, PositionsOf5
    <3>2. held[s] \in [Parts -> Values] /\ s \in Symbols
      BY DEF ViewTypeOK
    <3>3. "snapshot" \in Events
      BY DEF Events
    <3> DEFINE parts == There(s)
               values == held[s]
    <3>4. parts \in SUBSET Parts /\ values \in [Parts -> Values]
      BY <3>2
    <3>5. Standing(s) = Message(s, "snapshot", Listed(s, parts, values))
      BY DEF Standing
    <3> HIDE DEF parts, values
    <3>6. LET m == Message(s, "snapshot", Listed(s, parts, values))
          IN  /\ m \in Messages
              /\ m.event = "snapshot"
              /\ DOMAIN m.items = {s} \X parts
              /\ \A p \in parts : m.items[<<s, p>>] = values[p]
              /\ \A x \in Symbols : Whole(m, x) <=>
                   feed.topic = "depth" /\ "snapshot" = "snapshot" /\ x = s
      BY <3>1, <3>2, <3>3, <3>4, ListedMessage
    <3>7. QED
      BY <3>5, <3>6 DEF parts, values
  <2>4. all \subseteq Messages
    <3>1. QED
      BY <2>3
  <2>5. new \in Seq(all) /\ \A m \in all : \E i \in 1..Len(new) : new[i] = m
    <3> HIDE DEF all
    <3>1. QED
      BY <2>1, <2>2, SetAsSequence
  <2>6. new \in Seq(Messages)
    <3> HIDE DEF all, new
    <3>1. QED
      BY <2>4, <2>5, SeqMonotonic
  <2>7. ASSUME NEW s \in symbols, NEW x \in Symbols, NEW p \in Parts
        PROVE  Mentions(Standing(s), x, p) <=>
                 x = s /\ (held[s][p] > 0 \/ feed.topic = "depth")
    <3>1. QED
      BY <2>3 DEF Mentions
  <2>8. ASSUME NEW s \in symbols, NEW p \in Parts
        PROVE  Says(Standing(s), s, p) = held[s][p]
    <3>1. held[s][p] \in Nat
      BY ValuesAssumption DEF ViewTypeOK
    <3>2. <<s, p>> \in DOMAIN Standing(s).items <=> held[s][p] > 0
      BY <2>3
    <3>3. QED
      BY <2>3, <3>1, <3>2 DEF Says
  <2>9. \A i \in 1..Len(new) : \E s \in symbols : new[i] = Standing(s)
    <3>1. \A i \in 1..Len(new) : new[i] \in all
      <4> HIDE DEF all, new
      <4>1. QED
        BY <2>5, ElementOfSeq
    <3>2. QED
      BY <3>1
  <2>10. ASSUME NEW i \in 1..Len(new), NEW x \in Symbols, NEW p \in Parts,
                Mentions(new[i], x, p)
         PROVE  x \in symbols /\ Says(new[i], x, p) = held[x][p]
    <3> HIDE DEF new
    <3>1. PICK s \in symbols : new[i] = Standing(s)
      BY <2>9
    <3>2. x = s
      BY <2>7, <2>10, <3>1
    <3>3. QED
      BY <2>8, <3>1, <3>2
  <2>11. ASSUME NEW s \in symbols, NEW p \in Parts,
                ~(feed = PositionsOf5 /\ held[s][p] = 0)
         PROVE  \E i \in 1..Len(new) : Mentions(new[i], s, p)
    <3>1. held[s][p] \in Nat /\ s \in Symbols
      BY ValuesAssumption DEF ViewTypeOK
    <3>2. Mentions(Standing(s), s, p)
      BY <1>1, <2>7, <2>11, <3>1
    <3>3. \E i \in 1..Len(new) : new[i] = Standing(s)
      BY <2>5
    <3>4. QED
      BY <3>2, <3>3
  <2>12. QED
    <3> HIDE DEF new
    <3>1. QED
      BY <2>6, <2>10, <2>11
<1>2. CASE ~(feed.topic = "depth" \/ feed = PositionsOf5) /\ new # <<>>
  <2> DEFINE items == [k \in symbols \X Parts |-> held[k[1]][k[2]]]
             s == CHOOSE s \in symbols : TRUE
  <2>1. /\ feed \in Feeds /\ feed.topic # "none" /\ feed.topic # "depth"
        /\ ~Public
        /\ \E event \in Events : new = <<Message(s, event, items)>>
    BY <1>2 DEF Snapshots, Events, ViewTypeOK, Feeds, Public, Topics1
  <2>2. PICK event \in Events : new = <<Message(s, event, items)>>
    BY <2>1
  <2> DEFINE m == Message(s, event, items)
  <2>3. s \in Symbols
    OBVIOUS
  <2>4. /\ DOMAIN items = symbols \X Parts /\ items \in Items
        /\ \A x \in symbols, p \in Parts : items[<<x, p>>] = held[x][p]
    <3>1. \A k \in symbols \X Parts : held[k[1]][k[2]] \in Values
      BY DEF ViewTypeOK
    <3>2. items \in [symbols \X Parts -> Values]
      BY <3>1
    <3>3. symbols \X Parts \in SUBSET (Symbols \X Parts)
      OBVIOUS
    <3>4. items \in Items
      BY <3>2, <3>3 DEF Items
    <3>5. QED
      BY <3>4
  <2>5. /\ m.fields = Written(s, event) /\ m.event = event /\ m.items = items
        /\ m \in [fields : {Written(s, event)}, event : Events, items : Items]
    BY <2>4 DEF Message
  <2>6. Fits(s, event, items)
    BY <2>1 DEF Fits
  <2>7. m \in Messages
    <3> HIDE DEF m, s
    <3>1. Written(s, event) \in {Written(x, e) : x \in Symbols, e \in Events}
      BY <2>3
    <3>2. m \in [fields : {Written(x, e) : x \in Symbols, e \in Events},
                 event : Events, items : Items]
      BY <2>5, <3>1
    <3>3. QED
      BY <2>3, <2>5, <2>6, <3>2 DEF Messages
  <2>8. /\ new \in Seq(Messages) /\ Len(new) = 1 /\ new[1] = m
    BY <2>2, <2>7
  <2>9. \A x \in Symbols, p \in Parts :
          /\ Mentions(m, x, p) <=> x \in symbols
          /\ x \in symbols => Says(m, x, p) = held[x][p]
    BY <2>1, <2>4, <2>5 DEF Mentions, Says, Whole
  <2>10. QED
    <3> HIDE DEF new, m
    <3>1. QED
      BY <2>8, <2>9
<1>3. CASE new = <<>>
  <2>1. new \in Seq(Messages) /\ Len(new) = 0
    BY <1>3
  <2>2. QED
    BY <1>3, <2>1
<1>4. QED
  BY <1>1, <1>2, <1>3

-----------------------------------------------------------------------------
(* Handlers *)

\* A buffer filled from a message about one symbol replaces what it lists.
LEMMA SeenFilled ==
  ASSUME NEW s \in Symbols, NEW items \in Items, DOMAIN items \subseteq {s} \X Parts,
         NEW old \in [Parts -> Values]
  PROVE  Seen(old, Filled(items)) =
           [p \in Parts |-> IF <<s, p>> \in DOMAIN items THEN items[<<s, p>>]
                                                         ELSE old[p]]
<1> DEFINE D == DOMAIN items
           listed == {k[2] : k \in D}
<1>1. \A k \in D : k = <<s, k[2]>> /\ k[2] \in Parts
  OBVIOUS
<1>2. items \in [D -> Values]
  BY DEF Items
<1> HIDE DEF D
<1>3. \A p \in Parts : p \in listed <=> <<s, p>> \in D
  BY <1>1
<1>4. ASSUME NEW p \in Parts, <<s, p>> \in D
      PROVE  (CHOOSE k \in D : k[2] = p) = <<s, p>>
  <2>1. \A k \in D : k[2] = p <=> k = <<s, p>>
    BY <1>1
  <2>2. QED
    BY <1>4, <2>1
<1>5. Filled(items) = [p \in listed |-> items[CHOOSE k \in D : k[2] = p]]
  BY DEF Filled, D
<1> HIDE DEF listed
<1>6. ASSUME NEW p \in Parts, <<s, p>> \in D
      PROVE  Filled(items)[p] = items[<<s, p>>] /\ items[<<s, p>>] # NaN
  <2>1. Filled(items)[p] = items[<<s, p>>]
    BY <1>3, <1>4, <1>5, <1>6
  <2>2. items[<<s, p>>] \in Nat
    BY <1>2, <1>6, ValuesAssumption
  <2>3. QED
    BY <2>1, <2>2 DEF NaN
<1>7. DOMAIN Filled(items) = listed
  BY <1>5
<1> HIDE DEF D
<1>8. \A p \in Parts :
        (IF p \notin DOMAIN Filled(items) THEN old[p]
         ELSE IF Filled(items)[p] = NaN THEN old[p] ELSE Filled(items)[p])
        = IF <<s, p>> \in D THEN items[<<s, p>>] ELSE old[p]
  BY <1>3, <1>6, <1>7
<1>9. QED
  BY <1>8 DEF Seen, D

\* Updates that each say something about the quantity of their key.
LEMMA ItemsTold ==
  ASSUME ViewTypeOK, NEW items \in Items,
         NEW updates, DOMAIN updates = DOMAIN items,
         \A k \in DOMAIN items, p \in Parts :
           /\ p = k[2] => p \in DOMAIN updates[k] /\ updates[k][p] = items[k]
           /\ p # k[2] /\ p \in DOMAIN updates[k] => updates[k][p] = NaN,
         TellItems(updates)
  PROVE  /\ view' = [s \in Symbols |-> [p \in Parts |->
              IF <<s, p>> \in DOMAIN items THEN items[<<s, p>>] ELSE view[s][p]]]
         /\ spoiled' = spoiled
<1> DEFINE D == DOMAIN items
           telling(s, p) == {k \in DOMAIN updates :
                               /\ k[1] = s /\ p \in DOMAIN updates[k]
                               /\ updates[k][p] # NaN}
<1>1. items \in [D -> Values] /\ D \subseteq Symbols \X Parts
  BY DEF Items
<1>2. \A k \in D : items[k] # NaN
  BY <1>1, ValuesAssumption DEF NaN
<1>3. ASSUME NEW s \in Symbols, NEW p \in Parts
      PROVE  telling(s, p) = IF <<s, p>> \in D THEN {<<s, p>>} ELSE {}
  <2>1. \A k \in D : k = <<k[1], k[2]>> /\ k[1] \in Symbols /\ k[2] \in Parts
    BY <1>1
  <2>2. \A k \in D : (k[1] = s /\ p \in DOMAIN updates[k] /\ updates[k][p] # NaN)
                       <=> k = <<s, p>>
    BY <1>2, <2>1
  <2>3. QED
    BY <2>2
<1>4. ASSUME NEW s \in Symbols, NEW p \in Parts
      PROVE  (IF telling(s, p) = {} THEN view[s][p]
              ELSE updates[CHOOSE k \in telling(s, p) : TRUE][p])
             = IF <<s, p>> \in D THEN items[<<s, p>>] ELSE view[s][p]
  <2>1. CASE <<s, p>> \in D
    <3>1. telling(s, p) = {<<s, p>>}
      BY <1>3, <2>1
    <3> HIDE DEF telling
    <3>2. (CHOOSE k \in telling(s, p) : TRUE) = <<s, p>>
      BY <3>1
    <3>3. updates[<<s, p>>][p] = items[<<s, p>>]
      BY <2>1
    <3>4. QED
      BY <2>1, <3>1, <3>2, <3>3
  <2>2. CASE <<s, p>> \notin D
    <3>1. telling(s, p) = {}
      BY <1>3, <2>2
    <3> HIDE DEF telling
    <3>2. QED
      BY <2>2, <3>1
  <2>3. QED
    BY <2>1, <2>2
<1>5. view' = [s \in Symbols |-> [p \in Parts |->
                 IF telling(s, p) = {} THEN view[s][p]
                 ELSE updates[CHOOSE k \in telling(s, p) : TRUE][p]]]
  BY DEF TellItems
<1> DEFINE old(s, p) == IF telling(s, p) = {} THEN view[s][p]
                        ELSE updates[CHOOSE k \in telling(s, p) : TRUE][p]
           new(s, p) == IF <<s, p>> \in D THEN items[<<s, p>>] ELSE view[s][p]
<1>6. \A s \in Symbols, p \in Parts : old(s, p) = new(s, p)
  BY <1>4
<1>7. view' = [s \in Symbols |-> [p \in Parts |-> old(s, p)]]
  BY <1>5
<1>8. view' = [s \in Symbols |-> [p \in Parts |-> new(s, p)]]
  <2> HIDE DEF old, new
  <2>1. QED
    BY <1>6, <1>7
<1>9. QED
  BY <1>8 DEF TellItems

\* What a message mentions is seen as it says, unless the book refuses it;
\* nothing else is touched.
LEMMA MessageIsTold ==
  ASSUME ViewTypeOK, Receive, NEW m, m = Head(wire)
  PROVE  /\ view' \in [Symbols -> [Parts -> Values]]
         /\ spoiled' \subseteq Symbols
         /\ fatal' = FALSE
         /\ \A s \in Symbols, p \in Parts :
              IF Mentions(m, s, p)
                THEN view'[s][p] = Says(m, s, p) \/ s \in spoiled'
                ELSE /\ view'[s][p] = view[s][p]
                     /\ s \in spoiled => s \in spoiled'
<1> DEFINE items == m.items
<1>1. m \in Messages
  BY HeadTailProperties DEF ViewTypeOK, Receive
<1>2. feed \in Feeds
  BY DEF ViewTypeOK
<1>3. PICK s \in Symbols : m.fields = Written(s, m.event) /\ Fits(s, m.event, items)
  BY <1>1 DEF Messages
<1>4. items \in Items /\ m.event \in Events /\ feed.topic # "none"
  BY <1>1, <1>3 DEF Messages, Fits
<1>5. Outcome(feed.socket, m.fields) = feed.topic
  BY <1>2, <1>3, <1>4, FeedIsDispatched
<1>6. fatal' = FALSE
  <2>1. feed.topic # "fatal"
    BY <1>2 DEF Feeds, Topics1
  <2>2. QED
    BY <1>5, <2>1 DEF Receive
<1>7. CASE Public
  <2>1. SymbolOf(m.fields.ch) = s
    BY <1>3, <1>7, SymbolIsNamed
  <2>2. DOMAIN items \subseteq {s} \X Parts
    BY <1>3, <1>7 DEF Fits
  <2> DEFINE Merged(old) == Seen(old, Filled(items))
  <2>3. items \in [DOMAIN items -> Values]
    BY <1>4 DEF Items
  <2>4. ASSUME NEW old \in [Parts -> Values]
        PROVE  /\ Merged(old) \in [Parts -> Values]
               /\ \A p \in Parts : Merged(old)[p] =
                    IF <<s, p>> \in DOMAIN items THEN items[<<s, p>>] ELSE old[p]
    <3> DEFINE Value(p) == IF <<s, p>> \in DOMAIN items THEN items[<<s, p>>] ELSE old[p]
    <3>1. Merged(old) = [p \in Parts |-> Value(p)]
      BY <1>4, <2>2, SeenFilled
    <3>2. \A p \in Parts : Value(p) \in Values
      BY <2>3
    <3> HIDE DEF Merged
    <3>3. Merged(old) \in [Parts -> Values] /\ \A p \in Parts : Merged(old)[p] = Value(p)
      <4> HIDE DEF Value
      <4>1. QED
        BY <3>1, <3>2
    <3>4. QED
      BY <3>3
  <2>5. ASSUME NEW old \in [Parts -> Values],
               view' = [view EXCEPT ![s] = Merged(old)]
        PROVE  /\ view' \in [Symbols -> [Parts -> Values]]
               /\ \A x \in Symbols, p \in Parts :
                    view'[x][p] = IF x # s THEN view[x][p]
                                  ELSE IF <<s, p>> \in DOMAIN items
                                    THEN items[<<s, p>>] ELSE old[p]
    <3> HIDE DEF Merged
    <3>1. view \in [Symbols -> [Parts -> Values]]
      BY DEF ViewTypeOK
    <3>2. \A x \in Symbols : view'[x] = IF x = s THEN Merged(old) ELSE view[x]
      BY <2>5, <3>1
    <3>3. view' \in [Symbols -> [Parts -> Values]]
      BY <2>4, <2>5, <3>1
    <3>4. QED
      BY <2>4, <3>2, <3>3
  <2>6. CASE feed.topic # "depth"
    <3>1. /\ view' = [view EXCEPT ![s] = Seen(view[s], Filled(items))]
          /\ spoiled' = spoiled
      <4>1. feed.topic \in {"bbo", "trade", "detail", "index"}
        BY <1>2, <1>7, <2>6 DEF Feeds, Public
      <4>2. CASE feed.topic = "trade"
        <5>1. TellTrades(m)
          BY <1>5, <4>2 DEF Receive
        <5>2. QED
          BY <5>1, <2>1 DEF TellTrades
      <4>3. CASE feed.topic # "trade"
        <5>1. TellSymbol(m)
          BY <1>5, <4>1, <4>3 DEF Receive
        <5>2. QED
          BY <5>1, <2>1 DEF TellSymbol
      <4>4. QED
        BY <4>2, <4>3
    <3>2. \A x \in Symbols, p \in Parts :
            Mentions(m, x, p) <=> x = s /\ <<s, p>> \in DOMAIN items
      BY <2>2, <2>6 DEF Mentions, Whole
    <3>3. view[s] \in [Parts -> Values]
      BY DEF ViewTypeOK
    <3>4. /\ view' \in [Symbols -> [Parts -> Values]]
          /\ \A x \in Symbols, p \in Parts :
               view'[x][p] = IF x = s /\ <<s, p>> \in DOMAIN items
                               THEN items[<<s, p>>] ELSE view[x][p]
      <4> HIDE DEF items
      <4>1. QED
        BY <2>5, <3>1, <3>3
    <3>5. QED
      BY <1>6, <3>1, <3>2, <3>4 DEF Says, ViewTypeOK
  <2>7. CASE feed.topic = "depth"
    <3> DEFINE book == IF UpdateType(m.event) = "SNAPSHOT" THEN Nothing[s]
                                                           ELSE view[s]
    <3>1. TellBook(m)
      BY <1>5, <2>7 DEF Receive
    <3>2. m.event \in {"snapshot", "update"}
      BY <1>3, <1>4, <2>7 DEF Fits, Events
    <3>3. /\ book \in [Parts -> Values]
          /\ \A p \in Parts : book[p] = IF m.event = "snapshot" THEN 0 ELSE view[s][p]
      BY <3>2, ValuesAssumption DEF UpdateType, Nothing, ViewTypeOK
    <3>4. \A x \in Symbols, p \in Parts : Mentions(m, x, p) <=>
            x = s /\ (<<s, p>> \in DOMAIN items \/ m.event = "snapshot")
      BY <2>1, <2>2, <2>7 DEF Mentions, Whole
    <3>5. CASE /\ view' = [view EXCEPT ![s] = Seen(book, Filled(items))]
               /\ spoiled' = IF m.event = "snapshot" THEN spoiled \ {s} ELSE spoiled
      <4> HIDE DEF book, items
      <4>1. /\ view' \in [Symbols -> [Parts -> Values]]
            /\ \A x \in Symbols, p \in Parts :
                 view'[x][p] = IF x # s THEN view[x][p]
                               ELSE IF <<s, p>> \in DOMAIN items
                                 THEN items[<<s, p>>] ELSE book[p]
        BY <2>5, <3>3, <3>5
      <4>2. QED
        BY <1>6, <3>3, <3>4, <3>5, <4>1 DEF Says, ViewTypeOK, items
    <3>6. CASE /\ m.event = "update"
               /\ spoiled' = spoiled \cup {s}
               /\ UNCHANGED view
      BY <1>6, <3>4, <3>6 DEF ViewTypeOK
    <3>7. QED
      BY <2>1, <3>1, <3>5, <3>6 DEF TellBook
  <2>8. QED
    BY <2>6, <2>7
<1>8. CASE ~Public
  <2>1. \A x \in Symbols, p \in Parts : Mentions(m, x, p) <=> <<x, p>> \in DOMAIN items
    BY <1>2, <1>8, DepthIsPublic DEF Mentions, Whole
  <2>2. /\ view' = [x \in Symbols |-> [p \in Parts |->
              IF <<x, p>> \in DOMAIN items THEN items[<<x, p>>] ELSE view[x][p]]]
        /\ spoiled' = spoiled
    <3> DEFINE funds == [k \in DOMAIN items |-> [p \in {k[2]} |-> items[k]]]
               positions == [k \in DOMAIN items |-> PositionUpdate(k[2], items[k])]
    <3>1. CASE feed.topic \in {"positions", "positions_cross"}
      <4>1. TellPositions(m)
        BY <1>5, <3>1 DEF Receive
      <4>2. Parts = {"BUY", "SELL"}
        BY <3>1 DEF Parts
      <4>3. \A k \in DOMAIN items, p \in Parts :
              /\ p = k[2] => p \in DOMAIN positions[k] /\ positions[k][p] = items[k]
              /\ p # k[2] /\ p \in DOMAIN positions[k] => positions[k][p] = NaN
        BY <4>2 DEF PositionUpdate
      <4>4. DOMAIN positions = DOMAIN items /\ TellItems(positions)
        BY <4>1 DEF TellPositions
      <4> HIDE DEF positions
      <4>5. QED
        BY <1>4, <4>3, <4>4, ItemsTold
    <3>2. CASE feed.topic \notin {"positions", "positions_cross"}
      <4>1. feed.topic \notin {"bbo", "trade", "detail", "index", "depth"}
        BY <1>2, <1>8 DEF Feeds, Public, Topics1
      <4>2. TellFunds(m)
        BY <1>5, <3>2, <4>1 DEF Receive
      <4>3. \A k \in DOMAIN items, p \in Parts :
              /\ p = k[2] => p \in DOMAIN funds[k] /\ funds[k][p] = items[k]
              /\ p # k[2] /\ p \in DOMAIN funds[k] => funds[k][p] = NaN
        OBVIOUS
      <4>4. DOMAIN funds = DOMAIN items /\ TellItems(funds)
        BY <4>2 DEF TellFunds
      <4> HIDE DEF funds
      <4>5. QED
        BY <1>4, <4>3, <4>4, ItemsTold
    <3>3. QED
      BY <3>1, <3>2
  <2>3. items \in [DOMAIN items -> Values]
    BY <1>4 DEF Items
  <2>4. view' \in [Symbols -> [Parts -> Values]]
    BY <2>2, <2>3 DEF ViewTypeOK
  <2>5. QED
    BY <1>6, <2>1, <2>2, <2>4 DEF Says, ViewTypeOK
<1>9. QED
  BY <1>7, <1>8

-----------------------------------------------------------------------------
(* The wire *)

LEMMA LastWordOfTail ==
  ASSUME NEW S, NEW w \in Seq(S), w # <<>>, NEW s, NEW p, NEW value,
         LastWordIs(w, s, p, value)
  PROVE  /\ LastWordIs(Tail(w), s, p, value)
         /\ Mentioned(Tail(w), s, p) => Mentioned(w, s, p)
         /\ Mentioned(w, s, p) /\ ~Mentioned(Tail(w), s, p) =>
              Mentions(Head(w), s, p) /\ Says(Head(w), s, p) = value
<1> DEFINE M(m) == Mentions(m, s, p)
<1>1. /\ Len(w) \in Nat \ {0} /\ Len(Tail(w)) = Len(w) - 1 /\ Head(w) = w[1]
      /\ \A i \in 1..Len(Tail(w)) : Tail(w)[i] = w[i + 1]
  BY HeadTailProperties, EmptySeq
<1>2. ASSUME NEW i \in 1..Len(Tail(w)), M(Tail(w)[i]),
             \A j \in (i + 1)..Len(Tail(w)) : ~M(Tail(w)[j])
      PROVE  Says(Tail(w)[i], s, p) = value
  <2>1. i + 1 \in 1..Len(w) /\ M(w[i + 1]) /\ Tail(w)[i] = w[i + 1]
    BY <1>1, <1>2
  <2>2. \A j \in (i + 2)..Len(w) : ~M(w[j])
    <3> SUFFICES ASSUME NEW j \in (i + 2)..Len(w)
                 PROVE  ~M(w[j])
      OBVIOUS
    <3>1. j - 1 \in (i + 1)..Len(Tail(w)) /\ Tail(w)[j - 1] = w[j]
      BY <1>1
    <3>2. QED
      BY <1>2, <3>1
  <2>3. QED
    BY <2>1, <2>2 DEF LastWordIs
<1>3. ASSUME NEW i \in 1..Len(Tail(w)), M(Tail(w)[i])
      PROVE  Mentioned(w, s, p)
  BY <1>1, <1>3 DEF Mentioned
<1>4. ASSUME NEW i \in 1..Len(w), M(w[i]), ~Mentioned(Tail(w), s, p)
      PROVE  M(Head(w)) /\ Says(Head(w), s, p) = value
  <2>1. \A j \in 2..Len(w) : ~M(w[j])
    <3> SUFFICES ASSUME NEW j \in 2..Len(w)
                 PROVE  ~M(w[j])
      OBVIOUS
    <3>1. j - 1 \in 1..Len(Tail(w)) /\ Tail(w)[j - 1] = w[j]
      BY <1>1
    <3>2. QED
      BY <1>4, <3>1 DEF Mentioned
  <2>2. i = 1
    BY <1>1, <1>4, <2>1
  <2>3. QED
    BY <1>1, <1>4, <2>1, <2>2 DEF LastWordIs
<1>5. QED
  BY <1>2, <1>3, <1>4 DEF LastWordIs, Mentioned

LEMMA MentionedInConcat ==
  ASSUME NEW S, NEW w \in Seq(S), NEW new \in Seq(S), NEW s, NEW p
  PROVE  Mentioned(w \o new, s, p) <=> Mentioned(w, s, p) \/ Mentioned(new, s, p)
<1> DEFINE all == w \o new
<1>1. /\ Len(w) \in Nat /\ Len(new) \in Nat
      /\ \A i \in 1..Len(w) : i \in 1..Len(all) /\ all[i] = w[i]
      /\ \A i \in 1..Len(new) : i + Len(w) \in 1..Len(all) /\ all[i + Len(w)] = new[i]
      /\ \A i \in 1..Len(all) :
           \/ i \in 1..Len(w) /\ all[i] = w[i]
           \/ i - Len(w) \in 1..Len(new) /\ all[i] = new[i - Len(w)]
  BY ConcatProperties, LenProperties
<1> HIDE DEF all
<1>2. QED
  BY <1>1 DEF Mentioned, all

LEMMA LastWordOfConcat ==
  ASSUME NEW S, NEW w \in Seq(S), NEW new \in Seq(S), NEW s, NEW p, NEW value,
         \A i \in 1..Len(new) :
           Mentions(new[i], s, p) => Says(new[i], s, p) = value,
         ~Mentioned(new, s, p) => LastWordIs(w, s, p, value)
  PROVE  LastWordIs(w \o new, s, p, value)
<1> DEFINE M(m) == Mentions(m, s, p)
           all == w \o new
<1>1. /\ Len(w) \in Nat /\ Len(new) \in Nat /\ Len(all) = Len(w) + Len(new)
      /\ \A i \in 1..Len(w) : i \in 1..Len(all) /\ all[i] = w[i]
      /\ \A i \in 1..Len(new) : i + Len(w) \in 1..Len(all) /\ all[i + Len(w)] = new[i]
      /\ \A i \in 1..Len(all) : i > Len(w) =>
           i - Len(w) \in 1..Len(new) /\ all[i] = new[i - Len(w)]
  BY ConcatProperties, LenProperties
<1> HIDE DEF all
<1>2. ASSUME NEW i \in 1..Len(all), M(all[i]),
             \A j \in (i + 1)..Len(all) : ~M(all[j])
      PROVE  Says(all[i], s, p) = value
  <2>1. CASE i > Len(w)
    BY <1>1, <1>2, <2>1
  <2>2. CASE i <= Len(w)
    <3>1. i \in 1..Len(w) /\ all[i] = w[i]
      BY <1>1, <2>2
    <3>2. ~Mentioned(new, s, p)
      <4> SUFFICES ASSUME NEW k \in 1..Len(new)
                   PROVE  ~M(new[k])
        BY DEF Mentioned
      <4>1. k + Len(w) \in (i + 1)..Len(all) /\ all[k + Len(w)] = new[k]
        BY <1>1, <3>1
      <4>2. QED
        BY <1>2, <4>1
    <3>3. \A j \in (i + 1)..Len(w) : ~M(w[j])
      BY <1>1, <1>2
    <3>4. QED
      BY <1>2, <3>1, <3>2, <3>3 DEF LastWordIs
  <2>3. QED
    BY <1>1, <2>1, <2>2
<1>3. QED
  BY <1>2 DEF LastWordIs, all

-----------------------------------------------------------------------------
(* Steps.  The feed never changes, so what depends on it alone does not. *)

LEMMA FeedStays ==
  ASSUME feed' = feed
  PROVE  Parts' = Parts /\ Messages' = Messages
<1>1. Parts' = Parts
  BY DEF Parts
<1>2. Items' = Items
  BY <1>1 DEF Items
<1>3. Public' <=> Public
  BY DEF Public
<1>4. \A s, event : Written(s, event)' = Written(s, event)
  BY <1>3 DEF Written
<1>5. \A s, event, items : Fits(s, event, items)' <=> Fits(s, event, items)
  BY <1>1, <1>3 DEF Fits
<1>6. Messages' = Messages
  BY <1>2, <1>4, <1>5 DEF Messages
<1>7. QED
  BY <1>1, <1>6

LEMMA StreamedPrimed ==
  ASSUME feed' = feed,
         heard' \subseteq streamed' \X Parts,
         \A s \in Symbols, p \in Parts : Mentioned(wire', s, p) => s \in streamed'
  PROVE  StreamedInv'
BY FeedStays DEF StreamedInv, Mentioned, Mentions, Whole

LEMMA ExactPrimed ==
  ASSUME feed' = feed,
         \A s \in Symbols, p \in Parts :
           <<s, p>> \in heard' \/ (feed = PositionsOf5 /\ held'[s][p] = 0) =>
             /\ LastWordIs(wire', s, p, held'[s][p])
             /\ \/ Mentioned(wire', s, p)
                \/ view'[s][p] = held'[s][p] \/ s \in spoiled' \/ <<s, p>> \in lapsed'
  PROVE  ExactInv'
<1>1. Parts' = Parts
  BY FeedStays
<1>2. ASSUME NEW s \in Symbols, NEW p \in Parts
      PROVE  /\ Due(s, p)' <=>
                  <<s, p>> \in heard' \/ (feed = PositionsOf5 /\ held'[s][p] = 0)
             /\ Settled(s, p)' <=>
                  view'[s][p] = held'[s][p] \/ s \in spoiled' \/ <<s, p>> \in lapsed'
  BY DEF Due, Settled, PositionsOf5
<1>3. ASSUME NEW s \in Symbols, NEW p \in Parts
      PROVE  Mentioned(wire, s, p)' <=> Mentioned(wire', s, p)
  BY DEF Mentioned, Mentions, Whole
<1>4. ASSUME NEW s \in Symbols, NEW p \in Parts
      PROVE  LastWordIs(wire, s, p, held[s][p])'
               <=> LastWordIs(wire', s, p, held'[s][p])
  BY DEF LastWordIs, Mentions, Says, Whole
<1>5. QED
  BY <1>1, <1>2, <1>3, <1>4 DEF ExactInv

LEMMA TypePrimed ==
  ASSUME ViewTypeOK, feed' = feed, up' \in BOOLEAN,
         asked' \subseteq Symbols, streamed' \subseteq Symbols,
         held' \in [Symbols -> [Parts -> Values]],
         view' \in [Symbols -> [Parts -> Values]],
         wire' \in Seq(Messages), spoiled' \subseteq Symbols,
         lapsed' \subseteq Symbols \X Parts
  PROVE  ViewTypeOK'
BY FeedStays DEF ViewTypeOK

LEMMA InitEstablishesVInv == Init => VInv /\ NothingUnexpected
<1> SUFFICES ASSUME Init
             PROVE  VInv /\ NothingUnexpected
  OBVIOUS
<1>1. Nothing \in [Symbols -> [Parts -> Values]]
  BY ValuesAssumption DEF Nothing
<1>2. ViewTypeOK
  <2>1. <<>> \in Seq(Messages)
    OBVIOUS
  <2>2. QED
    BY <1>1, <2>1 DEF Init, ViewTypeOK
<1>3. Len(wire) = 0
  BY DEF Init
<1>4. QED
  BY <1>2, <1>3 DEF Init, VInv, StreamedInv, ExactInv, Mentioned, LastWordIs, Settled,
                    Due, NothingUnexpected

LEMMA StutteringKeepsVInv == VInv /\ UNCHANGED vars => VInv'
<1> SUFFICES ASSUME VInv, UNCHANGED vars
             PROVE  VInv'
  OBVIOUS
<1> USE DEF VInv, vars
<1>1. feed' = feed
  OBVIOUS
<1>2. ViewTypeOK'
  BY <1>1, TypePrimed DEF ViewTypeOK
<1>3. StreamedInv'
  BY <1>1, StreamedPrimed DEF StreamedInv
<1>4. ExactInv'
  BY <1>1, ExactPrimed DEF ExactInv, Due, Settled
<1>5. QED
  BY <1>2, <1>3, <1>4

LEMMA ConnectedKeepsVInv == VInv /\ Connected => VInv'
<1> SUFFICES ASSUME VInv, Connected
             PROVE  VInv'
  OBVIOUS
<1> USE DEF VInv, Connected
<1>1. feed' = feed
  OBVIOUS
<1>2. ViewTypeOK'
  BY <1>1, TypePrimed DEF ViewTypeOK
<1>3. StreamedInv'
  BY <1>1, StreamedPrimed DEF StreamedInv
<1>4. ExactInv'
  BY <1>1, ExactPrimed DEF ExactInv, Due, Settled
<1>5. QED
  BY <1>2, <1>3, <1>4

LEMMA OtherMessageKeepsVInv ==
  ASSUME VInv, NEW message \in Chatter, ReceiveOther(message)
  PROVE  VInv' /\ NothingUnexpected'
<1> USE DEF VInv, ReceiveOther
<1>1. feed' = feed
  OBVIOUS
<1>2. ViewTypeOK'
  BY <1>1, TypePrimed DEF ViewTypeOK
<1>3. StreamedInv'
  BY <1>1, StreamedPrimed DEF StreamedInv
<1>4. ExactInv'
  BY <1>1, ExactPrimed DEF ExactInv, Due, Settled
<1>5. NothingUnexpected'
  BY ChatterIsExpected DEF ViewTypeOK, NothingUnexpected
<1>6. QED
  BY <1>2, <1>3, <1>4, <1>5

LEMMA ReceiveKeepsVInv == VInv /\ Receive => VInv' /\ NothingUnexpected'
<1> SUFFICES ASSUME VInv, Receive
             PROVE  VInv' /\ NothingUnexpected'
  OBVIOUS
<1> DEFINE m == Head(wire)
<1>1. ViewTypeOK /\ StreamedInv /\ ExactInv
  BY DEF VInv
<1>2. /\ wire \in Seq(Messages) /\ wire # <<>> /\ wire' = Tail(wire)
      /\ lapsed' = lapsed \ DOMAIN m.items
      /\ feed' = feed /\ up' = up /\ asked' = asked /\ streamed' = streamed
      /\ held' = held /\ heard' = heard
  BY <1>1 DEF Receive, ViewTypeOK
<1>3. /\ view' \in [Symbols -> [Parts -> Values]]
      /\ spoiled' \subseteq Symbols
      /\ fatal' = FALSE
      /\ \A s \in Symbols, p \in Parts :
           IF Mentions(m, s, p)
             THEN view'[s][p] = Says(m, s, p) \/ s \in spoiled'
             ELSE /\ view'[s][p] = view[s][p]
                  /\ s \in spoiled => s \in spoiled'
  BY <1>1, MessageIsTold
<1>4. ViewTypeOK'
  <2>1. wire' \in Seq(Messages)
    BY <1>2, HeadTailProperties
  <2>2. QED
    BY <1>1, <1>2, <1>3, <2>1, TypePrimed DEF ViewTypeOK
<1>5. \A s \in Symbols, p \in Parts : \A value :
        LastWordIs(wire, s, p, value) =>
          /\ LastWordIs(wire', s, p, value)
          /\ Mentioned(wire, s, p) /\ ~Mentioned(wire', s, p) =>
               Mentions(m, s, p) /\ Says(m, s, p) = value
  BY <1>2, LastWordOfTail
<1>6. \A s \in Symbols, p \in Parts : Mentioned(wire', s, p) => Mentioned(wire, s, p)
  <2>1. /\ Len(wire) \in Nat \ {0} /\ Len(wire') = Len(wire) - 1
        /\ \A i \in 1..Len(wire') : i + 1 \in 1..Len(wire) /\ wire'[i] = wire[i + 1]
    BY <1>2, HeadTailProperties, EmptySeq
  <2>2. QED
    BY <2>1 DEF Mentioned
<1>7. StreamedInv'
  BY <1>1, <1>2, <1>6, StreamedPrimed DEF StreamedInv
<1>8. ASSUME NEW s \in Symbols, NEW p \in Parts, Due(s, p)
      PROVE  /\ LastWordIs(wire', s, p, held'[s][p])
             /\ \/ Mentioned(wire', s, p)
                \/ view'[s][p] = held'[s][p] \/ s \in spoiled' \/ <<s, p>> \in lapsed'
  <2>1. /\ LastWordIs(wire, s, p, held[s][p])
        /\ Mentioned(wire, s, p) \/ Settled(s, p)
    BY <1>1, <1>8 DEF ExactInv
  <2>2. CASE Mentions(m, s, p)
    <3>1. Mentioned(wire, s, p)
      <4>1. 1 \in 1..Len(wire) /\ m = wire[1]
        BY <1>2, EmptySeq
      <4>2. QED
        BY <2>2, <4>1 DEF Mentioned
    <3>2. QED
      BY <1>2, <1>3, <1>5, <2>1, <2>2, <3>1
  <2>3. CASE ~Mentions(m, s, p)
    <3>1. <<s, p>> \notin DOMAIN m.items
      BY <2>3 DEF Mentions
    <3>2. QED
      BY <1>2, <1>3, <1>5, <2>1, <2>3, <3>1 DEF Settled
  <2>4. QED
    BY <2>2, <2>3
<1>9. ExactInv'
  BY <1>2, <1>8, ExactPrimed DEF Due
<1>10. QED
  BY <1>3, <1>4, <1>7, <1>9 DEF VInv, NothingUnexpected

\* What the wire still said of v5 positions that there are none of lapses.
LEMMA DisconnectedKeepsVInv == VInv /\ Disconnected => VInv'
<1> SUFFICES ASSUME VInv, Disconnected
             PROVE  VInv'
  OBVIOUS
<1> DEFINE keys == UNION {DOMAIN m.items : m \in ToSet(wire)}
<1>1. ViewTypeOK /\ StreamedInv /\ ExactInv
  BY DEF VInv
<1>2. /\ feed' = feed /\ up' = FALSE /\ asked' = {} /\ streamed' = {}
      /\ wire' = <<>> /\ heard' = {} /\ held' = held /\ view' = view
      /\ spoiled' = spoiled /\ lapsed' = lapsed \cup Closed(keys, held)
  BY DEF Disconnected
<1>3. wire \in Seq(Messages) /\ \A i \in 1..Len(wire) : wire[i] \in Messages
  BY <1>1, ElementOfSeq DEF ViewTypeOK
<1>4. keys \subseteq Symbols \X Parts
  <2>1. \A m \in ToSet(wire) : m \in Messages
    BY <1>3 DEF ToSet
  <2>2. \A m \in Messages : DOMAIN m.items \subseteq Symbols \X Parts
    BY DEF Messages, Items
  <2>3. QED
    BY <2>1, <2>2
<1>5. Closed(keys, held) \subseteq Symbols \X Parts
  BY <1>4 DEF Closed
<1>6. ViewTypeOK'
  <2>1. <<>> \in Seq(Messages)
    OBVIOUS
  <2>2. QED
    BY <1>1, <1>2, <1>5, <2>1, TypePrimed DEF ViewTypeOK
<1>7. Len(wire') = 0
  BY <1>2
<1>8. StreamedInv'
  BY <1>2, <1>7, StreamedPrimed DEF Mentioned
<1>9. ASSUME NEW s \in Symbols, NEW p \in Parts,
             feed = PositionsOf5, held[s][p] = 0
      PROVE  \/ view[s][p] = held[s][p]
             \/ s \in spoiled' \/ <<s, p>> \in lapsed'
  <2>1. Mentioned(wire, s, p) \/ Settled(s, p)
    BY <1>1, <1>9 DEF ExactInv, Due
  <2>2. ASSUME Mentioned(wire, s, p)
        PROVE  <<s, p>> \in lapsed'
    <3>1. PICK i \in 1..Len(wire) : Mentions(wire[i], s, p)
      BY <2>2 DEF Mentioned
    <3>2. ~Whole(wire[i], s)
      BY <1>9 DEF Whole, PositionsOf5
    <3>3. <<s, p>> \in DOMAIN wire[i].items /\ wire[i] \in ToSet(wire)
      BY <1>3, <3>1, <3>2 DEF Mentions, ToSet
    <3>4. <<s, p>> \in keys
      BY <3>3
    <3> HIDE DEF keys
    <3>5. <<s, p>> \in Closed(keys, held)
      BY <1>9, <3>4 DEF Closed
    <3>6. QED
      BY <1>2, <3>5
  <2>3. QED
    BY <1>2, <2>1, <2>2 DEF Settled
<1>10. \A s \in Symbols, p \in Parts : LastWordIs(wire', s, p, held'[s][p])
  BY <1>7 DEF LastWordIs
<1>11. ExactInv'
  BY <1>2, <1>9, <1>10, ExactPrimed
<1>12. QED
  BY <1>6, <1>8, <1>11 DEF VInv

\* The snapshot of a subscription says what there is of its symbols.
LEMMA SubscribedKeepsVInv ==
  ASSUME VInv, NEW symbols \in SUBSET Symbols, NEW accepted \in BOOLEAN,
         Subscribed(symbols, accepted)
  PROVE  VInv'
<1> DEFINE new == Snapshots(symbols)
<1>1. ViewTypeOK /\ StreamedInv /\ ExactInv
  BY DEF VInv
<1>2. /\ feed' = feed /\ up' = up /\ held' = held /\ view' = view
      /\ spoiled' = spoiled /\ lapsed' = lapsed /\ asked' = asked \ symbols
      /\ symbols # {}
  BY DEF Subscribed
<1>3. CASE ~accepted
  <2>1. streamed' = streamed /\ wire' = wire /\ heard' = heard
    BY <1>3 DEF Subscribed
  <2>2. ViewTypeOK'
    BY <1>1, <1>2, <2>1, TypePrimed DEF ViewTypeOK
  <2>3. StreamedInv'
    BY <1>1, <1>2, <2>1, StreamedPrimed DEF StreamedInv
  <2>4. ExactInv'
    BY <1>1, <1>2, <2>1, ExactPrimed DEF ExactInv, Due, Settled
  <2>5. QED
    BY <2>2, <2>3, <2>4 DEF VInv
<1>4. CASE accepted
  <2>1. /\ streamed' = streamed \cup symbols
        /\ wire' = wire \o new
        /\ heard' = IF new = <<>> THEN heard ELSE heard \cup symbols \X Parts
    BY <1>4 DEF Subscribed
  <2>2. /\ new \in Seq(Messages)
        /\ \A i \in 1..Len(new), s \in Symbols, p \in Parts :
             Mentions(new[i], s, p) =>
               s \in symbols /\ Says(new[i], s, p) = held[s][p]
        /\ new # <<>> => \A s \in symbols, p \in Parts :
             \/ \E i \in 1..Len(new) : Mentions(new[i], s, p)
             \/ feed = PositionsOf5 /\ held[s][p] = 0
    BY <1>1, <1>2, SnapshotsSayWhatIsHeld
  <2> HIDE DEF new
  <2>3. wire \in Seq(Messages)
    BY <1>1 DEF ViewTypeOK
  <2>4. ViewTypeOK'
    <3>1. wire' \in Seq(Messages)
      BY <2>1, <2>2, <2>3, ConcatProperties
    <3>2. QED
      BY <1>1, <1>2, <2>1, <3>1, TypePrimed DEF ViewTypeOK
  <2>5. ASSUME NEW s \in Symbols, NEW p \in Parts,
               ~Mentioned(new, s, p) => LastWordIs(wire, s, p, held[s][p])
        PROVE  LastWordIs(wire', s, p, held[s][p])
    BY <2>1, <2>2, <2>3, <2>5, LastWordOfConcat
  <2>6. ASSUME NEW s \in Symbols, NEW p \in Parts
        PROVE  Mentioned(wire', s, p) <=> Mentioned(wire, s, p) \/ Mentioned(new, s, p)
    BY <2>1, <2>2, <2>3, MentionedInConcat
  <2>7. StreamedInv'
    <3>1. \A s \in Symbols, p \in Parts : Mentioned(new, s, p) => s \in symbols
      BY <2>2 DEF Mentioned
    <3>2. \A s \in Symbols, p \in Parts : Mentioned(wire', s, p) => s \in streamed'
      BY <1>1, <2>1, <2>6, <3>1 DEF StreamedInv
    <3>3. heard' \subseteq streamed' \X Parts
      BY <1>1, <2>1 DEF StreamedInv
    <3>4. QED
      BY <1>2, <3>2, <3>3, StreamedPrimed
  <2>8. ASSUME NEW s \in Symbols, NEW p \in Parts,
               <<s, p>> \in heard' \/ (feed = PositionsOf5 /\ held[s][p] = 0)
        PROVE  /\ LastWordIs(wire', s, p, held[s][p])
               /\ Mentioned(wire', s, p) \/ Settled(s, p)
    <3>1. CASE Mentioned(new, s, p)
      BY <2>5, <2>6, <3>1
    <3>2. CASE ~Mentioned(new, s, p)
      <4>1. Due(s, p)
        BY <2>1, <2>2, <2>8, <3>2 DEF Due, Mentioned
      <4>2. LastWordIs(wire, s, p, held[s][p]) /\ (Mentioned(wire, s, p) \/ Settled(s, p))
        BY <1>1, <4>1 DEF ExactInv
      <4>3. QED
        BY <2>5, <2>6, <4>2
    <3>3. QED
      BY <3>1, <3>2
  <2>9. ExactInv'
    BY <1>2, <2>8, ExactPrimed DEF Settled
  <2>10. QED
    BY <2>4, <2>7, <2>9 DEF VInv
<1>5. QED
  BY <1>3, <1>4

\* A change is pushed, or nobody was told of the symbol anyway.
LEMMA ChangesKeepsVInv ==
  ASSUME VInv, NEW s \in Symbols, Changes(s)
  PROVE  VInv'
<1>1. ViewTypeOK /\ StreamedInv /\ ExactInv
  BY DEF VInv
<1>2. PICK new \in [Parts -> Values], changed \in SUBSET Parts :
        /\ changed = {p \in Parts : new[p] # held[s][p]} /\ changed # {}
        /\ held' = [held EXCEPT ![s] = new]
        /\ IF s \in streamed
             THEN /\ wire' = Append(wire, Message(s, "update",
                                       Listed(s, Pushed(changed), new)))
                  /\ heard' = heard \cup {s} \X Pushed(changed)
                  /\ UNCHANGED lapsed
             ELSE /\ lapsed' = (lapsed \ {s} \X changed)
                                  \cup Closed({s} \X changed, held')
                  /\ UNCHANGED <<wire, heard>>
        /\ UNCHANGED <<feed, up, asked, streamed, buffer, view, fatal, spoiled>>
  BY DEF Changes
<1>3. /\ held' \in [Symbols -> [Parts -> Values]]
      /\ held'[s] = new
      /\ \A x \in Symbols, p \in Parts :
           ~(x = s /\ p \in changed) => held'[x][p] = held[x][p]
  BY <1>1, <1>2 DEF ViewTypeOK
<1>4. feed \in Feeds /\ feed.topic # "none" /\ wire \in Seq(Messages)
  BY <1>1, <1>2 DEF ViewTypeOK, Parts
<1>5. CASE s \in streamed
  <2> DEFINE parts == Pushed(changed)
             m == Message(s, "update", Listed(s, parts, new))
  <2>1. /\ wire' = Append(wire, m) /\ heard' = heard \cup {s} \X parts
        /\ lapsed' = lapsed
    BY <1>2, <1>5
  <2>2. parts \in SUBSET Parts /\ changed \subseteq parts
    BY DEF Pushed
  <2>3. /\ m \in Messages
        /\ m.event = "update"
        /\ DOMAIN m.items = {s} \X parts
        /\ \A p \in parts : m.items[<<s, p>>] = new[p]
        /\ \A x \in Symbols : Whole(m, x) <=>
             feed.topic = "depth" /\ "update" = "snapshot" /\ x = s
    <3> HIDE DEF parts
    <3>1. "update" \in Events /\ "update" # "init"
      BY DEF Events
    <3>2. QED
      BY <1>2, <1>4, <2>2, <3>1, ListedMessage
  <2> HIDE DEF m, parts
  <2>4. \A x \in Symbols, p \in Parts :
          /\ Mentions(m, x, p) <=> x = s /\ p \in parts
          /\ Mentions(m, x, p) => Says(m, x, p) = held'[x][p]
    BY <1>3, <2>2, <2>3 DEF Mentions, Says
  <2>5. /\ wire' = wire \o <<m>> /\ wire' \in Seq(Messages)
        /\ <<m>> \in Seq(Messages) /\ Len(<<m>>) = 1 /\ <<m>>[1] = m
    BY <1>4, <2>1, <2>3, AppendIsConcat, AppendProperties
  <2>6. \A x \in Symbols, p \in Parts : Mentioned(<<m>>, x, p) <=> x = s /\ p \in parts
    BY <2>4, <2>5 DEF Mentioned
  <2>7. \A x \in Symbols, p \in Parts :
          Mentioned(wire', x, p) <=> Mentioned(wire, x, p) \/ (x = s /\ p \in parts)
    BY <1>4, <2>5, <2>6, MentionedInConcat
  <2>8. ASSUME NEW x \in Symbols, NEW p \in Parts,
               ~(x = s /\ p \in parts) => LastWordIs(wire, x, p, held'[x][p])
        PROVE  LastWordIs(wire', x, p, held'[x][p])
    <3> DEFINE pushed == <<m>>
               value == held'[x][p]
    <3>1. \A i \in 1..Len(pushed) :
            Mentions(pushed[i], x, p) => Says(pushed[i], x, p) = value
      BY <2>4, <2>5
    <3>2. pushed \in Seq(Messages) /\ wire' = wire \o pushed
      BY <2>5
    <3>3. ~Mentioned(pushed, x, p) => LastWordIs(wire, x, p, value)
      BY <2>6, <2>8
    <3> HIDE DEF pushed, value
    <3>4. LastWordIs(wire', x, p, value)
      BY <1>4, <3>1, <3>2, <3>3, LastWordOfConcat
    <3>5. QED
      BY <3>4 DEF value
  <2>9. ViewTypeOK'
    BY <1>1, <1>2, <1>3, <2>1, <2>5, TypePrimed DEF ViewTypeOK
  <2>10. StreamedInv'
    BY <1>1, <1>2, <1>5, <2>1, <2>2, <2>7, StreamedPrimed DEF StreamedInv
  <2>11. ASSUME NEW x \in Symbols, NEW p \in Parts,
                <<x, p>> \in heard' \/ (feed = PositionsOf5 /\ held'[x][p] = 0)
         PROVE  /\ LastWordIs(wire', x, p, held'[x][p])
                /\ \/ Mentioned(wire', x, p)
                   \/ view[x][p] = held'[x][p] \/ x \in spoiled \/ <<x, p>> \in lapsed
    <3>1. CASE x = s /\ p \in parts
      BY <2>7, <2>8, <3>1
    <3>2. CASE ~(x = s /\ p \in parts)
      <4>1. held'[x][p] = held[x][p] /\ Due(x, p)
        BY <1>3, <2>1, <2>2, <2>11, <3>2 DEF Due
      <4>2. QED
        BY <1>1, <2>7, <2>8, <4>1 DEF ExactInv, Settled
    <3>3. QED
      BY <3>1, <3>2
  <2>12. ExactInv'
    BY <1>2, <2>1, <2>11, ExactPrimed
  <2>13. QED
    BY <2>9, <2>10, <2>12 DEF VInv
<1>6. CASE s \notin streamed
  <2>1. /\ lapsed' = (lapsed \ {s} \X changed) \cup Closed({s} \X changed, held')
        /\ wire' = wire /\ heard' = heard
    BY <1>2, <1>6
  <2>2. lapsed' \subseteq Symbols \X Parts
    BY <1>1, <2>1 DEF Closed, ViewTypeOK
  <2>3. ViewTypeOK'
    BY <1>1, <1>2, <1>3, <2>1, <2>2, TypePrimed DEF ViewTypeOK
  <2>4. StreamedInv'
    BY <1>1, <1>2, <2>1, StreamedPrimed DEF StreamedInv
  <2>5. ASSUME NEW x \in Symbols, NEW p \in Parts,
               <<x, p>> \in heard' \/ (feed = PositionsOf5 /\ held'[x][p] = 0)
        PROVE  /\ LastWordIs(wire', x, p, held'[x][p])
               /\ \/ Mentioned(wire', x, p)
                  \/ view[x][p] = held'[x][p] \/ x \in spoiled \/ <<x, p>> \in lapsed'
    <3>1. CASE x = s /\ p \in changed
      <4>1. feed = PositionsOf5 /\ held'[x][p] = 0
        BY <1>1, <1>6, <2>1, <2>5, <3>1 DEF StreamedInv
      <4>2. <<x, p>> \in lapsed'
        BY <2>1, <3>1, <4>1 DEF Closed
      <4>3. ~Mentioned(wire, x, p)
        BY <1>1, <1>6, <3>1 DEF StreamedInv
      <4>4. LastWordIs(wire, x, p, held'[x][p])
        BY <4>3 DEF LastWordIs, Mentioned
      <4>5. QED
        BY <2>1, <4>2, <4>4
    <3>2. CASE ~(x = s /\ p \in changed)
      <4>1. held'[x][p] = held[x][p] /\ Due(x, p)
        BY <1>3, <2>1, <2>5, <3>2 DEF Due
      <4>2. <<x, p>> \in lapsed => <<x, p>> \in lapsed'
        BY <2>1, <3>2
      <4>3. QED
        BY <1>1, <2>1, <4>1, <4>2 DEF ExactInv, Settled
    <3>3. QED
      BY <3>1, <3>2
  <2>6. ExactInv'
    BY <1>2, <2>5, ExactPrimed
  <2>7. QED
    BY <2>3, <2>4, <2>6 DEF VInv
<1>7. QED
  BY <1>5, <1>6

LEMMA StepKeepsVInv ==
  VInv /\ NothingUnexpected /\ [Next]_vars => VInv' /\ NothingUnexpected'
<1> SUFFICES ASSUME VInv, NothingUnexpected, [Next]_vars
             PROVE  VInv' /\ NothingUnexpected'
  OBVIOUS
<1>1. CASE Connected
  BY <1>1, ConnectedKeepsVInv DEF Connected, NothingUnexpected
<1>2. CASE Disconnected
  BY <1>2, DisconnectedKeepsVInv DEF Disconnected, NothingUnexpected
<1>3. ASSUME NEW symbols \in SUBSET Symbols, NEW accepted \in BOOLEAN,
             Subscribed(symbols, accepted)
      PROVE  VInv' /\ NothingUnexpected'
  BY <1>3, SubscribedKeepsVInv DEF Subscribed, NothingUnexpected
<1>4. ASSUME NEW s \in Symbols, Changes(s)
      PROVE  VInv' /\ NothingUnexpected'
  <2>1. fatal' = fatal
    BY <1>4 DEF Changes
  <2>2. QED
    BY <1>4, <2>1, ChangesKeepsVInv DEF NothingUnexpected
<1>5. CASE Receive
  BY <1>5, ReceiveKeepsVInv
<1>6. ASSUME NEW message \in Chatter, ReceiveOther(message)
      PROVE  VInv' /\ NothingUnexpected'
  BY <1>6, OtherMessageKeepsVInv
<1>7. CASE UNCHANGED vars
  BY <1>7, StutteringKeepsVInv DEF vars, NothingUnexpected
<1>8. QED
  BY <1>1, <1>2, <1>3, <1>4, <1>5, <1>6, <1>7 DEF Next

\* Whatever is sent in answer to the subscriptions of a socket finds its
\* handler: no message ends the process.
THEOREM NoMessageIsFatal == Spec => []NothingUnexpected
<1>1. Init => VInv /\ NothingUnexpected
  BY InitEstablishesVInv
<1>2. VInv /\ NothingUnexpected /\ [Next]_vars => VInv' /\ NothingUnexpected'
  BY StepKeepsVInv
<1>3. QED
  BY <1>1, <1>2, PTL DEF Spec

\* Whatever the exchange pushed is seen by clients as it is once it has
\* arrived, whichever messages and connections came between; exceptions are a
\* book that refused an update, and a v5 position that was closed unheard.
THEOREM ViewsAreExact == Spec => []ViewIsExact
<1>1. Init => VInv /\ NothingUnexpected
  BY InitEstablishesVInv
<1>2. VInv /\ NothingUnexpected /\ [Next]_vars => VInv' /\ NothingUnexpected'
  BY StepKeepsVInv
<1>3. VInv => ViewIsExact
  <2> SUFFICES ASSUME VInv, wire = <<>>,
                      NEW s \in Symbols, NEW p \in Parts, <<s, p>> \in heard
               PROVE  Settled(s, p)
    BY DEF ViewIsExact, Settled
  <2>1. ~Mentioned(wire, s, p)
    BY DEF Mentioned
  <2>2. QED
    BY <2>1 DEF VInv, ExactInv, Due
<1>4. QED
  BY <1>1, <1>2, <1>3, PTL DEF Spec
=============================================================================
