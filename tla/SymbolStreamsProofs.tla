------------------------ MODULE SymbolStreamsProofs ------------------------
(***************************************************************************)
(* Theorems about the distribution of symbols over streams, for every      *)
(* finite set of symbols and every number of symbols per stream.           *)
(***************************************************************************)
EXTENDS SymbolStreams, FiniteSetTheorems, TLAPS

\* What integer division by a positive number satisfies.
LEMMA Division ==
  ASSUME NEW a \in Nat, NEW m \in Nat \ {0}
  PROVE  /\ a \div m \in Nat
         /\ m * (a \div m) <= a
         /\ a < m * (a \div m) + m
  OBVIOUS

LEMMA LessByFactor ==
  ASSUME NEW m \in Nat \ {0}, NEW x \in Nat, NEW y \in Nat, m * x < m * y
  PROVE  x < y
<1> SUFFICES ASSUME y <= x PROVE FALSE
  OBVIOUS
<1>1. PICK d \in Nat : x = y + d
  <2>1. x - y \in Nat /\ x = y + (x - y)
    OBVIOUS
  <2> QED BY <2>1
<1>2. m * x = m * y + m * d
  BY <1>1
<1>3. m * d >= 0
  OBVIOUS
<1> QED BY <1>2, <1>3

\* There are as many streams as the slices need.
LEMMA SlicesSuffice ==
  ASSUME NEW n \in Nat, NEW p \in 1..n
  PROVE  NumSlices(n) \in Nat /\ SliceOf(p) \in 1..NumSlices(n)
<1> DEFINE M == MaxPerStream
           q == (p - 1) \div M
           r == (n + M - 1) \div M
<1>1. M \in Nat \ {0}
  BY MaxPerStreamAssumption
<1>2. p - 1 \in Nat /\ n + M - 1 \in Nat
  BY <1>1
<1>3. q \in Nat /\ M * q <= p - 1
  BY <1>1, <1>2, Division
<1>4. r \in Nat /\ n + M - 1 < M * r + M
  BY <1>1, <1>2, Division
<1>5. M * q < M * r
  BY <1>1, <1>3, <1>4
<1>6. q < r
  BY <1>1, <1>3, <1>4, <1>5, LessByFactor
<1> QED BY <1>3, <1>4, <1>6 DEF SliceOf, NumSlices

LEMMA NumSlicesType ==
  ASSUME NEW n \in Nat
  PROVE  NumSlices(n) \in Nat
<1>1. MaxPerStream \in Nat \ {0} /\ n + MaxPerStream - 1 \in Nat
  BY MaxPerStreamAssumption
<1> QED BY <1>1, Division DEF NumSlices

\* The new symbols of a message, in its order: a sequence without repetition.
LEMMA OrderingIsSequence ==
  ASSUME NEW S, IsFiniteSet(S), NEW f \in Orderings(S)
  PROVE  /\ f \in Seq(S)
         /\ S = {f[p] : p \in DOMAIN f}
         /\ \A p, q \in DOMAIN f : f[p] = f[q] => p = q
<1> DEFINE n == Cardinality(S)
<1>1. n \in Nat
  BY FS_CardinalityType
<1>2. f \in [1..n -> S] /\ \A s \in S : \E i \in 1..n : f[i] = s
  BY DEF Orderings
<1>3. f \in Surjection(1..n, S)
  BY <1>2 DEF Surjection
<1>4. IsFiniteSet(1..n) /\ Cardinality(1..n) = n
  BY <1>1, FS_Interval
<1>5. f \in Injection(1..n, S)
  BY <1>3, <1>4, FS_Surjection
<1>6. \A p, q \in 1..n : f[p] = f[q] => p = q
  BY <1>5 DEF Injection, IsInjective
<1>7. f \in Seq(S)
  BY <1>1, <1>2
<1>8. DOMAIN f = 1..n
  BY <1>2
<1>9. S = {f[p] : p \in 1..n}
  BY <1>2
<1> QED BY <1>6, <1>7, <1>8, <1>9

-----------------------------------------------------------------------------
(***************************************************************************)
(* The inductive invariant: the four invariants of the runs lack only that *)
(* there is a stream for every slice, neither more nor fewer.              *)
(***************************************************************************)
StreamPerSlice == \A k \in Kinds : Len(streams[k]) = NumSlices(Len(symbols))

IInv == TypeOK /\ KnownOnce /\ SubscribedExactlyOnce /\ StreamPerSlice

\* Appending unseen symbols: nothing moves, and a slice is what it was plus
\* what follows the old end of the sequence.
LEMMA Appended ==
  ASSUME TypeOK, KnownOnce,
         NEW S, IsFiniteSet(S), S \subseteq Symbols, S \cap all_symbols = {},
         NEW new \in Orderings(S)
  PROVE  LET list == symbols \o new IN
         /\ list \in Seq(Symbols)
         /\ all_symbols \cup S = {list[p] : p \in DOMAIN list}
         /\ \A p, q \in DOMAIN list : list[p] = list[q] => p = q
         /\ \A i \in Nat :
              /\ GetSlice(list, i, 0) = GetSlice(symbols, i, 0)
                                          \cup GetSlice(list, i, Len(symbols))
              /\ GetSlice(symbols, i, 0)
                   \cap GetSlice(list, i, Len(symbols)) = {}
<1> DEFINE list == symbols \o new
           m == Len(symbols)
           n == Len(new)
<1>1. /\ new \in Seq(S)
      /\ S = {new[p] : p \in DOMAIN new}
      /\ \A p, q \in DOMAIN new : new[p] = new[q] => p = q
  BY OrderingIsSequence
<1>2. /\ symbols \in Seq(Symbols) /\ new \in Seq(Symbols)
      /\ m \in Nat /\ n \in Nat
      /\ DOMAIN symbols = 1..m /\ DOMAIN new = 1..n
  BY <1>1 DEF TypeOK
<1>3. /\ list \in Seq(Symbols) /\ DOMAIN list = 1..(m + n)
      /\ \A p \in 1..m : list[p] = symbols[p]
      /\ \A p \in (m + 1)..(m + n) : p - m \in 1..n /\ list[p] = new[p - m]
  BY <1>2
<1>4. \A p \in 1..n : p + m \in (m + 1)..(m + n) /\ list[p + m] = new[p]
  BY <1>2, <1>3
<1>5. all_symbols \cup S = {list[p] : p \in DOMAIN list}
  <2>1. \A s \in all_symbols : \E p \in 1..(m + n) : list[p] = s
    BY <1>2, <1>3 DEF KnownOnce
  <2>2. ASSUME NEW s \in S PROVE \E p \in 1..(m + n) : list[p] = s
    <3>1. PICK p \in 1..n : new[p] = s
      BY <1>1, <1>2
    <3>2. p + m \in 1..(m + n) /\ list[p + m] = s
      BY <3>1, <1>2, <1>4
    <3> HIDE DEF list
    <3> QED BY <3>2
  <2>3. ASSUME NEW p \in 1..(m + n) PROVE list[p] \in all_symbols \cup S
    <3>1. CASE p \in 1..m
      BY <3>1, <1>2, <1>3 DEF KnownOnce
    <3>2. CASE p \in (m + 1)..(m + n)
      BY <3>2, <1>1, <1>2, <1>3
    <3> QED BY <3>1, <3>2, <1>2
  <2> QED BY <2>1, <2>2, <2>3, <1>3
<1>6. ASSUME NEW p \in 1..m, NEW q \in (m + 1)..(m + n)
      PROVE  list[p] # list[q]
  <2>1. list[p] = symbols[p] /\ symbols[p] \in all_symbols
    BY <1>2, <1>3 DEF KnownOnce
  <2>2. q - m \in 1..n /\ list[q] = new[q - m]
    BY <1>3
  <2>3. new[q - m] \in S
    BY <2>2, <1>1, <1>2
  <2> HIDE DEF list
  <2> QED BY <2>1, <2>2, <2>3
<1>7. ASSUME NEW p \in DOMAIN list, NEW q \in DOMAIN list, list[p] = list[q]
      PROVE  p = q
  <2>1. CASE p \in 1..m /\ q \in 1..m
    BY <2>1, <1>2, <1>3, <1>7 DEF KnownOnce
  <2>2. CASE p \in (m + 1)..(m + n) /\ q \in (m + 1)..(m + n)
    BY <2>2, <1>1, <1>2, <1>3, <1>7
  <2> QED BY <2>1, <2>2, <1>2, <1>3, <1>6, <1>7
<1>8. ASSUME NEW i \in Nat
      PROVE  /\ GetSlice(list, i, 0) = GetSlice(symbols, i, 0)
                                         \cup GetSlice(list, i, m)
             /\ GetSlice(symbols, i, 0) \cap GetSlice(list, i, m) = {}
  <2> HIDE DEF list
  <2>1. GetSlice(list, i, 0) =
          {list[p] : p \in {q \in 1..(m + n) : SliceOf(q) = i}}
    <3>1. {q \in DOMAIN list : q > 0 /\ SliceOf(q) = i} =
            {q \in 1..(m + n) : SliceOf(q) = i}
      BY <1>2, <1>3
    <3> QED BY <3>1 DEF GetSlice
  <2>2. GetSlice(list, i, m) =
          {list[p] : p \in {q \in (m + 1)..(m + n) : SliceOf(q) = i}}
    <3>1. {q \in DOMAIN list : q > m /\ SliceOf(q) = i} =
            {q \in (m + 1)..(m + n) : SliceOf(q) = i}
      BY <1>2, <1>3
    <3> QED BY <3>1 DEF GetSlice
  <2>3. GetSlice(symbols, i, 0) =
          {list[p] : p \in {q \in 1..m : SliceOf(q) = i}}
    <3>1. {q \in DOMAIN symbols : q > 0 /\ SliceOf(q) = i} =
            {q \in 1..m : SliceOf(q) = i}
      BY <1>2
    <3> QED BY <3>1, <1>3 DEF GetSlice
  <2>4. 1..(m + n) = (1..m) \cup ((m + 1)..(m + n))
    BY <1>2
  <2> QED BY <2>1, <2>2, <2>3, <2>4, <1>6
<1> QED BY <1>3, <1>5, <1>7, <1>8

\* What Subscribing does to a stream that has none of the slice.
LEMMA SubscribingStream ==
  ASSUME NEW st \in Stream, NEW slice, slice \subseteq Symbols,
         \A s \in slice : st.sent[s] = 0
  PROVE  LET st2 == Subscribing(st, slice) IN
         /\ st2 \in Stream
         /\ st2.ready = st.ready
         /\ \A s \in Symbols :
              st2.sent[s] = IF s \in slice THEN 1 ELSE st.sent[s]
  BY DEF Stream, Subscribing

LEMMA NewStreamType ==
  /\ NewStream \in Stream
  /\ ~NewStream.ready
  /\ \A s \in Symbols : NewStream.sent[s] = 0
  BY DEF NewStream, Nothing, Stream

LEMMA SliceType ==
  ASSUME NEW list \in Seq(Symbols), NEW i, NEW start_from \in Nat
  PROVE  GetSlice(list, i, start_from) \subseteq Symbols
  BY DEF GetSlice

\* An update with symbols not seen before keeps the invariant.
LEMMA UpdateStep ==
  ASSUME IInv, NEW S, IsFiniteSet(S), S \subseteq Symbols,
         S \cap all_symbols = {}, NEW new \in Orderings(S),
         all_symbols' = all_symbols \cup S, SymbolsUpdate(new)
  PROVE  IInv'
<1> USE DEF IInv
<1> DEFINE list == symbols \o new
           m == Len(symbols)
           N == NumSlices(Len(list))
           StreamAt(k, i) == IF i <= Len(streams[k]) THEN streams[k][i]
                                                     ELSE NewStream
           After(k, i) ==
             IF StreamAt(k, i).ready
               THEN Subscribing(StreamAt(k, i), GetSlice(list, i, m))
               ELSE StreamAt(k, i)
<1>1. /\ symbols' = list
      /\ streams' = [k \in Kinds |-> [i \in 1..N |-> After(k, i)]]
  BY DEF SymbolsUpdate
<1>2. /\ list \in Seq(Symbols)
      /\ all_symbols \cup S = {list[p] : p \in DOMAIN list}
      /\ \A p, q \in DOMAIN list : list[p] = list[q] => p = q
      /\ \A i \in Nat :
           /\ GetSlice(list, i, 0) = GetSlice(symbols, i, 0)
                                       \cup GetSlice(list, i, m)
           /\ GetSlice(symbols, i, 0) \cap GetSlice(list, i, m) = {}
  BY Appended
<1>3. m \in Nat /\ Len(list) \in Nat /\ N \in Nat
  BY <1>2, NumSlicesType DEF TypeOK
<1> HIDE DEF list, m, N
<1>4. ASSUME NEW k \in Kinds, NEW i \in 1..N
      PROVE  LET st == StreamAt(k, i) IN
             /\ st \in Stream
             /\ \A s \in Symbols :
                  st.sent[s] = IF st.ready /\ s \in GetSlice(symbols, i, 0)
                                 THEN 1 ELSE 0
  <2>1. streams[k] \in Seq(Stream)
    BY DEF TypeOK
  <2>2. CASE i <= Len(streams[k])
    <3>1. i \in DOMAIN streams[k] /\ streams[k][i] \in Stream
      BY <2>1, <2>2, <1>3
    <3> QED BY <3>1, <2>2 DEF SubscribedExactlyOnce
  <2>3. CASE ~(i <= Len(streams[k]))
    BY <2>3, NewStreamType
  <2> QED BY <2>2, <2>3
<1>5. ASSUME NEW k \in Kinds, NEW i \in 1..N
      PROVE  /\ After(k, i) \in Stream
             /\ \A s \in Symbols :
                  After(k, i).sent[s] =
                    IF After(k, i).ready /\ s \in GetSlice(list, i, 0)
                      THEN 1 ELSE 0
  <2> DEFINE st == StreamAt(k, i)
             slice == GetSlice(list, i, m)
  <2>1. /\ st \in Stream
        /\ \A s \in Symbols :
             st.sent[s] = IF st.ready /\ s \in GetSlice(symbols, i, 0)
                            THEN 1 ELSE 0
    BY <1>4
  <2>2. slice \subseteq Symbols
    BY <1>2, <1>3, SliceType
  <2>3. i \in Nat
    BY <1>3
  <2>4. /\ GetSlice(list, i, 0) = GetSlice(symbols, i, 0) \cup slice
        /\ GetSlice(symbols, i, 0) \cap slice = {}
    BY <1>2, <2>3
  <2>5. After(k, i) = IF st.ready THEN Subscribing(st, slice) ELSE st
    OBVIOUS
  <2> HIDE DEF st, slice, After
  <2>6. CASE st.ready
    <3>1. \A s \in slice : st.sent[s] = 0
      BY <2>1, <2>2, <2>4
    <3>2. LET st2 == Subscribing(st, slice) IN
          /\ st2 \in Stream /\ st2.ready = st.ready
          /\ \A s \in Symbols :
               st2.sent[s] = IF s \in slice THEN 1 ELSE st.sent[s]
      BY <3>1, <2>1, <2>2, SubscribingStream
    <3> QED BY <3>2, <2>1, <2>4, <2>5, <2>6
  <2>7. CASE ~st.ready
    BY <2>7, <2>1, <2>5
  <2> QED BY <2>6, <2>7
<1> HIDE DEF After, StreamAt
<1>6. TypeOK'
  <2>1. \A k \in Kinds : [i \in 1..N |-> After(k, i)] \in Seq(Stream)
    BY <1>3, <1>5
  <2> QED BY <2>1, <1>1, <1>2 DEF TypeOK
<1>7. KnownOnce'
  BY <1>1, <1>2 DEF KnownOnce
<1>8. SubscribedExactlyOnce'
  BY <1>1, <1>5 DEF SubscribedExactlyOnce
<1>9. StreamPerSlice'
  BY <1>1, <1>3 DEF StreamPerSlice, N
<1> QED BY <1>6, <1>7, <1>8, <1>9

\* A stream that comes up or goes down keeps the invariant: the other
\* streams, and the sequence of symbols, are as they were.
LEMMA StreamStep ==
  ASSUME IInv, NEW k \in Kinds, NEW i \in DOMAIN streams[k],
         StreamReady(k, i) \/ StreamDisconnected(k, i)
  PROVE  IInv'
<1> USE DEF IInv
<1> DEFINE st == streams[k][i]
<1>1. /\ streams \in [Kinds -> Seq(Stream)]
      /\ streams[k] \in Seq(Stream) /\ st \in Stream /\ i \in Nat
      /\ symbols \in Seq(Symbols)
      /\ UNCHANGED <<all_symbols, symbols>>
  BY DEF TypeOK, StreamReady, StreamDisconnected
<1>2. PICK st2 \in Stream :
        /\ streams' = [streams EXCEPT ![k][i] = st2]
        /\ \A s \in Symbols :
             st2.sent[s] = IF st2.ready /\ s \in GetSlice(symbols, i, 0)
                             THEN 1 ELSE 0
  <2>1. CASE StreamReady(k, i)
    <3> DEFINE up == [st EXCEPT !.ready = TRUE]
               slice == GetSlice(symbols, i, 0)
    <3>1. /\ up \in Stream /\ up.ready
          /\ \A s \in Symbols : up.sent[s] = 0
      <4>1. ~st.ready /\ \A s \in Symbols : st.sent[s] = 0
        BY <2>1 DEF StreamReady, SubscribedExactlyOnce
      <4> QED BY <1>1, <4>1 DEF Stream
    <3>2. slice \subseteq Symbols
      BY <1>1, SliceType
    <3>3. streams' = [streams EXCEPT ![k][i] = Subscribing(up, slice)]
      BY <2>1 DEF StreamReady
    <3> HIDE DEF up, slice
    <3>4. LET st2 == Subscribing(up, slice) IN
          /\ st2 \in Stream /\ st2.ready = up.ready
          /\ \A s \in Symbols :
               st2.sent[s] = IF s \in slice THEN 1 ELSE up.sent[s]
      BY <3>1, <3>2, SubscribingStream
    <3> QED BY <3>1, <3>3, <3>4 DEF slice
  <2>2. CASE StreamDisconnected(k, i)
    BY <2>2, NewStreamType DEF StreamDisconnected
  <2> QED BY <2>1, <2>2
<1>3. /\ streams' \in [Kinds -> Seq(Stream)]
      /\ streams'[k] \in Seq(Stream) /\ Len(streams'[k]) = Len(streams[k])
      /\ DOMAIN streams'[k] = DOMAIN streams[k]
      /\ streams'[k][i] = st2
      /\ \A j \in DOMAIN streams[k] : j # i => streams'[k][j] = streams[k][j]
      /\ \A k2 \in Kinds : k2 # k => streams'[k2] = streams[k2]
  <2>1. streams' = [streams EXCEPT ![k] = [streams[k] EXCEPT ![i] = st2]]
    BY <1>1, <1>2
  <2>2. [streams[k] EXCEPT ![i] = st2] \in Seq(Stream)
    BY <1>1
  <2>3. streams'[k] = [streams[k] EXCEPT ![i] = st2]
    BY <1>1, <2>1
  <2> QED BY <1>1, <2>1, <2>2, <2>3
<1>4. TypeOK'
  BY <1>1, <1>3 DEF TypeOK
<1>5. KnownOnce'
  BY <1>1 DEF KnownOnce
<1>6. SubscribedExactlyOnce'
  <2> SUFFICES ASSUME NEW k2 \in Kinds, NEW j \in DOMAIN streams'[k2],
                      NEW s \in Symbols
               PROVE  streams'[k2][j].sent[s] =
                        IF /\ streams'[k2][j].ready
                           /\ s \in GetSlice(symbols, j, 0) THEN 1 ELSE 0
    BY <1>1 DEF SubscribedExactlyOnce
  <2>1. CASE k2 = k /\ j = i
    BY <2>1, <1>2, <1>3
  <2>2. CASE k2 = k /\ j # i
    BY <2>2, <1>3 DEF SubscribedExactlyOnce
  <2>3. CASE k2 # k
    BY <2>3, <1>3 DEF SubscribedExactlyOnce
  <2> QED BY <2>1, <2>2, <2>3
<1>7. StreamPerSlice'
  BY <1>1, <1>3 DEF StreamPerSlice
<1> QED BY <1>4, <1>5, <1>6, <1>7

THEOREM Invariance == Spec => []IInv
<1>1. Init => IInv
  <2> SUFFICES ASSUME Init PROVE IInv
    OBVIOUS
  <2>1. NumSlices(0) = 0
    BY MaxPerStreamAssumption DEF NumSlices
  <2>2. TypeOK
    BY DEF Init, TypeOK
  <2>3. KnownOnce /\ SubscribedExactlyOnce /\ StreamPerSlice
    BY <2>1 DEF Init, KnownOnce, SubscribedExactlyOnce, StreamPerSlice
  <2> QED BY <2>2, <2>3 DEF IInv
<1>2. IInv /\ [Next]_vars => IInv'
  <2> SUFFICES ASSUME IInv, [Next]_vars PROVE IInv'
    OBVIOUS
  <2>1. ASSUME NEW items \in SUBSET Symbols, Subscribe(items) PROVE IInv'
    <3> DEFINE S == Unseen(items)
    <3>1. /\ S \subseteq Symbols /\ S \cap all_symbols = {}
          /\ all_symbols' = all_symbols \cup S
      BY <2>1 DEF Subscribe, Unseen
    <3>2. IsFiniteSet(S)
      BY <3>1, SymbolsAssumption, FS_Subset
    <3>3. PICK new \in Orderings(S) : SymbolsUpdate(new)
      BY <2>1 DEF Subscribe
    <3> HIDE DEF S
    <3> QED BY <3>1, <3>2, <3>3, UpdateStep
  <2>2. ASSUME NEW items \in SUBSET Symbols, ContractInfo(items) PROVE IInv'
    <3> DEFINE S == Unseen(items \ Discarded)
    <3>1. /\ S \subseteq Symbols /\ S \cap all_symbols = {}
          /\ all_symbols' = all_symbols \cup S
      BY <2>2 DEF ContractInfo, Unseen
    <3>2. IsFiniteSet(S)
      BY <3>1, SymbolsAssumption, FS_Subset
    <3>3. PICK new \in Orderings(S) : SymbolsUpdate(new)
      BY <2>2 DEF ContractInfo
    <3> HIDE DEF S
    <3> QED BY <3>1, <3>2, <3>3, UpdateStep
  <2>3. ASSUME NEW k \in Kinds, NEW i \in DOMAIN streams[k],
               StreamReady(k, i) \/ StreamDisconnected(k, i)
        PROVE  IInv'
    BY <2>3, StreamStep
  <2>4. CASE UNCHANGED vars
    BY <2>4 DEF vars, IInv, TypeOK, KnownOnce, SubscribedExactlyOnce,
                StreamPerSlice
  <2> QED BY <2>1, <2>2, <2>3, <2>4 DEF Next
<1> QED BY <1>1, <1>2, PTL DEF Spec

-----------------------------------------------------------------------------
\* TypeOK: in particular no subscription is ever sent twice.
THEOREM StreamTypes == Spec => []TypeOK
<1>1. IInv => TypeOK
  BY DEF IInv
<1> QED BY <1>1, Invariance, PTL

\* KnownOnce: duplicates are filtered across both sources of symbols.
THEOREM SymbolsKnownOnce == Spec => []KnownOnce
<1>1. IInv => KnownOnce
  BY DEF IInv
<1> QED BY <1>1, Invariance, PTL

\* SubscribedExactlyOnce: a stream that is ready has subscribed its slice,
\* whatever the order of symbol updates and reconnections.
THEOREM SlicesAreSubscribed == Spec => []SubscribedExactlyOnce
<1>1. IInv => SubscribedExactlyOnce
  BY DEF IInv
<1> QED BY <1>1, Invariance, PTL

\* EverySymbolServed: every known symbol is in the slice of exactly one
\* stream of each kind.
THEOREM SymbolsAreServed == Spec => []EverySymbolServed
<1>1. IInv => EverySymbolServed
  <2> SUFFICES ASSUME IInv, NEW k \in Kinds, NEW s \in all_symbols
               PROVE  \E i \in DOMAIN streams[k] :
                        /\ s \in GetSlice(symbols, i, 0)
                        /\ \A j \in DOMAIN streams[k] :
                             s \in GetSlice(symbols, j, 0) => j = i
    BY DEF EverySymbolServed
  <2>1. PICK p \in DOMAIN symbols : symbols[p] = s
    BY DEF IInv, KnownOnce
  <2>2. /\ Len(symbols) \in Nat /\ p \in 1..Len(symbols)
        /\ streams[k] \in Seq(Stream)
        /\ Len(streams[k]) = NumSlices(Len(symbols))
    BY <2>1 DEF IInv, TypeOK, StreamPerSlice
  <2>3. SliceOf(p) \in DOMAIN streams[k]
    <3>1. NumSlices(Len(symbols)) \in Nat
          /\ SliceOf(p) \in 1..NumSlices(Len(symbols))
      BY <2>2, SlicesSuffice
    <3>2. DOMAIN streams[k] = 1..NumSlices(Len(symbols))
      BY <2>2
    <3> QED BY <3>1, <3>2
  <2>4. s \in GetSlice(symbols, SliceOf(p), 0)
    BY <2>1, <2>2 DEF GetSlice
  <2>5. ASSUME NEW j, s \in GetSlice(symbols, j, 0) PROVE j = SliceOf(p)
    <3>1. PICK q \in DOMAIN symbols : SliceOf(q) = j /\ symbols[q] = s
      BY <2>5 DEF GetSlice
    <3>2. q = p
      BY <2>1, <3>1 DEF IInv, KnownOnce
    <3> QED BY <3>1, <3>2
  <2> QED BY <2>3, <2>4, <2>5
<1> QED BY <1>1, Invariance, PTL
=============================================================================
