----------------------- MODULE OrderEntryRESTProofs -----------------------
(***************************************************************************)
(* Theorems about order requests over REST, for every set of orders and    *)
(* symbols, on both APIs, with and without network failures.                *)
(***************************************************************************)
EXTENDS OrderEntryREST, TLAPS

(***************************************************************************)
(* The inductive invariant.  What the run's invariants lack: a request     *)
(* that was never sent has no events, so that the first event of a request *)
(* is the first one that its client hears.                                 *)
(***************************************************************************)
UnsentIsSilent == \A r \in Requests : ~Sent(r) => told[r] = <<>>

IInv == TypeOK /\ UnsentIsSilent /\ EveryRequestAccountedFor
          /\ RejectedMeansRefused

\* What a final event adds to the events of a request that had none.
LEMMA FinalFacts ==
  ASSUME IInv, NEW r \in wire, NEW e \in {"REJECTED", "ERROR"},
         Dispatch(r, e)
  PROVE  LET n == Len(told[r]) + 1 IN
           /\ r \in Requests /\ Sent(r) /\ Finals(r) = {}
           /\ told[r] \in Seq(Events) /\ Len(told[r]) \in Nat
           /\ DOMAIN told[r] = 1..Len(told[r])
           /\ told' \in [Requests -> Seq(Events)]
           /\ DOMAIN told'[r] = 1..n /\ told'[r][n] = e
           /\ \A i \in DOMAIN told[r] : told'[r][i] = told[r][i]
           /\ Finals(r)' = {n}
           /\ \A q \in Requests : q # r => /\ told'[q] = told[q]
                                          /\ Finals(q)' = Finals(q)
<1> USE DEF IInv
<1>1. /\ r \in Requests /\ Sent(r) /\ Finals(r) = {}
      /\ told \in [Requests -> Seq(Events)] /\ told[r] \in Seq(Events)
      /\ e \in Events /\ e # "FORWARDED"
  BY DEF TypeOK, EveryRequestAccountedFor, Events
<1>2. /\ told' \in [Requests -> Seq(Events)]
      /\ told'[r] = Append(told[r], e)
      /\ \A q \in Requests : q # r => told'[q] = told[q]
  BY <1>1 DEF Dispatch
<1>3. /\ DOMAIN told'[r] = 1..(Len(told[r]) + 1)
      /\ told'[r][Len(told[r]) + 1] = e
      /\ \A i \in DOMAIN told[r] : told'[r][i] = told[r][i]
      /\ DOMAIN told[r] = 1..Len(told[r]) /\ Len(told[r]) \in Nat
  BY <1>1, <1>2
<1>4. Finals(r)' = {Len(told[r]) + 1}
  BY <1>1, <1>3 DEF Finals
<1>5. \A q \in Requests : q # r => Finals(q)' = Finals(q)
  BY <1>2 DEF Finals
<1> QED BY <1>1, <1>2, <1>3, <1>4, <1>5

\* A request that ends with one event, given how it stood before.
LEMMA FinalEvent ==
  ASSUME IInv, NEW r \in wire, NEW e \in {"REJECTED", "ERROR"},
         unavailable' \in {unavailable, unavailable \cup {r}},
         e = "REJECTED" => verdict[r] = "refused" \/ r \in unavailable',
         Dispatch(r, e), wire' = wire \ {r},
         UNCHANGED <<connection, verdict>>, fatal' \in BOOLEAN
  PROVE  IInv'
<1> USE DEF IInv
<1>1. r \in Requests /\ Sent(r) /\ Finals(r) = {}
  BY FinalFacts
<1>2. /\ told' \in [Requests -> Seq(Events)]
      /\ \A q \in Requests : q # r => told'[q] = told[q]
  BY FinalFacts
<1>3. /\ DOMAIN told'[r] = 1..(Len(told[r]) + 1)
      /\ told'[r][Len(told[r]) + 1] = e
      /\ \A i \in DOMAIN told[r] : told'[r][i] = told[r][i]
      /\ DOMAIN told[r] = 1..Len(told[r]) /\ Len(told[r]) \in Nat
  BY FinalFacts
<1>4. Finals(r)' = {Len(told[r]) + 1}
  BY FinalFacts
<1>5. \A q \in Requests : q # r => Finals(q)' = Finals(q)
  BY FinalFacts
<1>6. \A q : Sent(q)' <=> Sent(q)
  BY DEF Sent
<1>7. TypeOK'
  BY <1>2, <1>6 DEF TypeOK
<1>8. UnsentIsSilent'
  BY <1>1, <1>2, <1>6 DEF UnsentIsSilent
<1>9. EveryRequestAccountedFor'
  <2> SUFFICES ASSUME NEW q \in Requests, Sent(q)
               PROVE  \/ q \in wire' /\ Finals(q)' = {}
                      \/ /\ q \notin wire' /\ Finals(q)' = {}
                         /\ verdict'[q] = "accepted"
                      \/ /\ q \notin wire'
                         /\ \E i \in DOMAIN told'[q] : Finals(q)' = {i}
    BY <1>6 DEF EveryRequestAccountedFor
  <2>1. CASE q = r
    <3>1. r \notin wire'
      OBVIOUS
    <3>2. Len(told[r]) + 1 \in DOMAIN told'[r]
      BY <1>3
    <3> QED BY <2>1, <3>1, <3>2, <1>4
  <2>2. CASE q # r
    BY <2>2, <1>2, <1>5 DEF EveryRequestAccountedFor
  <2> QED BY <2>1, <2>2
<1>10. RejectedMeansRefused'
  <2> SUFFICES ASSUME NEW q \in Requests, NEW i \in DOMAIN told'[q],
                      told'[q][i] = "REJECTED"
               PROVE  verdict[q] = "refused" \/ q \in unavailable'
    BY DEF RejectedMeansRefused
  <2>1. CASE q = r /\ i = Len(told[r]) + 1
    BY <2>1, <1>3
  <2>2. CASE q = r /\ i # Len(told[r]) + 1
    <3>1. i \in DOMAIN told[r]
      BY <2>2, <1>3
    <3>2. told[r][i] = "REJECTED"
      BY <2>2, <3>1, <1>3
    <3> QED BY <2>2, <3>1, <3>2, <1>1 DEF RejectedMeansRefused
  <2>3. CASE q # r
    BY <2>3, <1>2 DEF RejectedMeansRefused
  <2> QED BY <2>1, <2>2, <2>3
<1> QED BY <1>7, <1>8, <1>9, <1>10

\* Sending requests that were never sent, with FORWARDED for some of them.
LEMMA Sending ==
  ASSUME IInv, NEW all \in SUBSET Requests, \A r \in all : ~Sent(r),
         NEW acked \in SUBSET all,
         wire' = wire \cup all,
         verdict' = [r \in Requests |->
                       IF r \in all THEN "undecided" ELSE verdict[r]],
         told' = [r \in Requests |->
                    IF r \in acked THEN Append(told[r], "FORWARDED")
                                   ELSE told[r]],
         UNCHANGED <<connection, fatal, unavailable>>
  PROVE  IInv'
<1> USE DEF IInv
<1>1. \A r \in all : told[r] = <<>>
  BY DEF UnsentIsSilent
<1>2. ASSUME NEW r \in acked
      PROVE  /\ told'[r] = <<"FORWARDED">>
             /\ DOMAIN told'[r] = {1} /\ told'[r][1] = "FORWARDED"
  <2>1. r \in Requests /\ told[r] = <<>>
    BY <1>1
  <2>2. told'[r] = Append(<<>>, "FORWARDED")
    BY <2>1
  <2>3. Append(<<>>, "FORWARDED") = <<"FORWARDED">>
    OBVIOUS
  <2>4. DOMAIN <<"FORWARDED">> = {1} /\ <<"FORWARDED">>[1] = "FORWARDED"
    OBVIOUS
  <2> HIDE DEF IInv
  <2> QED BY <2>2, <2>3, <2>4, Zenon
<1>3. \A r \in Requests : r \notin acked => told'[r] = told[r]
  OBVIOUS
<1>4. \A r \in Requests : Finals(r)' = Finals(r)
  <2>1. \A r \in acked : Finals(r)' = {} /\ Finals(r) = {}
    BY <1>1, <1>2 DEF Finals
  <2> QED BY <2>1, <1>3 DEF Finals
<1>5. \A r \in Requests : Sent(r)' <=> r \in all \/ Sent(r)
  BY DEF Sent
<1>6. TypeOK'
  BY <1>2, <1>3, <1>5 DEF TypeOK, Verdicts, Events
<1>7. UnsentIsSilent'
  BY <1>3, <1>5 DEF UnsentIsSilent
<1>8. \A r \in all : Finals(r) = {}
  BY <1>1 DEF Finals
<1>9. EveryRequestAccountedFor'
  <2> SUFFICES ASSUME NEW r \in Requests, Sent(r)'
               PROVE  \/ r \in wire' /\ Finals(r)' = {}
                      \/ /\ r \notin wire' /\ Finals(r)' = {}
                         /\ verdict'[r] = "accepted"
                      \/ /\ r \notin wire'
                         /\ \E i \in DOMAIN told'[r] : Finals(r)' = {i}
    BY DEF EveryRequestAccountedFor
  <2>1. CASE r \in all
    BY <2>1, <1>4, <1>8
  <2>2. CASE r \notin all
    BY <2>2, <1>3, <1>4, <1>5 DEF EveryRequestAccountedFor
  <2> QED BY <2>1, <2>2
<1>10. RejectedMeansRefused'
  <2> SUFFICES ASSUME NEW r \in Requests, NEW i \in DOMAIN told'[r],
                      told'[r][i] = "REJECTED"
               PROVE  verdict'[r] = "refused" \/ r \in unavailable'
    BY DEF RejectedMeansRefused
  <2>1. r \notin acked
    <3> SUFFICES ASSUME r \in acked PROVE FALSE
      OBVIOUS
    <3>1. DOMAIN told'[r] = {1} /\ told'[r][1] = "FORWARDED"
      BY <1>2
    <3> QED BY <3>1
  <2>2. i \in DOMAIN told[r] /\ told[r][i] = "REJECTED"
    BY <2>1, <1>3
  <2>3. r \notin all
    BY <2>2, <1>1
  <2> QED BY <2>2, <2>3 DEF RejectedMeansRefused
<1> QED BY <1>6, <1>7, <1>9, <1>10

\* A step that moves neither events nor the wire: verdicts may be reached.
LEMMA Deciding ==
  ASSUME IInv, UNCHANGED <<wire, told, unavailable>>,
         connection' \in {"down", "up", "closing"}, fatal' \in BOOLEAN,
         verdict' \in [Requests -> Verdicts],
         \A r \in Requests : verdict[r] # "undecided"
                               => verdict'[r] = verdict[r],
         \A r \in Requests : Sent(r) => Sent(r)'
  PROVE  IInv'
<1> USE DEF IInv
<1>1. \A r \in Requests : Sent(r)' <=> Sent(r)
  BY DEF Sent
<1>2. \A r \in Requests : Finals(r)' = Finals(r)
  BY DEF Finals
<1>3. TypeOK'
  BY <1>1 DEF TypeOK
<1>4. UnsentIsSilent'
  BY <1>1 DEF UnsentIsSilent
<1>5. EveryRequestAccountedFor'
  BY <1>1, <1>2 DEF EveryRequestAccountedFor
<1>6. RejectedMeansRefused'
  BY DEF RejectedMeansRefused
<1> QED BY <1>3, <1>4, <1>5, <1>6

\* The answer that accepts a request ends it without an event.
LEMMA Accepting ==
  ASSUME IInv, NEW r \in Requests, Accepted(r)
  PROVE  IInv'
<1> USE DEF IInv
<1>1. /\ r \in wire /\ verdict[r] = "accepted" /\ wire' = wire \ {r}
      /\ UNCHANGED <<verdict, told, fatal, unavailable>>
      /\ connection' \in {"closing", connection}
  BY DEF Accepted, Answerable
<1>2. \A q \in Requests : /\ Finals(q)' = Finals(q)
                          /\ Sent(q)' <=> Sent(q)
  BY <1>1 DEF Finals, Sent
<1>3. TypeOK'
  BY <1>1, <1>2 DEF TypeOK
<1>4. UnsentIsSilent'
  BY <1>1, <1>2 DEF UnsentIsSilent
<1>5. EveryRequestAccountedFor'
  BY <1>1, <1>2 DEF EveryRequestAccountedFor
<1>6. RejectedMeansRefused'
  BY <1>1 DEF RejectedMeansRefused
<1> QED BY <1>3, <1>4, <1>5, <1>6

LEMMA RequestKinds ==
  /\ \A o \in Orders : Create(o) \in Requests /\ Cancel(o) \in Requests
  /\ \A s \in Symbols : CancelAll(s) \in Requests
                        /\ CancelAll(s) \in CancelAlls
  BY DEF Requests, OrderRequests, CancelAlls

THEOREM Invariance == Spec => []IInv
<1>1. Init => IInv
  <2> SUFFICES ASSUME Init PROVE IInv
    OBVIOUS
  <2>1. \A r \in Requests : ~Sent(r) /\ told[r] = <<>>
    BY DEF Init, Sent
  <2>2. TypeOK
    <3>1. told \in [Requests -> Seq(Events)]
      <4>1. <<>> \in Seq(Events)
        OBVIOUS
      <4> QED BY <4>1, Zenon DEF Init
    <3>2. verdict \in [Requests -> Verdicts]
      BY DEF Init, Verdicts
    <3> QED BY <3>1, <3>2 DEF Init, TypeOK
  <2>3. UnsentIsSilent /\ EveryRequestAccountedFor
    BY <2>1 DEF UnsentIsSilent, EveryRequestAccountedFor
  <2>4. RejectedMeansRefused
    BY <2>1 DEF RejectedMeansRefused
  <2> QED BY <2>2, <2>3, <2>4 DEF IInv
<1>2. IInv /\ [Next]_vars => IInv'
  <2> SUFFICES ASSUME IInv, [Next]_vars PROVE IInv'
    OBVIOUS
  <2> USE RequestKinds
  <2>1. CASE Connected
    BY <2>1, Deciding DEF Connected, IInv, TypeOK, Sent
  <2>2. CASE Disconnected
    BY <2>2, Deciding DEF Disconnected, IInv, TypeOK, Sent
  <2>3. ASSUME NEW o \in Orders, CreateOrder(o) PROVE IInv'
    <3> DEFINE all == {Create(o)}
               acked == {}
    <3>1. /\ verdict' = [r \in Requests |->
                           IF r \in all THEN "undecided" ELSE verdict[r]]
          /\ told' = [r \in Requests |->
                        IF r \in acked THEN Append(told[r], "FORWARDED")
                                       ELSE told[r]]
      BY <2>3 DEF CreateOrder, IInv, TypeOK
    <3>2. /\ all \in SUBSET Requests /\ acked \in SUBSET all
          /\ \A r \in all : ~Sent(r)
          /\ wire' = wire \cup all /\ UNCHANGED <<connection, fatal, unavailable>>
      BY <2>3 DEF CreateOrder
    <3> HIDE DEF all, acked
    <3> QED BY <3>1, <3>2, Sending
  <2>4. ASSUME NEW o \in Orders, CancelOrder(o) PROVE IInv'
    <3> DEFINE all == {Cancel(o)}
               acked == {}
    <3>1. /\ verdict' = [r \in Requests |->
                           IF r \in all THEN "undecided" ELSE verdict[r]]
          /\ told' = [r \in Requests |->
                        IF r \in acked THEN Append(told[r], "FORWARDED")
                                       ELSE told[r]]
      BY <2>4 DEF CancelOrder, IInv, TypeOK
    <3>2. /\ all \in SUBSET Requests /\ acked \in SUBSET all
          /\ \A r \in all : ~Sent(r)
          /\ wire' = wire \cup all /\ UNCHANGED <<connection, fatal, unavailable>>
      BY <2>4 DEF CancelOrder
    <3> HIDE DEF all, acked
    <3> QED BY <3>1, <3>2, Sending
  <2>5. CASE CancelAllOrders
    <3> DEFINE all == {CancelAll(SymbolOf[o]) :
                         o \in {p \in Orders : Sent(Create(p))}}
    <3>1. \A o \in Orders : SymbolOf[o] \in Symbols
      BY OrdersAssumption
    <3>2. all \in SUBSET Requests /\ \A r \in all : ~Sent(r)
      BY <2>5, <3>1 DEF CancelAllOrders
    <3>3. /\ wire' = wire \cup all
          /\ verdict' = [r \in Requests |->
                           IF r \in all THEN "undecided" ELSE verdict[r]]
          /\ told' = [r \in Requests |->
                        IF r \in all THEN Append(told[r], "FORWARDED")
                                     ELSE told[r]]
          /\ UNCHANGED <<connection, fatal, unavailable>>
      BY <2>5 DEF CancelAllOrders
    <3> HIDE DEF all
    <3> QED BY <3>2, <3>3, Sending
  <2>6. ASSUME NEW r \in Requests, NEW outcome \in {"accepted", "refused"},
               ExchangeDecides(r, outcome)
        PROVE  IInv'
    BY <2>6, Deciding DEF ExchangeDecides, IInv, TypeOK, Sent, Verdicts
  <2>7. ASSUME NEW r \in Requests, Accepted(r) PROVE IInv'
    BY <2>7, Accepting
  <2>8. ASSUME NEW r \in Requests, Refused(r) PROVE IInv'
    <3>1. r \in wire /\ fatal' \in BOOLEAN
      BY <2>8 DEF Refused, Answerable, IInv, TypeOK
    <3> QED BY <2>8, <3>1, FinalEvent DEF Refused
  <2>12. ASSUME NEW r \in Requests, ServerError(r) PROVE IInv'
    <3>1. r \in wire /\ fatal' \in BOOLEAN
      BY <2>12 DEF ServerError, Answerable, IInv, TypeOK
    <3> QED BY <2>12, <3>1, FinalEvent DEF ServerError
  <2>9. ASSUME NEW r \in Requests, NetworkError(r) PROVE IInv'
    <3>1. r \in wire /\ fatal' \in BOOLEAN
      BY <2>9 DEF NetworkError, IInv, TypeOK
    <3> QED BY <2>9, <3>1, FinalEvent DEF NetworkError
  <2>10. ASSUME NEW r \in Requests, BadAnswer(r) PROVE IInv'
    <3>1. r \in wire /\ fatal \in BOOLEAN
      BY <2>10 DEF BadAnswer, Answerable, IInv, TypeOK
    <3>2. CASE wire' = wire \ {r} /\ Dispatch(r, "ERROR") /\ UNCHANGED fatal
      BY <2>10, <3>1, <3>2, FinalEvent DEF BadAnswer
    <3>3. CASE fatal' = TRUE /\ UNCHANGED <<wire, told>>
      BY <2>10, <3>3, Deciding DEF BadAnswer, IInv, TypeOK, Sent
    <3> QED BY <2>10, <3>2, <3>3 DEF BadAnswer
  <2>11. CASE UNCHANGED vars
    BY <2>11, Deciding DEF vars, IInv, TypeOK, Sent
  <2> QED BY <2>1, <2>2, <2>3, <2>4, <2>5, <2>6, <2>7, <2>8, <2>9, <2>10,
             <2>11, <2>12 DEF Next
<1> QED BY <1>1, <1>2, PTL DEF Spec

-----------------------------------------------------------------------------
\* TypeOK: every variable has its type; only requests sent are on the wire.
THEOREM RequestTypes == Spec => []TypeOK
<1>1. IInv => TypeOK
  BY DEF IInv
<1> QED BY <1>1, Invariance, PTL

\* EveryRequestAccountedFor: every request sent is on the wire, or accepted
\* in silence, or has been answered to its client exactly once.
THEOREM RequestsAreAccountedFor == Spec => []EveryRequestAccountedFor
<1>1. IInv => EveryRequestAccountedFor
  BY DEF IInv
<1> QED BY <1>1, Invariance, PTL

\* RejectedMeansRefused: no client is told REJECTED of a request that the
\* exchange accepted or may still accept, an HTTP 5xx excepted.
THEOREM RejectionsAreTrue == Spec => []RejectedMeansRefused
<1>1. IInv => RejectedMeansRefused
  BY DEF IInv
<1> QED BY <1>1, Invariance, PTL

-----------------------------------------------------------------------------
(* v1 without network failures, where nothing closes the connection. *)

\* Whatever is on the wire has a connection that is up.
CarriedByConnection == wire # {} => connection = "up"

NeverClosing == connection \in {"down", "up"}

\* NoErrorWithoutOutage on v1: as long as the network holds, no client is
\* told of an error.
THEOREM NoErrorsOnV1 ==
  ASSUME Api = "v1", ~NetworkFails
  PROVE  Spec => []NoErrorWithoutOutage
<1> DEFINE Inv == NeverClosing /\ CarriedByConnection /\ NoErrorWithoutOutage
<1>1. Init => Inv
  BY DEF Init, NeverClosing, CarriedByConnection, NoErrorWithoutOutage
<1>2. IInv /\ Inv /\ [Next]_vars => Inv'
  <2> SUFFICES ASSUME IInv, Inv, [Next]_vars PROVE Inv'
    OBVIOUS
  <2> USE DEF NeverClosing, CarriedByConnection
  <2>1. CASE Connected \/ Disconnected \/ UNCHANGED vars
    BY <2>1 DEF Connected, Disconnected, vars, NoErrorWithoutOutage
  <2>2. ASSUME NEW o \in Orders, CreateOrder(o) \/ CancelOrder(o) PROVE Inv'
    BY <2>2 DEF CreateOrder, CancelOrder, Ready, NoErrorWithoutOutage
  <2>3. CASE CancelAllOrders
    <3>1. connection = "up" /\ UNCHANGED connection
      BY <2>3 DEF CancelAllOrders, Ready
    <3>2. \A r \in Requests : \/ told'[r] = told[r]
                              \/ told'[r] = Append(told[r], "FORWARDED")
      BY <2>3 DEF CancelAllOrders
    <3>3. NoErrorWithoutOutage'
      <4> SUFFICES ASSUME NEW r \in Requests, NEW i \in DOMAIN told'[r]
                   PROVE  told'[r][i] # "ERROR"
        BY DEF NoErrorWithoutOutage
      <4>1. told[r] \in Seq(Events)
        BY DEF IInv, TypeOK
      <4>2. CASE told'[r] = Append(told[r], "FORWARDED")
        BY <4>1, <4>2 DEF NoErrorWithoutOutage
      <4> QED BY <3>2, <4>2 DEF NoErrorWithoutOutage
    <3> QED BY <3>1, <3>3
  <2>4. ASSUME NEW r \in Requests, NEW outcome \in {"accepted", "refused"},
               ExchangeDecides(r, outcome)
        PROVE  Inv'
    BY <2>4 DEF ExchangeDecides, NoErrorWithoutOutage
  <2>5. ASSUME NEW r \in Requests, Accepted(r) PROVE Inv'
    BY <2>5 DEF Accepted, Answerable, NoErrorWithoutOutage
  <2>6. ASSUME NEW r \in Requests, Refused(r) PROVE Inv'
    <3>1. /\ connection = "up" /\ UNCHANGED connection
          /\ told' = [told EXCEPT ![r] = Append(@, "REJECTED")]
      BY <2>6 DEF Refused, Answerable, Dispatch
    <3>2. told \in [Requests -> Seq(Events)]
      BY DEF IInv, TypeOK
    <3>3. NoErrorWithoutOutage'
      <4> SUFFICES ASSUME NEW q \in Requests, NEW i \in DOMAIN told'[q]
                   PROVE  told'[q][i] # "ERROR"
        BY DEF NoErrorWithoutOutage
      <4>1. told[q] \in Seq(Events)
        BY <3>2
      <4>2. CASE q = r
        <5>1. told'[q] = Append(told[q], "REJECTED")
          BY <3>1, <3>2, <4>2
        <5> QED BY <4>1, <5>1 DEF NoErrorWithoutOutage
      <4>3. CASE q # r
        BY <3>1, <3>2, <4>3 DEF NoErrorWithoutOutage
      <4> QED BY <4>2, <4>3
    <3> QED BY <3>1, <3>3
  <2>7. ASSUME NEW r \in Requests,
               ServerError(r) \/ NetworkError(r) \/ BadAnswer(r)
        PROVE  FALSE
    BY <2>7 DEF ServerError, NetworkError, BadAnswer, Answerable
  <2> QED BY <2>1, <2>2, <2>3, <2>4, <2>5, <2>6, <2>7 DEF Next
<1>3. Inv => NoErrorWithoutOutage
  OBVIOUS
<1> QED BY <1>1, <1>2, <1>3, Invariance, PTL DEF Spec

-----------------------------------------------------------------------------
(* Refinement *)

heardBar == [r \in Requests |-> Heard(r)]

\* A request that ends with one event is told its verdict, or that nobody
\* knows.
LEMMA TellStep ==
  ASSUME IInv, NEW r \in wire, NEW e \in {"REJECTED", "ERROR"},
         unavailable' \in {unavailable, unavailable \cup {r}},
         e = "REJECTED" => verdict[r] = "refused" \/ r \in unavailable',
         Dispatch(r, e), wire' = wire \ {r}, UNCHANGED verdict
  PROVE  Outcomes!Next
<1> DEFINE n == Len(told[r]) + 1
           what == IF e = "REJECTED" /\ r \notin unavailable'
                     THEN "refused" ELSE "unknown"
<1>1. /\ r \in Requests /\ Finals(r)' = {n} /\ told'[r][n] = e
      /\ \A q \in Requests : q # r => /\ told'[q] = told[q]
                                     /\ Finals(q)' = Finals(q)
  BY FinalFacts
<1> HIDE DEF n
<1>2. Heard(r)' = what
  <2>1. Finals(r)' # {} /\ n \in Finals(r)'
    BY <1>1
  <2>2. CASE e = "REJECTED" /\ r \notin unavailable'
    <3>1. \E i \in Finals(r)' : /\ Finals(r)' = {i} /\ told'[r][i] = "REJECTED"
                                /\ r \notin unavailable'
      BY <1>1, <2>1, <2>2
    <3>2. ~\E i \in Finals(r)' : /\ Finals(r)' = {i}
                                 /\ \/ told'[r][i] = "ERROR"
                                    \/ r \in unavailable'
      BY <1>1, <2>2
    <3> QED BY <2>1, <2>2, <3>1, <3>2, Zenon DEF Heard
  <2>3. CASE e = "ERROR" \/ r \in unavailable'
    <3>1. ~\E i \in Finals(r)' : /\ Finals(r)' = {i}
                                 /\ told'[r][i] = "REJECTED"
                                 /\ r \notin unavailable'
      BY <1>1, <2>3
    <3>2. \E i \in Finals(r)' : /\ Finals(r)' = {i}
                                /\ \/ told'[r][i] = "ERROR"
                                   \/ r \in unavailable'
      BY <1>1, <2>1, <2>3
    <3>3. what = "unknown"
      BY <2>3
    <3> HIDE DEF what
    <3> QED BY <2>1, <3>1, <3>2, <3>3, Zenon DEF Heard
  <2> QED BY <2>2, <2>3
<1>3. \A q \in Requests : q # r => Heard(q)' = Heard(q)
  <2> SUFFICES ASSUME NEW q \in Requests, q # r PROVE Heard(q)' = Heard(q)
    OBVIOUS
  <2>1. /\ told'[q] = told[q] /\ Finals(q)' = Finals(q)
        /\ q \in unavailable' <=> q \in unavailable
    BY <1>1
  <2> QED BY <2>1, Zenon DEF Heard
<1>4. heardBar' = [heardBar EXCEPT ![r] = what]
  <2> HIDE DEF what
  <2> QED BY <1>2, <1>3 DEF heardBar
<1>5. /\ what \in {verdict[r], "unknown"}
      /\ what \in {"accepted", "refused", "unknown"}
  OBVIOUS
<1>6. Outcomes!Tell(r, what)
  <2> HIDE DEF what
  <2> QED BY <1>4, <1>5 DEF Outcomes!Tell, heardBar
<1> QED BY <1>1, <1>5, <1>6 DEF Outcomes!Next

\* Steps that add no final event leave what is heard alone.
LEMMA NothingHeard ==
  ASSUME \A r \in Requests : Finals(r)' = Finals(r),
         \A r \in Requests : \A i \in Finals(r) : told'[r][i] = told[r][i],
         UNCHANGED unavailable
  PROVE  UNCHANGED heardBar
<1> SUFFICES ASSUME NEW r \in Requests PROVE Heard(r)' = Heard(r)
  BY DEF heardBar
<1>1. /\ Finals(r)' = Finals(r) /\ UNCHANGED unavailable
      /\ \A i \in Finals(r) : told'[r][i] = told[r][i]
  OBVIOUS
<1>2. (\E i \in Finals(r)' : /\ Finals(r)' = {i} /\ told'[r][i] = "REJECTED"
                             /\ r \notin unavailable')
      <=> (\E i \in Finals(r) : /\ Finals(r) = {i} /\ told[r][i] = "REJECTED"
                                /\ r \notin unavailable)
  BY <1>1
<1>3. (\E i \in Finals(r)' : /\ Finals(r)' = {i}
                             /\ told'[r][i] = "ERROR" \/ r \in unavailable')
      <=> (\E i \in Finals(r) : /\ Finals(r) = {i}
                                /\ told[r][i] = "ERROR" \/ r \in unavailable)
  BY <1>1
<1> QED BY <1>1, <1>2, <1>3, Zenon DEF Heard

\* OutcomesRefined: order entry over REST implements RequestOutcomes for a
\* carrier that loses nothing.
THEOREM OrderEntryKeepsPromise == Spec => OutcomesRefined
<1>1. Init => Outcomes!Init
  <2> SUFFICES ASSUME Init PROVE Outcomes!Init
    OBVIOUS
  <2>1. \A r \in Requests : Finals(r) = {}
    BY DEF Init, Finals
  <2>2. \A r \in Requests : Heard(r) = "nothing"
    BY <2>1, Zenon DEF Heard
  <2>3. heardBar = [r \in Requests |-> "nothing"]
    BY <2>2 DEF heardBar
  <2> QED BY <2>3 DEF Init, Outcomes!Init, heardBar
<1>2. IInv /\ [Next]_vars => [Outcomes!Next]_Outcomes!vars
  <2> SUFFICES ASSUME IInv, [Next]_vars
               PROVE  Outcomes!Next \/ UNCHANGED Outcomes!vars
    OBVIOUS
  <2>1. ASSUME UNCHANGED <<told, unavailable>> PROVE UNCHANGED heardBar
    BY <2>1, NothingHeard DEF Finals
  <2>2. CASE Connected \/ Disconnected \/ UNCHANGED vars
    BY <2>1, <2>2 DEF Connected, Disconnected, vars, Outcomes!vars, heardBar
  <2>3. ASSUME NEW o \in Orders, CreateOrder(o) \/ CancelOrder(o)
        PROVE  Outcomes!Next
    <3>1. PICK r \in {Create(o), Cancel(o)} :
            /\ ~Sent(r) /\ wire' = wire \cup {r}
            /\ verdict' = [verdict EXCEPT ![r] = "undecided"]
            /\ UNCHANGED <<told, unavailable>>
      BY <2>3 DEF CreateOrder, CancelOrder
    <3>2. r \in Requests
      BY <3>1, RequestKinds
    <3>3. verdict' = [q \in Requests |-> IF q \in {r} THEN "undecided"
                                                      ELSE verdict[q]]
      BY <3>1 DEF IInv, TypeOK
    <3>4. Outcomes!Send({r})
      BY <2>1, <3>1, <3>3 DEF Outcomes!Send, Sent, heardBar
    <3>5. {r} \in SUBSET Requests
      BY <3>2
    <3> QED BY <3>4, <3>5 DEF Outcomes!Next
  <2>4. CASE CancelAllOrders
    <3> DEFINE all == {CancelAll(SymbolOf[o]) :
                         o \in {p \in Orders : Sent(Create(p))}}
    <3>1. \A o \in Orders : SymbolOf[o] \in Symbols
      BY OrdersAssumption
    <3>2. all \in SUBSET Requests /\ \A r \in all : ~Sent(r)
      BY <2>4, <3>1, RequestKinds DEF CancelAllOrders
    <3>3. /\ wire' = wire \cup all
          /\ verdict' = [r \in Requests |->
                           IF r \in all THEN "undecided" ELSE verdict[r]]
          /\ told' = [r \in Requests |->
                        IF r \in all THEN Append(told[r], "FORWARDED")
                                     ELSE told[r]]
          /\ UNCHANGED <<connection, fatal, unavailable>>
      BY <2>4 DEF CancelAllOrders
    <3> HIDE DEF all
    <3>4. \A r \in Requests : /\ Finals(r)' = Finals(r)
                              /\ \A i \in Finals(r) : told'[r][i] = told[r][i]
      <4> SUFFICES ASSUME NEW r \in Requests
                   PROVE  /\ Finals(r)' = Finals(r)
                          /\ \A i \in Finals(r) : told'[r][i] = told[r][i]
        OBVIOUS
      <4>1. CASE r \in all
        <5>1. told[r] = <<>>
          BY <3>2, <4>1 DEF IInv, UnsentIsSilent
        <5>2. told'[r] = Append(<<>>, "FORWARDED")
          BY <3>3, <4>1, <5>1
        <5>3. DOMAIN told'[r] = {1} /\ told'[r][1] = "FORWARDED"
          BY <5>2
        <5> QED BY <5>1, <5>3 DEF Finals
      <4>2. CASE r \notin all
        <5>1. told'[r] = told[r]
          BY <3>3, <4>2
        <5> QED BY <5>1 DEF Finals
      <4> QED BY <4>1, <4>2
    <3>5. UNCHANGED heardBar
      BY <3>3, <3>4, NothingHeard
    <3>6. Outcomes!Send(all)
      BY <3>2, <3>3, <3>5 DEF Outcomes!Send, Sent, heardBar
    <3> QED BY <3>2, <3>6 DEF Outcomes!Next
  <2>5. ASSUME NEW r \in Requests, NEW outcome \in {"accepted", "refused"},
               ExchangeDecides(r, outcome)
        PROVE  Outcomes!Next
    <3>1. Outcomes!Decide(r, outcome)
      BY <2>1, <2>5 DEF ExchangeDecides, Outcomes!Decide, heardBar
    <3> QED BY <3>1 DEF Outcomes!Next
  <2>6. ASSUME NEW r \in Requests, Accepted(r) PROVE Outcomes!Next
    <3>1. Outcomes!Consent(r)
      BY <2>1, <2>6 DEF Accepted, Answerable, Outcomes!Consent, heardBar
    <3> QED BY <3>1 DEF Outcomes!Next
  <2>7. ASSUME NEW r \in Requests,
               Refused(r) \/ ServerError(r) \/ NetworkError(r)
        PROVE  Outcomes!Next
    <3>1. r \in wire
      BY <2>7 DEF Refused, ServerError, NetworkError, Answerable
    <3> QED BY <2>7, <3>1, TellStep DEF Refused, ServerError, NetworkError,
                                        Answerable
  <2>8. ASSUME NEW r \in Requests, BadAnswer(r)
        PROVE  Outcomes!Next \/ UNCHANGED Outcomes!vars
    <3>1. CASE UNCHANGED <<wire, told>>
      BY <2>1, <2>8, <3>1 DEF BadAnswer, Outcomes!vars, heardBar
    <3>2. CASE wire' = wire \ {r} /\ Dispatch(r, "ERROR")
      <4>1. r \in wire /\ UNCHANGED <<verdict, unavailable>>
        BY <2>8 DEF BadAnswer, Answerable
      <4> QED BY <3>2, <4>1, TellStep
    <3> QED BY <2>8, <3>1, <3>2 DEF BadAnswer
  <2> QED BY <2>2, <2>3, <2>4, <2>5, <2>6, <2>7, <2>8 DEF Next
<1> QED BY <1>1, <1>2, Invariance, PTL DEF Spec, OutcomesRefined, Outcomes!Spec
=============================================================================
