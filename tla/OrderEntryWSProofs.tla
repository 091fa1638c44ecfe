------------------------- MODULE OrderEntryWSProofs -------------------------
(***************************************************************************)
(* Theorems about order requests over a web socket, for every set of       *)
(* orders and symbols, on both APIs.                                       *)
(***************************************************************************)
EXTENDS OrderEntryWS, TLAPS

(***************************************************************************)
(* The inductive invariant: the runs' invariants, and that a request which *)
(* was never sent has no events.                                           *)
(***************************************************************************)
UnsentIsSilent == \A r \in Requests : ~Sent(r) => told[r] = <<>>

IInv == TypeOK /\ UnsentIsSilent /\ SilenceExplained

\* What happens to a request that the exchange answers.
LEMMA Answering ==
  ASSUME IInv, NEW r \in Requests, Answers(r)
  PROVE  /\ r \in wire /\ told[r] = <<>> /\ Sent(r)
         /\ verdict[r] \in {"accepted", "refused"} /\ ~fatal
         /\ wire' = wire \ {r} /\ UNCHANGED <<connectionVars, verdict>>
  BY DEF IInv, TypeOK, Answers, Sent

\* A request that ends with one event.
LEMMA OneEvent ==
  ASSUME IInv, NEW r \in Requests, NEW e \in Events,
         Answers(r), Dispatch(r, e), UNCHANGED <<lost, fatal>>
  PROVE  IInv' /\ told'[r] = <<e>>
                /\ \A q \in Requests : q # r => told'[q] = told[q]
<1>1. /\ r \in wire /\ told[r] = <<>> /\ Sent(r)
      /\ wire' = wire \ {r} /\ UNCHANGED <<connectionVars, verdict>>
  BY Answering
<1>2. told \in [Requests -> Seq(Events)]
  BY DEF IInv, TypeOK
<1>3. /\ told' = [told EXCEPT ![r] = <<e>>]
      /\ <<e>> \in Seq(Events) /\ <<e>> # <<>>
  <2>1. Append(<<>>, e) = <<e>>
    OBVIOUS
  <2> QED BY <1>1, <2>1 DEF Dispatch
<1>4. /\ told'[r] = <<e>> /\ told' \in [Requests -> Seq(Events)]
      /\ \A q \in Requests : q # r => told'[q] = told[q]
  BY <1>2, <1>3, Zenon
<1>5. \A q \in Requests : Sent(q)' <=> Sent(q)
  BY <1>1 DEF Sent
<1>6. TypeOK'
  BY <1>1, <1>4, <1>5 DEF IInv, TypeOK, connectionVars
<1>7. UnsentIsSilent'
  BY <1>1, <1>4, <1>5 DEF IInv, UnsentIsSilent
<1>8. SilenceExplained'
  BY <1>1, <1>3, <1>4, <1>5 DEF IInv, SilenceExplained, connectionVars
<1> QED BY <1>4, <1>6, <1>7, <1>8 DEF IInv

\* A request that ends in silence, explained or with the process.
LEMMA NoEvent ==
  ASSUME IInv, NEW r \in Requests, Answers(r), UNCHANGED told,
         lost' \in {lost, lost \cup {r}}, fatal' \in {fatal, TRUE},
         \/ fatal' = TRUE
         \/ r \in lost'
         \/ api = "v5" /\ verdict[r] = "accepted" /\ r \notin CancelAlls
         \/ api = "v1" /\ r \in CancelAlls
  PROVE  IInv'
<1>1. /\ r \in wire /\ told[r] = <<>> /\ Sent(r) /\ ~fatal
      /\ wire' = wire \ {r} /\ UNCHANGED <<connectionVars, verdict>>
  BY Answering
<1>2. \A q \in Requests : Sent(q)' <=> Sent(q)
  BY <1>1 DEF Sent
<1>3. TypeOK'
  BY <1>1, <1>2 DEF IInv, TypeOK, connectionVars
<1>4. UnsentIsSilent'
  BY <1>1, <1>2 DEF IInv, UnsentIsSilent
<1>5. SilenceExplained'
  <2> SUFFICES ASSUME NEW q \in Requests, Sent(q), told[q] = <<>>, ~fatal'
               PROVE  \/ q \in wire' \cup lost'
                      \/ /\ api = "v5" /\ verdict'[q] = "accepted"
                         /\ q \notin CancelAlls
                      \/ api = "v1" /\ q \in CancelAlls
    BY <1>1, <1>2 DEF SilenceExplained, connectionVars
  <2>1. CASE q = r
    BY <2>1, <1>1
  <2>2. CASE q # r
    BY <2>2, <1>1 DEF IInv, SilenceExplained
  <2> QED BY <2>1, <2>2
<1> QED BY <1>3, <1>4, <1>5 DEF IInv

\* Sending requests that were never sent.
LEMMA NewRequests ==
  ASSUME IInv, NEW S \in SUBSET Requests, \A r \in S : ~Sent(r),
         socket # "down", Sending(S)
  PROVE  IInv'
<1>1. /\ wire' = wire \cup S
      /\ \A r \in Requests : verdict'[r] = IF r \in S THEN "undecided"
                                                      ELSE verdict[r]
      /\ verdict' \in [Requests ->
                         {"unsent", "undecided", "accepted", "refused"}]
      /\ UNCHANGED <<connectionVars, told, lost, fatal>>
  BY DEF Sending, IInv, TypeOK
<1>2. \A r \in Requests : Sent(r)' <=> r \in S \/ Sent(r)
  BY <1>1 DEF Sent
<1>3. TypeOK'
  BY <1>1, <1>2 DEF IInv, TypeOK, UnsentIsSilent, connectionVars
<1>4. UnsentIsSilent'
  BY <1>1, <1>2 DEF IInv, UnsentIsSilent
<1>5. SilenceExplained'
  BY <1>1, <1>2 DEF IInv, SilenceExplained, connectionVars
<1> QED BY <1>3, <1>4, <1>5 DEF IInv

LEMMA RequestKinds ==
  /\ \A o \in Orders : Create(o) \in Requests /\ Cancel(o) \in Requests
  /\ \A s \in Symbols : CancelAll(s) \in Requests
                        /\ CancelAll(s) \in CancelAlls
  BY DEF Requests, CancelAlls

\* The requests that a step of the clients sends.
LEMMA ClientsSend ==
  ASSUME IInv,
         \/ \E o \in Orders : CreateOrder(o) \/ CancelOrder(o)
         \/ CancelAllOrders
  PROVE  \E S \in SUBSET Requests :
           (\A r \in S : ~Sent(r)) /\ socket # "down" /\ Sending(S)
<1>1. ASSUME NEW o \in Orders, CreateOrder(o)
      PROVE  /\ {Create(o)} \in SUBSET Requests
             /\ \A r \in {Create(o)} : ~Sent(r)
             /\ socket # "down" /\ Sending({Create(o)})
  BY <1>1, RequestKinds DEF CreateOrder
<1>2. ASSUME NEW o \in Orders, CancelOrder(o)
      PROVE  /\ {Cancel(o)} \in SUBSET Requests
             /\ \A r \in {Cancel(o)} : ~Sent(r)
             /\ socket # "down" /\ Sending({Cancel(o)})
  BY <1>2, RequestKinds DEF CancelOrder
<1>3. ASSUME CancelAllOrders
      PROVE  \E S \in SUBSET Requests :
               (\A r \in S : ~Sent(r)) /\ socket # "down" /\ Sending(S)
  <2> DEFINE S == {CancelAll(SymbolOf[o]) :
                     o \in {p \in Orders : Sent(Create(p))}}
  <2>1. \A o \in Orders : SymbolOf[o] \in Symbols
    BY OrdersAssumption
  <2>2. S \in SUBSET Requests /\ \A r \in S : ~Sent(r)
    BY <1>3, <2>1, RequestKinds DEF CancelAllOrders
  <2>3. socket # "down" /\ Sending(S)
    BY <1>3 DEF CancelAllOrders
  <2> HIDE DEF S
  <2> QED BY <2>2, <2>3
<1> QED BY <1>1, <1>2, <1>3

THEOREM Invariance == Spec => []IInv
<1>1. Init => IInv
  <2> SUFFICES ASSUME Init PROVE IInv
    OBVIOUS
  <2>1. \A r \in Requests : ~Sent(r) /\ told[r] = <<>>
    BY DEF Init, Sent
  <2>2. told \in [Requests -> Seq(Events)]
    <3>1. <<>> \in Seq(Events)
      OBVIOUS
    <3> QED BY <3>1, Zenon DEF Init
  <2>3. TypeOK
    BY <2>2 DEF Init, TypeOK
  <2> QED BY <2>1, <2>3 DEF IInv, UnsentIsSilent, SilenceExplained
<1>2. IInv /\ [Next]_vars => IInv'
  <2> SUFFICES ASSUME IInv, [Next]_vars PROVE IInv'
    OBVIOUS
  <2> USE DEF connectionVars, requestVars
  <2>1. CASE SocketReady
    BY <2>1 DEF SocketReady, IInv, TypeOK, UnsentIsSilent, SilenceExplained,
                Sent
  <2>2. CASE SocketDisconnected
    BY <2>2 DEF SocketDisconnected, IInv, TypeOK, UnsentIsSilent,
                SilenceExplained, Sent
  <2>3. CASE \/ ExchangeCloses \/ LogonAccepted \/ LogonRefused
             \/ Dead \/ UNCHANGED vars
    BY <2>3 DEF ExchangeCloses, LogonAccepted, LogonRefused, Dead, vars, IInv,
                TypeOK, UnsentIsSilent, SilenceExplained, Sent
  <2>4. CASE \/ \E o \in Orders : CreateOrder(o) \/ CancelOrder(o)
             \/ CancelAllOrders
    BY <2>4, ClientsSend, NewRequests
  <2>5. ASSUME NEW r \in Requests, NEW outcome \in {"accepted", "refused"},
               ExchangeDecides(r, outcome)
        PROVE  IInv'
    <3>1. /\ verdict[r] = "undecided"
          /\ verdict' = [verdict EXCEPT ![r] = outcome]
          /\ UNCHANGED <<connectionVars, wire, told, lost, fatal>>
      BY <2>5 DEF ExchangeDecides
    <3>2. \A q \in Requests : /\ Sent(q)' <=> Sent(q)
                              /\ verdict[q] = "accepted"
                                   => verdict'[q] = "accepted"
      BY <3>1 DEF IInv, TypeOK, Sent
    <3>3. TypeOK'
      BY <3>1, <3>2 DEF IInv, TypeOK
    <3>4. UnsentIsSilent' /\ SilenceExplained'
      BY <3>1, <3>2 DEF IInv, UnsentIsSilent, SilenceExplained
    <3> QED BY <3>3, <3>4 DEF IInv
  <2>6. ASSUME NEW r \in Requests, Error2(r) PROVE IInv'
    BY <2>6, NoEvent DEF Error2
  <2>7. ASSUME NEW r \in Requests, Response5(r) PROVE IInv'
    <3>1. verdict[r] \in {"accepted", "refused"}
      BY <2>7, Answering DEF Response5
    <3> QED BY <2>7, <3>1, OneEvent, NoEvent DEF Response5, Events
  <2>8. ASSUME NEW r \in Requests, Response(r) PROVE IInv'
    BY <2>8, OneEvent, NoEvent DEF Response, Events
  <2> QED BY <2>1, <2>2, <2>3, <2>4, <2>5, <2>6, <2>7, <2>8 DEF Next
<1> QED BY <1>1, <1>2, PTL DEF Spec

-----------------------------------------------------------------------------
\* TypeOK: every variable has its type, and what is on the wire was sent on a
\* connection that is there and has not been answered.
THEOREM RequestTypes == Spec => []TypeOK
<1>1. IInv => TypeOK
  BY DEF IInv
<1> QED BY <1>1, Invariance, PTL

\* SilenceExplained: a request that nobody hears of is on the wire, accepted,
\* a cancel-all on v1, or lost with its answer.
THEOREM SilenceIsExplained == Spec => []SilenceExplained
<1>1. IInv => SilenceExplained
  BY DEF IInv
<1> QED BY <1>1, Invariance, PTL

\* ReadyIsLoggedOn: on v5 the stream is READY only when it is logged on.
THEOREM ReadyAfterLogon == Spec => []ReadyIsLoggedOn
<1>1. Init => ReadyIsLoggedOn
  BY DEF Init, ReadyIsLoggedOn
<1>2. ReadyIsLoggedOn /\ [Next]_vars => ReadyIsLoggedOn'
  BY DEF ReadyIsLoggedOn, Next, vars, connectionVars, SocketReady,
         SocketDisconnected, ExchangeCloses, LogonAccepted, LogonRefused,
         CreateOrder, CancelOrder, CancelAllOrders, Sending, ExchangeDecides,
         Answers, Error2, Response5, Response, Dead
<1> QED BY <1>1, <1>2, PTL DEF Spec

-----------------------------------------------------------------------------
(* Refinement *)

heardBar == [r \in Requests |-> Heard(told[r])]

\* A request that ends with an event is told its verdict.
LEMMA TellStep ==
  ASSUME IInv, NEW r \in Requests, NEW e \in Events,
         Answers(r), Dispatch(r, e), UNCHANGED <<lost, fatal>>,
         e = IF verdict[r] = "accepted" THEN "ACCEPTED" ELSE "REJECTED"
  PROVE  Outcomes!Next
<1>1. /\ r \in wire /\ verdict[r] \in {"accepted", "refused"}
      /\ wire' = wire \ {r} /\ UNCHANGED verdict
  BY Answering
<1>2. /\ told'[r] = <<e>>
      /\ \A q \in Requests : q # r => told'[q] = told[q]
  BY OneEvent
<1>3. Heard(<<e>>) = verdict[r]
  <2>1. CASE e = "ACCEPTED"
    <3>1. <<"ACCEPTED">> # <<>>
      OBVIOUS
    <3> QED BY <1>1, <2>1, <3>1 DEF Heard
  <2>2. CASE e = "REJECTED"
    <3>1. <<"REJECTED">> # <<>> /\ <<"REJECTED">> # <<"ACCEPTED">>
      OBVIOUS
    <3> QED BY <1>1, <2>2, <3>1 DEF Heard
  <2> QED BY <2>1, <2>2 DEF Events
<1>4. heardBar' = [heardBar EXCEPT ![r] = verdict[r]]
  BY <1>2, <1>3 DEF heardBar
<1>5. Outcomes!Tell(r, verdict[r])
  BY <1>1, <1>4 DEF Outcomes!Tell, heardBar
<1> QED BY <1>1, <1>5 DEF Outcomes!Next

\* A request that ends in silence is accepted or lost.
LEMMA SilentStep ==
  ASSUME IInv, NEW r \in Requests, Answers(r), UNCHANGED told
  PROVE  Outcomes!Next
<1>1. r \in wire /\ wire' = wire \ {r} /\ UNCHANGED verdict
  BY Answering
<1>2. UNCHANGED heardBar
  BY DEF heardBar
<1>3. Outcomes!Lose({r}) /\ {r} \in SUBSET wire
  BY <1>1, <1>2 DEF Outcomes!Lose, heardBar
<1> QED BY <1>3 DEF Outcomes!Next

\* OutcomesRefined: order entry over a web socket implements RequestOutcomes.
THEOREM OrderEntryKeepsPromise == Spec => OutcomesRefined
<1>1. Init => Outcomes!Init
  <2> SUFFICES ASSUME Init PROVE Outcomes!Init
    OBVIOUS
  <2>1. heardBar = [r \in Requests |-> "nothing"]
    BY DEF Init, heardBar, Heard
  <2> QED BY <2>1 DEF Init, Outcomes!Init, heardBar
<1>2. IInv /\ [Next]_vars => [Outcomes!Next]_Outcomes!vars
  <2> SUFFICES ASSUME IInv, [Next]_vars
               PROVE  Outcomes!Next \/ UNCHANGED Outcomes!vars
    OBVIOUS
  <2>1. CASE \/ SocketReady \/ ExchangeCloses \/ LogonAccepted
             \/ LogonRefused \/ Dead \/ UNCHANGED vars
    <3>1. UNCHANGED <<wire, verdict, told>>
      BY <2>1 DEF SocketReady, ExchangeCloses, LogonAccepted, LogonRefused,
                  Dead, vars, requestVars
    <3>2. UNCHANGED heardBar
      BY <3>1 DEF heardBar
    <3> QED BY <3>1, <3>2 DEF Outcomes!vars, heardBar
  <2>2. CASE SocketDisconnected
    <3>1. wire' = wire \ wire /\ UNCHANGED <<verdict, told>>
      BY <2>2 DEF SocketDisconnected
    <3>2. UNCHANGED heardBar
      BY <3>1 DEF heardBar
    <3>3. Outcomes!Lose(wire)
      BY <3>1, <3>2 DEF Outcomes!Lose, heardBar
    <3>4. wire \in SUBSET wire
      OBVIOUS
    <3> QED BY <3>3, <3>4 DEF Outcomes!Next
  <2>3. CASE \/ \E o \in Orders : CreateOrder(o) \/ CancelOrder(o)
             \/ CancelAllOrders
    <3>1. PICK S \in SUBSET Requests :
            (\A r \in S : ~Sent(r)) /\ socket # "down" /\ Sending(S)
      BY <2>3, ClientsSend
    <3>2. UNCHANGED heardBar
      BY <3>1 DEF Sending, heardBar
    <3>3. Outcomes!Send(S)
      BY <3>1, <3>2 DEF Sending, Sent, Outcomes!Send, heardBar
    <3> QED BY <3>3 DEF Outcomes!Next
  <2>4. ASSUME NEW r \in Requests, NEW outcome \in {"accepted", "refused"},
               ExchangeDecides(r, outcome)
        PROVE  Outcomes!Next
    <3>1. UNCHANGED heardBar
      BY <2>4 DEF ExchangeDecides, heardBar
    <3>2. Outcomes!Decide(r, outcome)
      BY <2>4, <3>1 DEF ExchangeDecides, Outcomes!Decide, heardBar
    <3> QED BY <3>2 DEF Outcomes!Next
  <2>5. ASSUME NEW r \in Requests, Error2(r) PROVE Outcomes!Next
    BY <2>5, SilentStep DEF Error2
  <2>6. ASSUME NEW r \in Requests, Response5(r) PROVE Outcomes!Next
    <3>1. verdict[r] \in {"accepted", "refused"}
      BY <2>6, Answering DEF Response5
    <3> QED BY <2>6, <3>1, TellStep, SilentStep DEF Response5, Events
  <2>7. ASSUME NEW r \in Requests, Response(r) PROVE Outcomes!Next
    <3>1. verdict[r] \in {"accepted", "refused"}
      BY <2>7, Answering DEF Response
    <3> QED BY <2>7, <3>1, TellStep, SilentStep DEF Response, Events
  <2> QED BY <2>1, <2>2, <2>3, <2>4, <2>5, <2>6, <2>7 DEF Next
<1> QED BY <1>1, <1>2, Invariance, PTL DEF Spec, OutcomesRefined, Outcomes!Spec
=============================================================================
