----------------------------- MODULE RestProofs -----------------------------
(***************************************************************************)
(* Theorems about the client that asks for reference data over REST: its   *)
(* download of the contracts, for every set of contracts and every number  *)
(* of calls on the wire, and, at the end, the rate-limit interceptor which *)
(* it shares with every other client, for every backoff, clock offset,     *)
(* header value and horizon.                                               *)
(***************************************************************************)
EXTENDS RefDataDownload, Throttle, TLAPS

(***************************************************************************)
(* The inductive invariant.  Nothing is known that was not listed before,  *)
(* an answer to the present question is no older than the question, and    *)
(* while it is open, what is published is no newer.                        *)
(***************************************************************************)
ListedBefore ==
  /\ begun \subseteq listed /\ published \subseteq listed
  /\ \A c \in Calls : calls[c].info \subseteq listed

AnswersAreCurrent ==
  \A c \in Calls : calls[c].phase = "taken" /\ calls[c].current
                     => begun \subseteq calls[c].info

PublishedBefore == Downloading => published \subseteq begun

IInv ==
  /\ TypeOK /\ ReadyIsCurrent /\ DownloadIsDriven
  /\ ListedBefore /\ AnswersAreCurrent /\ PublishedBefore

-----------------------------------------------------------------------------
(* What the steps do to the calls *)

\* A call goes out: the others stay what they are in previous.
LEMMA Calling ==
  ASSUME NEW previous \in [Calls -> Call], GetContractInfo(previous)
  PROVE  /\ calls' \in [Calls -> Call]
         /\ connection_status' = "DOWNLOADING"
         /\ \E c \in Calls :
              /\ calls'[c] = Sent /\ calls[c] = Unused
              /\ \A d \in Calls : d # c => calls'[d] = previous[d]
<1>1. PICK c \in Calls : calls[c] = Unused /\ calls' = [previous EXCEPT ![c] = Sent]
  BY DEF GetContractInfo
<1>2. Sent \in Call
  BY DEF Sent, Call
<1>3. /\ calls' \in [Calls -> Call] /\ calls'[c] = Sent
      /\ \A d \in Calls : d # c => calls'[d] = previous[d]
  BY <1>1, <1>2
<1> QED BY <1>1, <1>3 DEF GetContractInfo

\* The question is asked anew, by a new call, and every other call is old.
LEMMA Asking ==
  ASSUME IInv, Ask
  PROVE  /\ calls' \in [Calls -> Call]
         /\ connection_status' = "DOWNLOADING" /\ state' = "CONTRACT_INFO"
         /\ begun' = listed /\ answered' = "nothing"
         /\ \E c \in Calls : calls'[c].phase = "sent" /\ calls'[c].current
         /\ \A c \in Calls : /\ calls'[c].phase = "taken"
                                  => ~calls'[c].current
                             /\ calls'[c].info \subseteq listed
<1> DEFINE old == [c \in Calls |-> [calls[c] EXCEPT !.current = FALSE]]
<1>1. /\ old \in [Calls -> Call]
      /\ \A c \in Calls : ~old[c].current /\ old[c].info = calls[c].info
  BY DEF IInv, TypeOK, Call
<1>2. /\ GetContractInfo(old) /\ state' = "CONTRACT_INFO"
      /\ begun' = listed /\ answered' = "nothing"
  BY DEF Ask
<1> HIDE DEF old
<1>3. PICK c \in Calls : calls'[c] = Sent
                         /\ \A d \in Calls : d # c => calls'[d] = old[d]
  BY <1>1, <1>2, Calling
<1>4. calls' \in [Calls -> Call] /\ connection_status' = "DOWNLOADING"
  BY <1>1, <1>2, Calling
<1>5. \A d \in Calls : /\ calls'[d].phase = "taken" => ~calls'[d].current
                       /\ calls'[d].info \subseteq listed
  BY <1>1, <1>3 DEF Sent, IInv, ListedBefore
<1> QED BY <1>2, <1>3, <1>4, <1>5 DEF Sent

\* One call changes, in a way that keeps the calls in order.
LEMMA OneCall ==
  ASSUME IInv, NEW c \in Calls, NEW call \in Call,
         calls' = [calls EXCEPT ![c] = call]
  PROVE  /\ calls' \in [Calls -> Call] /\ calls'[c] = call
         /\ \A d \in Calls : d # c => calls'[d] = calls[d]
  BY DEF IInv, TypeOK

-----------------------------------------------------------------------------
THEOREM Invariance == Spec => []IInv
<1>1. Init => IInv
  <2> SUFFICES ASSUME Init PROVE IInv
    OBVIOUS
  <2>1. /\ \A c \in Calls : calls[c] = Unused
        /\ calls \in [Calls -> Call]
    BY DEF Init, Unused, Call
  <2>2. TypeOK
    BY <2>1 DEF Init, TypeOK, State, Ready
  <2>3. ListedBefore /\ AnswersAreCurrent
    BY <2>1 DEF Init, ListedBefore, AnswersAreCurrent, Unused
  <2>4. ReadyIsCurrent /\ DownloadIsDriven /\ PublishedBefore
    BY DEF Init, ReadyIsCurrent, DownloadIsDriven, PublishedBefore, Ready,
           Downloading
  <2> QED BY <2>2, <2>3, <2>4 DEF IInv
<1>2. IInv /\ [Next]_vars => IInv'
  <2> SUFFICES ASSUME IInv, [Next]_vars PROVE IInv'
    OBVIOUS
  <2> USE DEF restVars, historyVars, Ready, Downloading
  <2>1. ASSUME Connected \/ Timer PROVE IInv'
    <3>1. /\ Ask /\ UNCHANGED <<retrying, all_symbols, listed, published>>
          /\ connected' \in BOOLEAN /\ next_refresh' = FALSE
      BY <2>1 DEF Connected, Timer, IInv, TypeOK, ReadyIsCurrent
    <3>2. TypeOK'
      BY <3>1, Asking DEF IInv, TypeOK, State
    <3>3. ReadyIsCurrent' /\ DownloadIsDriven'
      BY <3>1, Asking DEF ReadyIsCurrent, DownloadIsDriven
    <3>4. ListedBefore' /\ AnswersAreCurrent' /\ PublishedBefore'
      BY <3>1, Asking DEF IInv, ListedBefore, AnswersAreCurrent,
                          PublishedBefore
    <3> QED BY <3>2, <3>3, <3>4 DEF IInv
  <2>2. CASE Disconnected
    <3>1. /\ connected' = FALSE /\ connection_status' = "DISCONNECTED"
          /\ next_refresh' = FALSE
          /\ state' \in State /\ (Downloading' <=> Downloading)
          /\ UNCHANGED <<retrying, all_symbols, calls, listed, historyVars>>
      BY <2>2 DEF Disconnected, IInv, TypeOK, State
    <3>2. TypeOK'
      BY <3>1 DEF IInv, TypeOK
    <3>3. ReadyIsCurrent' /\ DownloadIsDriven' /\ PublishedBefore'
      BY <3>1 DEF IInv, ReadyIsCurrent, DownloadIsDriven, PublishedBefore
    <3>4. ListedBefore' /\ AnswersAreCurrent'
      BY <3>1 DEF IInv, ListedBefore, AnswersAreCurrent
    <3> QED BY <3>2, <3>3, <3>4 DEF IInv
  <2>3. CASE Retry
    <3>1. /\ retrying' = FALSE
          /\ UNCHANGED <<connected, state, next_refresh, all_symbols, listed,
                         historyVars>>
      BY <2>3 DEF Retry
    <3>2. CASE Downloading
      <4>1. GetContractInfo(calls) /\ calls \in [Calls -> Call]
        BY <2>3, <3>2 DEF Retry, IInv, TypeOK
      <4>2. PICK c \in Calls : /\ calls'[c] = Sent
                               /\ \A d \in Calls : d # c => calls'[d] = calls[d]
        BY <4>1, Calling
      <4>3. /\ calls' \in [Calls -> Call]
            /\ connection_status' = "DOWNLOADING" /\ ~next_refresh
        BY <3>2, <4>1, Calling DEF IInv, TypeOK
      <4>4. TypeOK'
        BY <3>1, <4>3 DEF IInv, TypeOK
      <4>5. ReadyIsCurrent' /\ DownloadIsDriven'
        BY <4>2, <4>3 DEF ReadyIsCurrent, DownloadIsDriven, Sent
      <4>6. ListedBefore' /\ AnswersAreCurrent' /\ PublishedBefore'
        BY <3>1, <4>2 DEF IInv, ListedBefore, AnswersAreCurrent,
                          PublishedBefore, Sent
      <4> QED BY <4>4, <4>5, <4>6 DEF IInv
    <3>3. CASE ~Downloading
      <4>1. UNCHANGED <<connection_status, calls>>
        BY <2>3, <3>3 DEF Retry
      <4>2. TypeOK'
        BY <3>1, <4>1 DEF IInv, TypeOK
      <4>3. ReadyIsCurrent' /\ DownloadIsDriven' /\ PublishedBefore'
        BY <3>1, <3>3, <4>1 DEF IInv, ReadyIsCurrent, DownloadIsDriven,
                                PublishedBefore
      <4>4. ListedBefore' /\ AnswersAreCurrent'
        BY <3>1, <4>1 DEF IInv, ListedBefore, AnswersAreCurrent
      <4> QED BY <4>2, <4>3, <4>4 DEF IInv
    <3> QED BY <3>2, <3>3
  <2>4. ASSUME NEW c \in Calls, HandleError(c) PROVE IInv'
    <3>1. /\ calls' = [calls EXCEPT ![c] = Unused] /\ Unused \in Call
          /\ retrying' = (retrying \/ Downloading)
          /\ UNCHANGED <<connected, connection_status, state, next_refresh,
                         all_symbols, listed, historyVars>>
      BY <2>4 DEF HandleError, Unused, Call
    <3>2. TypeOK'
      BY <3>1, OneCall DEF IInv, TypeOK
    <3>3. ReadyIsCurrent' /\ DownloadIsDriven' /\ PublishedBefore'
      BY <3>1 DEF IInv, ReadyIsCurrent, DownloadIsDriven, PublishedBefore
    <3>4. ListedBefore' /\ AnswersAreCurrent'
      BY <3>1, OneCall DEF IInv, ListedBefore, AnswersAreCurrent, Unused
    <3> QED BY <3>2, <3>3, <3>4 DEF IInv
  <2>5. ASSUME NEW c \in Calls, HandleSuccess(c) PROVE IInv'
    <3>1. /\ connected /\ calls[c].phase \in {"taken", "empty"}
          /\ calls' = [calls EXCEPT ![c] = Unused] /\ Unused \in Call
          /\ UNCHANGED <<connected, retrying, listed, begun>>
      BY <2>5 DEF HandleSuccess, Unused, Call
    <3>2. ListedBefore' /\ AnswersAreCurrent'
      <4>1. published' \in {published, calls[c].info}
        BY <2>5 DEF HandleSuccess, Publish
      <4> QED BY <3>1, <4>1, OneCall DEF IInv, ListedBefore,
                                          AnswersAreCurrent, Unused
    <3>3. CASE Skip(c)
      <4>1. UNCHANGED <<connection_status, state, next_refresh, all_symbols,
                        answered, published>>
        BY <2>5, <3>3 DEF HandleSuccess
      <4>2. TypeOK'
        BY <3>1, <4>1, OneCall DEF IInv, TypeOK
      <4>3. ReadyIsCurrent' /\ PublishedBefore'
        BY <3>1, <4>1 DEF IInv, ReadyIsCurrent, PublishedBefore
      <4>4. DownloadIsDriven'
        BY <3>1, <3>3, <4>1, OneCall DEF IInv, DownloadIsDriven, Skip
      <4> QED BY <3>2, <4>2, <4>3, <4>4 DEF IInv
    <3>4. CASE ~Skip(c)
      <4>1. /\ state' = "DONE" /\ connection_status' = "READY"
            /\ next_refresh' \in BOOLEAN /\ Publish(c)
        BY <2>5, <3>4, DownloadRefreshAssumption
           DEF HandleSuccess, IInv, TypeOK
      <4>2. calls[c].info \subseteq Contracts
        BY DEF IInv, TypeOK, Call
      <4>3. calls[c].phase = "taken" => begun \subseteq calls[c].info
        BY <3>4 DEF IInv, AnswersAreCurrent, Skip
      <4>4. TypeOK'
        BY <3>1, <4>1, <4>2, OneCall DEF IInv, TypeOK, State, Publish
      <4>5. ReadyIsCurrent' /\ DownloadIsDriven' /\ PublishedBefore'
        BY <3>1, <4>1, <4>3 DEF ReadyIsCurrent, DownloadIsDriven,
                                PublishedBefore, Publish
      <4> QED BY <3>2, <4>4, <4>5 DEF IInv
    <3> QED BY <3>3, <3>4
  <2>6. ASSUME NEW c \in Calls, TakeUp(c) PROVE IInv'
    <3> DEFINE call == [calls[c] EXCEPT !.phase = "taken", !.info = listed]
    <3>1. /\ call \in Call /\ call.info = listed
          /\ call.current = calls[c].current /\ call.phase = "taken"
      BY DEF IInv, TypeOK, Call
    <3>2. /\ calls[c].phase = "sent"
          /\ calls' = [calls EXCEPT ![c] = call]
          /\ UNCHANGED <<restVars, all_symbols, listed, historyVars>>
      BY <2>6 DEF TakeUp, IInv, TypeOK
    <3> HIDE DEF call
    <3>3. TypeOK'
      BY <3>1, <3>2, OneCall DEF IInv, TypeOK
    <3>4. ReadyIsCurrent' /\ PublishedBefore'
      BY <3>2 DEF IInv, ReadyIsCurrent, PublishedBefore
    <3>5. DownloadIsDriven'
      BY <3>1, <3>2, OneCall DEF IInv, DownloadIsDriven
    <3>6. ListedBefore' /\ AnswersAreCurrent'
      BY <3>1, <3>2, OneCall DEF IInv, ListedBefore, AnswersAreCurrent
    <3> QED BY <3>3, <3>4, <3>5, <3>6 DEF IInv
  <2>7. ASSUME NEW c \in Calls, AnswerEmpty(c) PROVE IInv'
    <3> DEFINE call == [calls[c] EXCEPT !.phase = "empty"]
    <3>1. /\ call \in Call /\ call.info = calls[c].info
          /\ call.current = calls[c].current /\ call.phase = "empty"
      BY DEF IInv, TypeOK, Call
    <3>2. /\ calls[c].phase = "sent"
          /\ calls' = [calls EXCEPT ![c] = call]
          /\ UNCHANGED <<restVars, all_symbols, listed, historyVars>>
      BY <2>7 DEF AnswerEmpty, IInv, TypeOK
    <3> HIDE DEF call
    <3>3. TypeOK'
      BY <3>1, <3>2, OneCall DEF IInv, TypeOK
    <3>4. ReadyIsCurrent' /\ PublishedBefore'
      BY <3>2 DEF IInv, ReadyIsCurrent, PublishedBefore
    <3>5. DownloadIsDriven'
      BY <3>1, <3>2, OneCall DEF IInv, DownloadIsDriven
    <3>6. ListedBefore' /\ AnswersAreCurrent'
      BY <3>1, <3>2, OneCall DEF IInv, ListedBefore, AnswersAreCurrent
    <3> QED BY <3>3, <3>4, <3>5, <3>6 DEF IInv
  <2>8. ASSUME NEW contract \in Contracts, List(contract) PROVE IInv'
    BY <2>8 DEF List, IInv, TypeOK, ReadyIsCurrent, DownloadIsDriven,
                ListedBefore, AnswersAreCurrent, PublishedBefore
  <2>9. CASE UNCHANGED vars
    BY <2>9 DEF vars, IInv, TypeOK, ReadyIsCurrent, DownloadIsDriven,
                ListedBefore, AnswersAreCurrent, PublishedBefore
  <2> QED BY <2>1, <2>2, <2>3, <2>4, <2>5, <2>6, <2>7, <2>8, <2>9 DEF Next
<1> QED BY <1>1, <1>2, PTL DEF Spec

-----------------------------------------------------------------------------
\* TypeOK: every variable has its type, and a poll is only due when READY.
THEOREM DownloadTypes == Spec => []TypeOK
<1>1. IInv => TypeOK
  BY DEF IInv
<1> QED BY <1>1, Invariance, PTL

\* ReadyIsCurrent: READY rests on an answer to the present question, and what
\* was listed when it was asked is then known, unless the answer was empty.
THEOREM ReadyRestsOnAnswer == Spec => []ReadyIsCurrent
<1>1. IInv => ReadyIsCurrent
  BY DEF IInv
<1> QED BY <1>1, Invariance, PTL

\* DownloadIsDriven: a download under way never waits for nothing.
THEOREM DownloadIsNeverStuck == Spec => []DownloadIsDriven
<1>1. IInv => DownloadIsDriven
  BY DEF IInv
<1> QED BY <1>1, Invariance, PTL

\* PublishedInOrder: reference data is never replaced by older data.
THEOREM NothingOlderIsPublished == Spec => PublishedInOrder
<1>1. IInv /\ [Next]_vars => [published \subseteq published']_published
  <2> SUFFICES ASSUME IInv, Next, published' # published
               PROVE  published \subseteq published'
    BY DEF vars, historyVars
  <2>1. PICK c \in Calls : HandleSuccess(c)
    BY DEF Next, Connected, Disconnected, Timer, Retry, HandleError, TakeUp,
           AnswerEmpty, List, restVars, historyVars
  <2>2. /\ ~Skip(c) /\ published' = calls[c].info /\ calls[c].phase = "taken"
    BY <2>1 DEF HandleSuccess, Publish
  <2> QED BY <2>2 DEF Skip, IInv, AnswersAreCurrent, PublishedBefore
<1> QED BY <1>1, Invariance, PTL DEF Spec, PublishedInOrder

-----------------------------------------------------------------------------
(* The rate-limit interceptor *)

USE EnabledAssumption, BackoffAssumption, ClockAssumption, HeaderAssumption

\* The suspension computed from the two parameters is a time, is lifted by
\* quota or a missing reset time only, is never shortened otherwise, and
\* covers a reset time that lies ahead.
LEMMA SuspensionBounds ==
  ASSUME ThrottleTypeOK, NEW left \in Int, NEW resets_at \in Int
  PROVE  /\ Suspension(left, resets_at) \in Nat
         /\ Suspension(left, resets_at) < suspend_until
              => left > 0 \/ resets_at = 0
         /\ left <= 0 /\ resets_at > UtcNow
              => Suspension(left, resets_at) >= resets_at - ClockOffset
  BY DEF ThrottleTypeOK, Suspension, Later, UtcNow

\* ThrottleTypeOK: in every reachable state every variable has its type.
THEOREM ThrottleTypes == ThrottleSpec => []ThrottleTypeOK
<1>1. ThrottleInit => ThrottleTypeOK
  BY DEF ThrottleInit, ThrottleTypeOK
<1>2. ThrottleTypeOK /\ [ThrottleNext]_throttleVars => ThrottleTypeOK'
  <2> SUFFICES ASSUME ThrottleTypeOK, [ThrottleNext]_throttleVars PROVE ThrottleTypeOK'
    OBVIOUS
  <2>1. CASE Tick
    BY <2>1 DEF Tick, ThrottleTypeOK
  <2>2. ASSUME NEW value \in Remaining, RemainingHeader(value) PROVE ThrottleTypeOK'
    BY <2>2, SuspensionBounds DEF RemainingHeader, ThrottleTypeOK
  <2>3. ASSUME NEW value \in Resets, ResetHeader(value) PROVE ThrottleTypeOK'
    BY <2>3, SuspensionBounds DEF ResetHeader, ThrottleTypeOK
  <2>4. CASE Forbidden
    BY <2>4 DEF Forbidden, ThrottleTypeOK, Later
  <2>5. CASE TooManyRequests
    BY <2>5 DEF TooManyRequests, ThrottleTypeOK
  <2>6. CASE UNCHANGED throttleVars
    BY <2>6 DEF throttleVars, ThrottleTypeOK
  <2> QED BY <2>1, <2>2, <2>3, <2>4, <2>5, <2>6 DEF ThrottleNext
<1> QED BY <1>1, <1>2, PTL DEF ThrottleSpec

\* QuotaRespected: with the quota exhausted, nothing is sent before a reset
\* time that lies ahead.  Between the headers of several responses, only the
\* two parameters last stored count, and every change of one of them
\* recomputes the suspension from both.
THEOREM QuotaIsRespected == ThrottleSpec => []QuotaRespected
<1>1. ThrottleInit => QuotaRespected
  BY DEF ThrottleInit, QuotaRespected, UtcNow
<1>2. ThrottleTypeOK /\ QuotaRespected /\ [ThrottleNext]_throttleVars => QuotaRespected'
  <2> SUFFICES ASSUME ThrottleTypeOK, QuotaRespected, [ThrottleNext]_throttleVars
               PROVE  QuotaRespected'
    OBVIOUS
  <2>1. CASE Tick
    BY <2>1 DEF Tick, ThrottleTypeOK, QuotaRespected, UtcNow
  <2>2. ASSUME NEW value \in Remaining, RemainingHeader(value)
        PROVE  QuotaRespected'
    BY <2>2, SuspensionBounds
       DEF RemainingHeader, ThrottleTypeOK, QuotaRespected, UtcNow
  <2>3. ASSUME NEW value \in Resets, ResetHeader(value)
        PROVE  QuotaRespected'
    BY <2>3, SuspensionBounds DEF ResetHeader, ThrottleTypeOK, QuotaRespected, UtcNow
  <2>4. CASE Forbidden
    BY <2>4 DEF Forbidden, ThrottleTypeOK, QuotaRespected, UtcNow, Later
  <2>5. CASE TooManyRequests
    BY <2>5 DEF TooManyRequests, ThrottleTypeOK, QuotaRespected, UtcNow
  <2>6. CASE UNCHANGED throttleVars
    BY <2>6 DEF throttleVars, QuotaRespected, UtcNow
  <2> QED BY <2>1, <2>2, <2>3, <2>4, <2>5, <2>6 DEF ThrottleNext
<1> QED BY <1>1, <1>2, ThrottleTypes, PTL DEF ThrottleSpec

\* OnlyQuotaLifts: no step but a header that reports quota left, or no reset
\* time, shortens a suspension.
THEOREM SuspensionIsKept == ThrottleSpec => OnlyQuotaLifts
<1> DEFINE Kept == suspend_until' < suspend_until
                     => remaining' > 0 \/ reset' = 0
<1>1. ThrottleTypeOK /\ [ThrottleNext]_throttleVars => [Kept]_throttleVars
  <2> SUFFICES ASSUME ThrottleTypeOK, ThrottleNext PROVE Kept
    OBVIOUS
  <2>1. CASE Tick
    BY <2>1 DEF Tick, ThrottleTypeOK
  <2>2. ASSUME NEW value \in Remaining, RemainingHeader(value) PROVE Kept
    BY <2>2, SuspensionBounds DEF RemainingHeader, ThrottleTypeOK
  <2>3. ASSUME NEW value \in Resets, ResetHeader(value) PROVE Kept
    BY <2>3, SuspensionBounds DEF ResetHeader, ThrottleTypeOK
  <2>4. CASE Forbidden
    BY <2>4 DEF Forbidden, ThrottleTypeOK, Later
  <2>5. CASE TooManyRequests
    BY <2>5 DEF TooManyRequests, ThrottleTypeOK
  <2> QED BY <2>1, <2>2, <2>3, <2>4, <2>5 DEF ThrottleNext
<1> QED BY <1>1, ThrottleTypes, PTL DEF ThrottleSpec, OnlyQuotaLifts
=============================================================================
