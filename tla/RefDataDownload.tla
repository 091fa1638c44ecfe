-------------------------- MODULE RefDataDownload --------------------------
(***************************************************************************)
(* How the gateway learns the contracts of the exchange                    *)
(* (gateway/rest.cpp): a download of the contract info when the connection *)
(* comes up, again whenever it failed or was interrupted, and again        *)
(* whenever download_refresh, if set, has passed.  Answers may come late,  *)
(* after the question was asked anew or the connection was lost and found, *)
(* and failures of old calls ask anew as well.                             *)
(*                                                                         *)
(* External: the exchange, which lists contracts; the HTTP client;         *)
(* core::Download2, whose sequence is advanced by begin and bump, whose    *)
(* skip is true of an answer to another sequence or state, and whose retry *)
(* runs the handler of the state again, at once or later.  Abstracted: the *)
(* sequence of a call, by whether it is the present one; what becomes of   *)
(* new contracts (module SymbolStreams).                                   *)
(***************************************************************************)
CONSTANTS
  Contracts,  \* the contracts the exchange may list
  Calls,      \* how many calls may be on the wire: a bound
  DownloadRefresh  \* the setting download_refresh is not zero

ASSUME DownloadRefreshAssumption == DownloadRefresh \in BOOLEAN

VARIABLES
  connected,          \* the REST connection
  connection_status,  \* Rest::connection_status_
  state,              \* Rest::download_.state()
  retrying,           \* download_.retry was called and has not yet run
  next_refresh,       \* Rest::next_refresh_ is not zero
  all_symbols,        \* Shared::all_symbols
  calls,              \* the contract-info calls on the wire
  listed,             \* what the exchange lists
  \* History, read by the properties only:
  begun,              \* what was listed when the question was last asked
  answered,           \* what with: "nothing" yet, a "listing", or "empty"
  published           \* the contracts of the last reference data

restVars == <<connected, connection_status, state, retrying, next_refresh>>
historyVars == <<begun, answered, published>>
vars == <<restVars, all_symbols, calls, listed, historyVars>>

-----------------------------------------------------------------------------
\* enum class State
State == {"UNDEFINED", "CONTRACT_INFO", "DONE"}

\* A call of one of Calls is not in use, or the exchange has not yet seen it,
\* or its answer is on the way, with the contracts or with none, which is how
\* an answer reads that reports an error.  It is current when its sequence is.
Call == [phase : {"unused", "sent", "taken", "empty"}, current : BOOLEAN,
         info : SUBSET Contracts]

Unused == [phase |-> "unused", current |-> FALSE, info |-> {}]
Sent == [phase |-> "sent", current |-> TRUE, info |-> {}]

Downloading == state = "CONTRACT_INFO"
Ready == connection_status = "READY"

Init ==
  /\ connected = FALSE /\ connection_status = "DISCONNECTED"
  /\ state = "UNDEFINED" /\ retrying = FALSE /\ next_refresh = FALSE
  /\ all_symbols = {} /\ calls = [c \in Calls |-> Unused]
  /\ listed = {}
  /\ begun = {} /\ answered = "nothing" /\ published = {}

-----------------------------------------------------------------------------
(* The download *)

\* download() in state CONTRACT_INFO, and get_contract_info().
GetContractInfo(previous) ==
  /\ connection_status' = "DOWNLOADING"
  /\ \E c \in Calls :
       /\ calls[c] = Unused
       /\ calls' = [previous EXCEPT ![c] = Sent]

\* Faulty: the sequence is not advanced.
Ask_SameSequence ==
  /\ state' = "CONTRACT_INFO" /\ begun' = listed /\ answered' = "nothing"
  /\ GetContractInfo(calls)

\* download_.begin and download_.bump.
Ask ==
  /\ state' = "CONTRACT_INFO" /\ begun' = listed /\ answered' = "nothing"
  /\ GetContractInfo([c \in Calls |-> [calls[c] EXCEPT !.current = FALSE]])

\* A download under way is asked for again, otherwise one begins.
Connected ==
  /\ ~connected /\ connected' = TRUE
  /\ Ask
  /\ UNCHANGED <<retrying, next_refresh, all_symbols, listed, published>>

\* Faulty: the time of the next poll is kept.
Disconnected_KeepsRefresh ==
  /\ connected /\ connected' = FALSE
  /\ connection_status' = "DISCONNECTED" /\ UNCHANGED next_refresh
  /\ state' = IF Downloading THEN state ELSE "UNDEFINED"
  /\ UNCHANGED <<retrying, all_symbols, calls, listed, historyVars>>

\* A download under way is kept, to be asked for again.
Disconnected ==
  /\ connected /\ connected' = FALSE
  /\ connection_status' = "DISCONNECTED" /\ next_refresh' = FALSE
  /\ state' = IF Downloading THEN state ELSE "UNDEFINED"
  /\ UNCHANGED <<retrying, all_symbols, calls, listed, historyVars>>

\* Timer, once next_refresh_ has passed: the contracts are polled.
Timer ==
  /\ Ready /\ next_refresh /\ ~Downloading
  /\ next_refresh' = FALSE
  /\ Ask
  /\ UNCHANGED <<connected, retrying, all_symbols, listed, published>>

\* What download_.retry brings about, if the state is still the same.
Retry ==
  /\ retrying /\ retrying' = FALSE
  /\ IF Downloading THEN GetContractInfo(calls)
                    ELSE UNCHANGED <<connection_status, calls>>
  /\ UNCHANGED <<connected, state, next_refresh, all_symbols, listed,
                 historyVars>>

\* Faulty: a failure is only logged.
HandleError_Logged(c) ==
  /\ calls[c].phase # "unused"
  /\ calls' = [calls EXCEPT ![c] = Unused]
  /\ UNCHANGED <<restVars, all_symbols, listed, historyVars>>

\* A call that fails is retried, whichever sequence it belongs to.
HandleError(c) ==
  /\ calls[c].phase # "unused"
  /\ calls' = [calls EXCEPT ![c] = Unused]
  /\ retrying' = (retrying \/ Downloading)
  /\ UNCHANGED <<connected, connection_status, state, next_refresh,
                 all_symbols, listed, historyVars>>

\* Faulty: an answer to an earlier question is taken for the present one.
Skip_StateOnly(c) == ~Downloading

\* download_.skip
Skip(c) == ~Downloading \/ ~calls[c].current

\* What an answer with contracts publishes, and what one without does not.
Publish(c) ==
  IF calls[c].phase = "empty"
    THEN answered' = "empty" /\ UNCHANGED <<all_symbols, published>>
    ELSE /\ answered' = "listing" /\ published' = calls[c].info
         /\ all_symbols' = all_symbols \cup calls[c].info

\* Faulty: READY without a time for the next poll.
HandleSuccess_NoRefresh(c) ==
  /\ connected /\ calls[c].phase \in {"taken", "empty"}
  /\ calls' = [calls EXCEPT ![c] = Unused]
  /\ IF Skip(c)
       THEN UNCHANGED <<connection_status, state, next_refresh, all_symbols,
                        answered, published>>
       ELSE /\ Publish(c)
            /\ state' = "DONE" /\ connection_status' = "READY"
            /\ UNCHANGED next_refresh
  /\ UNCHANGED <<connected, retrying, listed, begun>>

\* The answer is published, new contracts are announced, and the download is
\* done, one without contracts included; unless the question was answered
\* before or asked anew.
HandleSuccess(c) ==
  /\ connected /\ calls[c].phase \in {"taken", "empty"}
  /\ calls' = [calls EXCEPT ![c] = Unused]
  /\ IF Skip(c)
       THEN UNCHANGED <<connection_status, state, next_refresh, all_symbols,
                        answered, published>>
       ELSE /\ Publish(c)
            /\ state' = "DONE" /\ connection_status' = "READY"
            /\ next_refresh' = (next_refresh \/ DownloadRefresh)
  /\ UNCHANGED <<connected, retrying, listed, begun>>

-----------------------------------------------------------------------------
(* The exchange *)

TakeUp(c) ==
  /\ calls[c].phase = "sent"
  /\ calls' = [calls EXCEPT ![c].phase = "taken", ![c].info = listed]
  /\ UNCHANGED <<restVars, all_symbols, listed, historyVars>>

\* An error, or no data, under the HTTP status of a success.
AnswerEmpty(c) ==
  /\ calls[c].phase = "sent"
  /\ calls' = [calls EXCEPT ![c].phase = "empty"]
  /\ UNCHANGED <<restVars, all_symbols, listed, historyVars>>

List(contract) ==
  /\ listed' = listed \cup {contract}
  /\ UNCHANGED <<restVars, all_symbols, calls, historyVars>>

Next ==
  \/ Connected
  \/ Disconnected
  \/ Timer
  \/ Retry
  \/ \E c \in Calls :
       HandleError(c) \/ HandleSuccess(c) \/ TakeUp(c) \/ AnswerEmpty(c)
  \/ \E contract \in Contracts : List(contract)

Spec == Init /\ [][Next]_vars

(***************************************************************************)
(* Fairness.  The client reconnects, the event loop drives the timer for   *)
(* ever, a retry runs, and each call is answered.  A call that is repeated *)
(* for ever does not fail for ever, neither on its way to the exchange nor *)
(* on its way back, and the answers that can complete the download do not  *)
(* stay empty for ever.                                                    *)
(***************************************************************************)
Fairness ==
  /\ WF_vars(Connected) /\ WF_vars(Timer) /\ WF_vars(Retry)
  /\ \A c \in Calls : WF_vars(HandleError(c) \/ HandleSuccess(c))
  /\ SF_vars(\E c \in Calls : TakeUp(c) /\ ~Skip(c))
  /\ SF_vars(\E c \in Calls :
               HandleSuccess(c) /\ ~Skip(c) /\ calls[c].phase = "taken")

FairSpec == Spec /\ Fairness

-----------------------------------------------------------------------------
(* Properties *)

\* Every variable has its type; a poll is only due when nothing else is.
TypeOK ==
  /\ connected \in BOOLEAN /\ retrying \in BOOLEAN /\ next_refresh \in BOOLEAN
  /\ connection_status \in {"DISCONNECTED", "DOWNLOADING", "READY"}
  /\ state \in State
  /\ calls \in [Calls -> Call]
  /\ listed \subseteq Contracts /\ all_symbols \subseteq Contracts
  /\ begun \subseteq Contracts /\ published \subseteq Contracts
  /\ answered \in {"nothing", "listing", "empty"}
  /\ next_refresh => Ready
  /\ Ready => state = "DONE"

\* READY means that the present question has been answered, on this connection:
\* the question was not asked anew since, and not by an answer to an earlier
\* one.  The contracts that were listed when it was asked are published and
\* known, unless the answer was empty, which makes READY all the same.
ReadyIsCurrent ==
  Ready =>
    /\ connected /\ answered # "nothing"
    /\ answered = "listing" => begun \subseteq published \cap all_symbols

\* A download under way always has a call that can complete it, or a retry
\* to come: it never waits for nothing.
DownloadIsDriven ==
  Downloading =>
    retrying \/ \E c \in Calls : calls[c].phase # "unused" /\ calls[c].current

\* Reference data is never replaced by older reference data, in whatever
\* order calls are made, fail and are answered.
PublishedInOrder == [][published \subseteq published']_published

\* Once the connection holds, every contract that the exchange lists becomes
\* known, if it is listed long after the first download, or after a download
\* that an empty answer completed, too: provided that the contracts are polled.
ContractsBecomeKnown ==
  DownloadRefresh /\ <>[]connected =>
    \A contract \in Contracts : contract \in listed ~> contract \in all_symbols
=============================================================================
