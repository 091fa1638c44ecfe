--------------------------- MODULE RequestOutcomes ---------------------------
(***************************************************************************)
(* What order entry promises the clients about their requests, whatever    *)
(* carries them: a client hears of a request once at most, and what it     *)
(* hears is true.  A request that nobody hears of was accepted, for then   *)
(* the order stream tells, or it was lost where the carrier may lose it.   *)
(* OrderEntryREST and OrderEntryWS implement this module.                 *)
(***************************************************************************)
CONSTANTS
  Requests,
  MayLose    \* the carrier may lose a request, or its answer, in silence

VARIABLES
  open,      \* requests that the gateway has still to answer
  verdict,   \* what the exchange decided: "unsent", "undecided", ...
  heard      \* what the client heard: "nothing", "unknown", or a verdict

vars == <<open, verdict, heard>>

Init ==
  /\ open = {}
  /\ verdict = [r \in Requests |-> "unsent"]
  /\ heard = [r \in Requests |-> "nothing"]

Send(S) ==
  /\ \A r \in S : verdict[r] = "unsent"
  /\ open' = open \cup S
  /\ verdict' = [r \in Requests |-> IF r \in S THEN "undecided"
                                               ELSE verdict[r]]
  /\ UNCHANGED heard

\* The exchange may decide long after the gateway gave the request up.
Decide(r, outcome) ==
  /\ verdict[r] = "undecided"
  /\ verdict' = [verdict EXCEPT ![r] = outcome]
  /\ UNCHANGED <<open, heard>>

\* The client is told the verdict, or that it is unknown.
Tell(r, what) ==
  /\ r \in open /\ what \in {verdict[r], "unknown"}
  /\ what \in {"accepted", "refused", "unknown"}
  /\ open' = open \ {r}
  /\ heard' = [heard EXCEPT ![r] = what]
  /\ UNCHANGED verdict

\* Silence is consent.
Consent(r) ==
  /\ r \in open /\ verdict[r] = "accepted"
  /\ open' = open \ {r}
  /\ UNCHANGED <<verdict, heard>>

Lose(S) ==
  /\ MayLose
  /\ open' = open \ S
  /\ UNCHANGED <<verdict, heard>>

Next ==
  \/ \E S \in SUBSET Requests : Send(S)
  \/ \E r \in Requests :
       \/ \E outcome \in {"accepted", "refused"} : Decide(r, outcome)
       \/ \E what \in {"accepted", "refused", "unknown"} : Tell(r, what)
       \/ Consent(r)
  \/ \E S \in SUBSET open : Lose(S)

Spec == Init /\ [][Next]_vars
=============================================================================
