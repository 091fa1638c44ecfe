-------------------------- MODULE StaleOrderBatches --------------------------
(***************************************************************************)
(* What the stale-order half of a Request promises, whoever collects the   *)
(* orders and whichever connection answers: orders are collected into a    *)
(* queue; the whole queue is asked about as one batch; the next batch      *)
(* starts only when every order of the last one has been answered, once;   *)
(* and a batch in progress always has an answer to wait for.               *)
(***************************************************************************)
CONSTANT Orders

VARIABLES queued, asked, busy

batchVars == <<queued, asked, busy>>

Init == queued = {} /\ asked = {} /\ busy = FALSE

Collect(S) ==
  /\ queued' = queued \cup S
  /\ UNCHANGED <<asked, busy>>

Dispatch ==
  /\ ~busy /\ queued # {}
  /\ queued' = {} /\ asked' = queued /\ busy' = TRUE

Answer(o) ==
  /\ o \in asked
  /\ asked' = asked \ {o}
  /\ busy' = (asked' # {})
  /\ UNCHANGED queued

Next ==
  \/ \E S \in SUBSET Orders : Collect(S)
  \/ Dispatch
  \/ \E o \in Orders : Answer(o)

Spec == Init /\ [][Next]_batchVars
=============================================================================
