-------------------------- MODULE OrderLifecycle5 --------------------------
(***************************************************************************)
(* What the v5 recovery (module OrderRecovery5) tells clients about an     *)
(* order, against what the order is at the exchange.  One order is         *)
(* followed from its create request to its end; the others take part in    *)
(* the batches only.  News of it comes on three ways that overtake each    *)
(* other: the updates of the drop copy (in order, lost with the            *)
(* connection), open-orders snapshots, and order-info answers.             *)
(*                                                                         *)
(* External: the exchange, and the order cache of the framework, which is  *)
(* in doubt about an order from its request, or from a disconnection of    *)
(* the drop copy on, until it is told something about it, and which shows  *)
(* at the latest when stale orders are collected.                          *)
(***************************************************************************)
EXTENDS OrderRecovery5, Sequences

CONSTANT Followed  \* the order that is followed

ASSUME FollowedAssumption == Followed \in Orders \ Forgettable

VARIABLES
  request,   \* the create request: "none", "sent", "over" (taken or lost)
  exchange,  \* the order at the exchange: "none", "live", "done"
  stream,    \* updates on their way to the drop copy
  listing,   \* what the exchange read of the order for the open-orders call
  info,      \* what it read of it for the order-info call
  told,      \* what clients were last told, "none" if nothing
  doubt,     \* the order cache is in doubt about the order
  \* History, read by the properties only:
  hearsay    \* told by an answer that the stream does not vouch for

exchangeVars == <<request, exchange, stream, listing, info>>
toldVars == <<told, doubt, hearsay>>
lifeVars == <<exchangeVars, toldVars>>
lifecycleVars == <<vars, lifeVars>>

-----------------------------------------------------------------------------
Answers == [status : {"unread", "none", "live", "done"}, vouched : BOOLEAN]

\* The answer to a call that the exchange has not read yet.
Unread == [status |-> "unread", vouched |-> FALSE]

\* Updates of the order are pushed to the drop copy.
Listening == socket = "up" /\ "SUBSCRIBE_ORDERS" \in subscribed

\* The stream reports whatever happens after an answer read now.
Vouched == Listening /\ request # "sent"

Read == [status |-> exchange, vouched |-> Vouched]

\* An answer that something else has happened to, or that has lost its stream.
Outdated(answer) == [answer EXCEPT !.vouched = FALSE]

Final == told \in {"done", "rejected"}

\* Clients were last told what is the case.
Agrees ==
  CASE exchange = "none" -> told \in {"none", "rejected"}
    [] OTHER             -> told = exchange

LifecycleInit ==
  /\ Init
  /\ request = "none" /\ exchange = "none"
  /\ stream = <<>> /\ listing = Unread /\ info = Unread
  /\ told = "none" /\ doubt = FALSE /\ hearsay = FALSE

-----------------------------------------------------------------------------
(* The order at the exchange *)

RequestCreate ==
  /\ Running /\ request = "none"
  /\ request' = "sent" /\ doubt' = TRUE
  /\ UNCHANGED <<vars, exchange, stream, listing, info, told, hearsay>>

\* Refused, or lost with its connection.
CreateFails ==
  /\ request = "sent"
  /\ request' = "over"
  /\ UNCHANGED <<vars, exchange, stream, listing, info, toldVars>>

Happens(status) ==
  /\ exchange' = status
  /\ stream' = IF Listening THEN Append(stream, status) ELSE stream
  /\ listing' = Outdated(listing) /\ info' = Outdated(info)
  /\ UNCHANGED <<vars, toldVars>>

CreateSucceeds == request = "sent" /\ request' = "over" /\ Happens("live")

OrderEnds == exchange = "live" /\ Happens("done") /\ UNCHANGED request

\* The exchange reads a call.
ReadOpenOrders ==
  /\ open_calls > 0 /\ listing = Unread
  /\ listing' = Read
  /\ UNCHANGED <<vars, request, exchange, stream, info, toldVars>>

ReadOrderInfo ==
  /\ Followed \in info_calls /\ info = Unread
  /\ info' = Read
  /\ UNCHANGED <<vars, request, exchange, stream, listing, toldVars>>

-----------------------------------------------------------------------------
(* What clients are told *)

Tell(status, vouched) ==
  /\ told' = status /\ doubt' = FALSE /\ hearsay' = ~vouched

\* Orders5.
FollowedUpdated ==
  /\ Running /\ Listening /\ stream # <<>>
  /\ Tell(Head(stream), TRUE)
  /\ stream' = Tail(stream)
  /\ IF Followed \in stale THEN OrderUpdated(Followed) ELSE UNCHANGED vars
  /\ UNCHANGED <<request, exchange, listing, info>>

OtherUpdated(o) ==
  /\ o # Followed
  /\ OrderUpdated(o) /\ UNCHANGED lifeVars

\* OpenOrdersAck5: an order that is listed is told as it is listed, of the
\* others nothing is said.  A failed call lists none.
FollowedListed(listed) ==
  /\ OpenOrdersAck(listed)
  /\ Followed \in listed => listing.status = "live"
  /\ listed # {} => Followed \in listed \/ listing.status \in {"none", "done"}
  /\ IF Followed \in listed THEN Tell("live", listing.vouched)
                            ELSE UNCHANGED toldVars
  /\ listing' = Unread
  /\ UNCHANGED <<request, exchange, stream, info>>

\* Error 1061 ends an order that the exchange does not know.
StatusTold(status) == IF status = "none" THEN "rejected" ELSE status

\* OrderInfoAck5.
FollowedInfo(settled) ==
  /\ OrderInfoAck(Followed, settled)
  /\ IF settled THEN info # Unread /\ Tell(StatusTold(info.status), info.vouched)
                ELSE UNCHANGED toldVars
  /\ info' = Unread
  /\ UNCHANGED <<request, exchange, stream, listing>>

OtherInfo(o, settled) ==
  /\ o # Followed
  /\ OrderInfoAck(o, settled) /\ UNCHANGED lifeVars

-----------------------------------------------------------------------------
(* The recovery *)

\* What the stream carried is lost.
StreamLost ==
  /\ DropCopyDisconnected
  /\ stream' = <<>>
  /\ listing' = Outdated(listing) /\ info' = Outdated(info)
  /\ doubt' = (doubt \/ (request # "none" /\ ~Final))
  /\ UNCHANGED <<request, exchange, told, hearsay>>

\* Orders in doubt are among the stale orders when these are collected for
\* the download.
RecoveryTimer(due) ==
  /\ DropCopyTimer(due)
  /\ download = "GET_OPEN_ORDERS" /\ doubt => Followed \in stale
  /\ UNCHANGED lifeVars

OrderDoubted(o) ==
  /\ OrderGoesStale(o)
  /\ o = Followed => request # "none" /\ ~Final
  /\ UNCHANGED lifeVars

RecoveryStep ==
  /\ \/ DropCopyConnected
     \/ ExchangeCloses
     \/ LogonAccepted
     \/ LogonRefused
     \/ \E topic \in Subscriptions, accepted \in BOOLEAN :
          Subscribed(topic, accepted)
     \/ RestConnected
     \/ RestDisconnected
     \/ RestTimer
     \/ \E o \in Orders : OrderForgotten(o)
  /\ UNCHANGED lifeVars

LifecycleNext ==
  \/ RequestCreate
  \/ CreateFails
  \/ CreateSucceeds
  \/ OrderEnds
  \/ ReadOpenOrders
  \/ ReadOrderInfo
  \/ FollowedUpdated
  \/ \E o \in Orders : OtherUpdated(o)
  \/ \E listed \in SUBSET Orders : FollowedListed(listed)
  \/ \E settled \in BOOLEAN : FollowedInfo(settled)
  \/ \E o \in Orders, settled \in BOOLEAN : OtherInfo(o, settled)
  \/ StreamLost
  \/ \E due \in BOOLEAN : RecoveryTimer(due)
  \/ \E o \in Orders : OrderDoubted(o)
  \/ RecoveryStep
  \/ Dead /\ UNCHANGED lifeVars

LifecycleSpec == LifecycleInit /\ [][LifecycleNext]_lifecycleVars

-----------------------------------------------------------------------------
(* Properties *)

\* Every variable has its type.
LifecycleTypeOK ==
  /\ TypeOK
  /\ request \in {"none", "sent", "over"}
  /\ exchange \in {"none", "live", "done"}
  /\ stream \in {<<>>, <<"live">>, <<"done">>, <<"live", "done">>}
  /\ listing \in Answers /\ info \in Answers
  /\ told \in {"none", "live", "done", "rejected"}
  /\ doubt \in BOOLEAN /\ hearsay \in BOOLEAN

\* Once the drop copy is READY with its orders topic live, and what the
\* stream carries has arrived, clients have been told what the order is at the
\* exchange, or it is still listed as stale and will be asked about again.
\* Nothing gets lost between a disconnection, the snapshot, the batches and
\* the stream.  The exception is hearsay: an answer that the exchange read
\* before the topic was live, that an update has overtaken, or that error 1061
\* gave while the create request was still on its way.
ReadyIsTruthful ==
  DropCopyReady /\ Listening /\ stream = <<>>
    => Agrees \/ Followed \in stale \/ hearsay
=============================================================================
