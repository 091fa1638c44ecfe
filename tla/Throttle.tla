------------------------------ MODULE Throttle ------------------------------
(***************************************************************************)
(* The rate-limit interceptor of tools/throttle.cpp.  One object is shared *)
(* by every REST client and every web socket client of the gateway; each   *)
(* client reads suspend_until before it sends.  The object sees the        *)
(* headers and the ends of the responses of all of them, so that the       *)
(* events of different responses interleave: each event is an action.      *)
(*                                                                         *)
(* Abstracted: the interval and limit headers (stored, never read), header *)
(* names and the parsing of numbers, statuses other than 403 and 429.      *)
(***************************************************************************)
EXTENDS Integers

CONSTANTS
  Enabled,         \* settings.experimental.enable_rate_limit
  DefaultBackoff,  \* DEFAULT_BACKOFF
  BlockedBackoff,  \* BLOCKED_BACKOFF
  ClockOffset,     \* clock::get_realtime() - clock::get_system()
  Remaining,       \* values of the ratelimit-remaining header
  Resets,          \* values of the ratelimit-reset header, on the UTC clock
  Horizon          \* bound: the clock stops there

ASSUME EnabledAssumption == Enabled \in BOOLEAN
ASSUME BackoffAssumption ==
  DefaultBackoff \in Nat \ {0} /\ BlockedBackoff \in Nat \ {0}
ASSUME ClockAssumption == ClockOffset \in Nat /\ Horizon \in Nat
ASSUME HeaderAssumption == Remaining \subseteq Int /\ Resets \subseteq Int

VARIABLES
  now,            \* clock::get_system()
  remaining,      \* params_.remaining
  reset,          \* params_.reset
  suspend_until   \* suspend_until_, zero when there is no suspension

throttleVars == <<now, remaining, reset, suspend_until>>

-----------------------------------------------------------------------------
UtcNow == now + ClockOffset

Later(s, t) == IF s > t THEN s ELSE t

\* Faulty: suspend_until has no initial value.
ThrottleInit_Uninitialised ==
  /\ now = 1
  /\ remaining = 0 /\ reset = 0
  /\ suspend_until \in {-1, 0}

\* The system clock has been running for a while when the gateway starts.
ThrottleInit ==
  /\ now = 1
  /\ remaining = 0 /\ reset = 0
  /\ suspend_until = 0

Tick ==
  /\ now < Horizon
  /\ now' = now + 1
  /\ UNCHANGED <<remaining, reset, suspend_until>>

\* Faulty: the reset time replaces a longer suspension.
Suspension_Shortens(left, resets_at) ==
  IF left > 0 \/ resets_at = 0 THEN 0
  ELSE IF UtcNow < resets_at THEN now + (resets_at - UtcNow)
  ELSE Later(suspend_until, now + DefaultBackoff)

\* update_suspend_until, with the two parameters as just updated.
Suspension(left, resets_at) ==
  IF left > 0 \/ resets_at = 0 THEN 0
  ELSE Later(suspend_until,
             now + IF UtcNow < resets_at THEN resets_at - UtcNow
                                         ELSE DefaultBackoff)

RemainingHeader(value) ==
  /\ value # remaining
  /\ remaining' = value
  /\ suspend_until' = IF Enabled THEN Suspension(value, reset)
                                 ELSE suspend_until
  /\ UNCHANGED <<now, reset>>

\* Faulty: only the remaining header moves the suspension.
ResetHeader_Stored(value) ==
  /\ value # reset
  /\ reset' = value
  /\ UNCHANGED <<now, remaining, suspend_until>>

ResetHeader(value) ==
  /\ value # reset
  /\ reset' = value
  /\ suspend_until' = IF Enabled THEN Suspension(remaining, value)
                                 ELSE suspend_until
  /\ UNCHANGED <<now, remaining>>

\* MessageEnd, 403.
Forbidden ==
  /\ Enabled
  /\ suspend_until' = Later(suspend_until, now + BlockedBackoff)
  /\ UNCHANGED <<now, remaining, reset>>

\* MessageEnd, 429: only when no suspension was ever set, or was lifted.
TooManyRequests ==
  /\ Enabled
  /\ suspend_until' = IF suspend_until = 0 THEN now + DefaultBackoff
                                           ELSE suspend_until
  /\ UNCHANGED <<now, remaining, reset>>

ThrottleNext ==
  \/ Tick
  \/ \E value \in Remaining : RemainingHeader(value)
  \/ \E value \in Resets : ResetHeader(value)
  \/ Forbidden
  \/ TooManyRequests

ThrottleSpec == ThrottleInit /\ [][ThrottleNext]_throttleVars

-----------------------------------------------------------------------------
(* Properties *)

\* Every variable has its type; in particular zero stays the only value of
\* suspend_until that is not a time.
ThrottleTypeOK ==
  /\ now \in Nat
  /\ remaining \in Int /\ reset \in Int
  /\ suspend_until \in Nat

\* When the exchange's last word is "nothing left until the reset time", no
\* client sends before that time, whichever header came first, whatever
\* responses of other connections arrived in between.
QuotaRespected ==
  Enabled /\ remaining <= 0 /\ reset > UtcNow
    => suspend_until >= reset - ClockOffset

\* A suspension is never cut short but by a header that reports quota left
\* or no reset time: neither 429, nor 403, nor a nearer reset time does it,
\* and nothing else ends the long block of a 403.
OnlyQuotaLifts ==
  [][suspend_until' < suspend_until => remaining' > 0 \/ reset' = 0]_throttleVars
=============================================================================
