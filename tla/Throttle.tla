------------------------------- MODULE Throttle -------------------------------
(***************************************************************************)
(* The interceptor every connection of the gateway shares.  It reads two   *)
(* headers of each answer, the requests that remain and the time at which  *)
(* the quota expires, and the status of the answer, and keeps the time     *)
(* until which no connection sends.  Connections read their answers piece  *)
(* by piece, so headers and ends of different answers interleave freely.   *)
(***************************************************************************)
EXTENDS Integers

CONSTANTS
    Enabled,          \* settings.experimental.enable_rate_limit
    DEFAULT_BACKOFF,
    BLOCKED_BACKOFF,
    Offset,           \* clock::get_realtime() minus clock::get_system()
    Remains,          \* values of the remain header
    Expires,          \* values of the expire header, on the real-time clock
    Horizon           \* bound on the time a behaviour takes

ASSUME BackoffAssumption ==
    DEFAULT_BACKOFF \in Nat \ {0} /\ BLOCKED_BACKOFF \in Nat /\ DEFAULT_BACKOFF < BLOCKED_BACKOFF
ASSUME HeaderAssumption == Remains \subseteq Int /\ Expires \subseteq Int
ASSUME ClockAssumption == Enabled \in BOOLEAN /\ Offset \in Nat /\ Horizon \in Nat

VARIABLES
    now,              \* clock::get_system(): starts at 1, for 0 means no suspension
    requests_remain,  \* params_.requests_remain
    requests_expire,  \* params_.requests_expire
    suspend_until,    \* suspend_until_
    blocked_until     \* history: end of the block of the last 403 not yet lifted

vars == <<now, requests_remain, requests_expire, suspend_until, blocked_until>>

Larger(a, b) == IF a < b THEN b ELSE a

\* What the last headers say: nothing remains until a known time.
Exhausted(remain, expire) == ~(remain > 0 \/ expire = 0)

\* The end of the suspension that the headers ask for, on the system clock.
SuspensionOf(expire) ==
    IF now + Offset < expire THEN expire - Offset ELSE now + DEFAULT_BACKOFF

\* A mutant of UpdateSuspendUntil: the new end replaces a later one.
UpdateSuspendUntilReplaces(remain, expire) ==
    CASE ~Enabled -> UNCHANGED <<suspend_until, blocked_until>>
      [] Enabled /\ Exhausted(remain, expire) ->
           /\ suspend_until' = SuspensionOf(expire)
           /\ UNCHANGED blocked_until
      [] OTHER -> suspend_until' = 0 /\ blocked_until' = 0

\* update_suspend_until, after a header has changed the parameters.
UpdateSuspendUntil(remain, expire) ==
    CASE ~Enabled -> UNCHANGED <<suspend_until, blocked_until>>
      [] Enabled /\ Exhausted(remain, expire) ->
           /\ suspend_until' = Larger(suspend_until, SuspensionOf(expire))
           /\ UNCHANGED blocked_until
      [] OTHER -> suspend_until' = 0 /\ blocked_until' = 0

\* A mutant of RemainHeader: the value is stored, the suspension not revisited.
RemainHeaderOnlyStores(value) ==
    /\ value # requests_remain
    /\ requests_remain' = value
    /\ UNCHANGED <<now, requests_expire, suspend_until, blocked_until>>

\* MessageHeader: a value equal to the last one changes nothing.
RemainHeader(value) ==
    /\ value # requests_remain
    /\ requests_remain' = value
    /\ UpdateSuspendUntil(value, requests_expire)
    /\ UNCHANGED <<now, requests_expire>>

ExpireHeader(value) ==
    /\ value # requests_expire
    /\ requests_expire' = value
    /\ UpdateSuspendUntil(requests_remain, value)
    /\ UNCHANGED <<now, requests_remain>>

\* MessageEnd with status 403.
Forbidden ==
    /\ Enabled
    /\ suspend_until' = Larger(suspend_until, now + BLOCKED_BACKOFF)
    /\ blocked_until' = now + BLOCKED_BACKOFF
    /\ UNCHANGED <<now, requests_remain, requests_expire>>

\* A mutant of TooManyRequests: the default backoff whatever is in force.
TooManyRequestsAlways ==
    /\ Enabled
    /\ suspend_until' = now + DEFAULT_BACKOFF
    /\ UNCHANGED <<now, requests_remain, requests_expire, blocked_until>>

\* MessageEnd with status 429: only with no suspension on record, even a past one.
TooManyRequests ==
    /\ Enabled
    /\ suspend_until' = IF suspend_until = 0 THEN now + DEFAULT_BACKOFF ELSE suspend_until
    /\ UNCHANGED <<now, requests_remain, requests_expire, blocked_until>>

Tick ==
    /\ now < Horizon
    /\ now' = now + 1
    /\ UNCHANGED <<requests_remain, requests_expire, suspend_until, blocked_until>>

Init ==
    /\ now = 1
    /\ requests_remain = 0 /\ requests_expire = 0 /\ suspend_until = 0
    /\ blocked_until = 0

Next ==
    \/ \E value \in Remains : RemainHeader(value)
    \/ \E value \in Expires : ExpireHeader(value)
    \/ Forbidden
    \/ TooManyRequests
    \/ Tick

Spec == Init /\ [][Next]_vars

-------------------------------------------------------------------------------
(* Properties                                                               *)

\* The type invariant of the module.
TypeOK ==
    /\ now \in Nat \ {0}
    /\ requests_remain \in Int
    /\ requests_expire \in Int
    /\ suspend_until \in Nat
    /\ blocked_until \in Nat

\* While the last headers say that nothing remains, nothing is sent before the
\* quota expires: though only a changed header is acted on, though the two
\* headers come one by one and from any answer (throttle.cpp:74).
ExhaustedQuotaIsRespected ==
    Enabled /\ Exhausted(requests_remain, requests_expire)
        => suspend_until + Offset >= requests_expire

\* A block after a 403 stands until a header reports quota: neither an
\* exhausted quota that expires sooner nor a 429 cuts it short.
BlockIsNotCutShort == suspend_until >= blocked_until

\* A suspension is extended or lifted, never shortened.
SuspensionIsNotShortened ==
    [][suspend_until' >= suspend_until \/ suspend_until' = 0]_vars
===============================================================================
