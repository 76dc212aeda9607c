---------------------------- MODULE Throttle_proofs ----------------------------
(* What Throttle promises for all quotas, backoffs and clocks. *)
EXTENDS Throttle, TLAPS

\* The values every action starts from stay well typed.
THEOREM TypeCorrect == Spec => []TypeOK
<1> USE BackoffAssumption, HeaderAssumption, ClockAssumption DEF TypeOK
<1>1. Init => TypeOK
  BY DEF Init
<1>2. TypeOK /\ [Next]_vars => TypeOK'
  <2> SUFFICES ASSUME TypeOK, [Next]_vars PROVE TypeOK'
    OBVIOUS
  <2>1. ASSUME NEW value \in Remains, RemainHeader(value) PROVE TypeOK'
    BY <2>1 DEF RemainHeader, UpdateSuspendUntil, Exhausted, SuspensionOf, Larger
  <2>2. ASSUME NEW value \in Expires, ExpireHeader(value) PROVE TypeOK'
    BY <2>2 DEF ExpireHeader, UpdateSuspendUntil, Exhausted, SuspensionOf, Larger
  <2>3. CASE Forbidden
    BY <2>3 DEF Forbidden, Larger
  <2>4. CASE TooManyRequests
    BY <2>4 DEF TooManyRequests
  <2>5. CASE Tick
    BY <2>5 DEF Tick
  <2>6. CASE UNCHANGED vars
    BY <2>6 DEF vars
  <2> QED
    BY <2>1, <2>2, <2>3, <2>4, <2>5, <2>6 DEF Next
<1> QED
  BY <1>1, <1>2, PTL DEF Spec

\* The quota the last headers reported as exhausted is respected, whatever the
\* order in which the headers of different answers came in.
THEOREM QuotaIsRespected == Spec => []ExhaustedQuotaIsRespected
<1> USE BackoffAssumption, HeaderAssumption, ClockAssumption
    DEF TypeOK, ExhaustedQuotaIsRespected, Exhausted
<1>1. Init => ExhaustedQuotaIsRespected
  BY DEF Init
<1>2. TypeOK /\ ExhaustedQuotaIsRespected /\ [Next]_vars => ExhaustedQuotaIsRespected'
  <2> SUFFICES ASSUME TypeOK, ExhaustedQuotaIsRespected, [Next]_vars
               PROVE  ExhaustedQuotaIsRespected'
    OBVIOUS
  <2>1. ASSUME NEW value \in Remains, RemainHeader(value) PROVE ExhaustedQuotaIsRespected'
    BY <2>1 DEF RemainHeader, UpdateSuspendUntil, SuspensionOf, Larger
  <2>2. ASSUME NEW value \in Expires, ExpireHeader(value) PROVE ExhaustedQuotaIsRespected'
    BY <2>2 DEF ExpireHeader, UpdateSuspendUntil, SuspensionOf, Larger
  <2>3. CASE Forbidden
    BY <2>3 DEF Forbidden, Larger
  <2>4. CASE TooManyRequests
    BY <2>4 DEF TooManyRequests
  <2>5. CASE Tick
    BY <2>5 DEF Tick
  <2>6. CASE UNCHANGED vars
    BY <2>6 DEF vars
  <2> QED
    BY <2>1, <2>2, <2>3, <2>4, <2>5, <2>6 DEF Next
<1> QED
  BY <1>1, <1>2, TypeCorrect, PTL DEF Spec

\* A block after a 403 stands until a header reports quota, whatever else is answered.
THEOREM BlockStands == Spec => []BlockIsNotCutShort
<1> USE BackoffAssumption, HeaderAssumption, ClockAssumption DEF TypeOK, BlockIsNotCutShort
<1>1. Init => BlockIsNotCutShort
  BY DEF Init
<1>2. TypeOK /\ BlockIsNotCutShort /\ [Next]_vars => BlockIsNotCutShort'
  <2> SUFFICES ASSUME TypeOK, BlockIsNotCutShort, [Next]_vars PROVE BlockIsNotCutShort'
    OBVIOUS
  <2>1. ASSUME NEW value \in Remains, RemainHeader(value) PROVE BlockIsNotCutShort'
    BY <2>1 DEF RemainHeader, UpdateSuspendUntil, SuspensionOf, Larger
  <2>2. ASSUME NEW value \in Expires, ExpireHeader(value) PROVE BlockIsNotCutShort'
    BY <2>2 DEF ExpireHeader, UpdateSuspendUntil, SuspensionOf, Larger
  <2>3. CASE Forbidden
    BY <2>3 DEF Forbidden, Larger
  <2>4. CASE TooManyRequests
    BY <2>4 DEF TooManyRequests
  <2>5. CASE Tick \/ UNCHANGED vars
    BY <2>5 DEF Tick, vars
  <2> QED
    BY <2>1, <2>2, <2>3, <2>4, <2>5 DEF Next
<1> QED
  BY <1>1, <1>2, TypeCorrect, PTL DEF Spec

\* Every step extends the suspension, lifts it or leaves it.
THEOREM SuspensionOnlyGrows == Spec => SuspensionIsNotShortened
<1> USE BackoffAssumption, HeaderAssumption, ClockAssumption DEF TypeOK
<1>1. TypeOK /\ [Next]_vars => [suspend_until' >= suspend_until \/ suspend_until' = 0]_vars
  <2> SUFFICES ASSUME TypeOK, [Next]_vars
               PROVE  suspend_until' >= suspend_until \/ suspend_until' = 0
    OBVIOUS
  <2>1. ASSUME NEW value \in Remains, RemainHeader(value)
        PROVE  suspend_until' >= suspend_until \/ suspend_until' = 0
    BY <2>1 DEF RemainHeader, UpdateSuspendUntil, Exhausted, SuspensionOf, Larger
  <2>2. ASSUME NEW value \in Expires, ExpireHeader(value)
        PROVE  suspend_until' >= suspend_until \/ suspend_until' = 0
    BY <2>2 DEF ExpireHeader, UpdateSuspendUntil, Exhausted, SuspensionOf, Larger
  <2>3. CASE Forbidden
    BY <2>3 DEF Forbidden, Larger
  <2>4. CASE TooManyRequests
    BY <2>4 DEF TooManyRequests
  <2>5. CASE Tick \/ UNCHANGED vars
    BY <2>5 DEF Tick, vars
  <2> QED
    BY <2>1, <2>2, <2>3, <2>4, <2>5 DEF Next
<1> QED
  BY <1>1, TypeCorrect, PTL DEF Spec, SuspensionIsNotShortened
================================================================================
