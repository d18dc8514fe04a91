------------------------- MODULE StreamWriterProofs -------------------------
(***************************************************************************)
(* What holds of the two writers of a response for every interval and      *)
(* every patience of the client: they exclude each other, neither writes   *)
(* after an error or after the handler has returned, and a stream with a   *)
(* keepalive is never silent for one and a half intervals.                 *)
(***************************************************************************)
EXTENDS StreamWriter, TLAPS

-----------------------------------------------------------------------------
(* The inductive invariant.                                                *)

\* A goroutine writes exactly while it holds the mutex.
WritesUnderMutex ==
    /\ handler = "write" <=> mutex = "handler"
    /\ keepalive = "write" <=> mutex = "keepalive"

\* The keepalive exits only once it has been cancelled, and the handler cancels
\* it on its way out.
Lifetimes ==
    /\ keepalive = "absent" <=> ~UsesKeepalive
    /\ keepalive = "exited" => cancelled
    /\ cancelled => handler \in {"join", "returned"}
    /\ handler = "join" => UsesKeepalive

\* Between two writes the client has waited no longer than lastSent says: the
\* stamp is taken before the bytes leave.
StampIsOlder == mutex = "free" /\ ~err => silence <= sinceSent

\* The keepalive has looked at lastSent since the last tick it took, and found it
\* younger than the interval or renewed it (or found that a write had failed).
LookedSinceTick ==
    keepalive \in {"select", "write"} /\ ~tick /\ ~err
        => sinceSent < Interval + sinceTick

\* With a keepalive, the client's wait is bounded.
SilenceBounded == UsesKeepalive => PingsBoundSilence

IInv ==
    /\ TypeOK
    /\ WritesUnderMutex
    /\ Lifetimes
    /\ NoWriteAfterReturn
    /\ StickyError
    /\ StampIsOlder
    /\ LookedSinceTick
    /\ SilenceBounded

-----------------------------------------------------------------------------
(* Arithmetic of the ticker.                                               *)

\* Two of the ticker's periods make one interval.
LEMMA HalfOfInterval == Half \in Nat /\ Half >= 1 /\ Half + Half = Interval
BY ConstantsOK DEF Half

\* Counting modulo the period goes up by one or back to zero.
LEMMA CountsToHalf ==
    ASSUME NEW t \in 0..(Half - 1)
    PROVE  (t + 1) % Half = IF t + 1 = Half THEN 0 ELSE t + 1
BY HalfOfInterval

\* A clock stops at IdleAbort and never goes back.
LEMMA ElapseBounds ==
    ASSUME NEW t \in 0..IdleAbort
    PROVE  /\ Elapse(t) \in 0..IdleAbort
           /\ t <= Elapse(t) /\ Elapse(t) <= t + 1
           /\ t < IdleAbort => Elapse(t) = t + 1
BY ConstantsOK DEF Elapse

\* Two clocks that both run keep their order.
LEMMA ElapseMonotone ==
    ASSUME NEW t \in 0..IdleAbort, NEW u \in 0..IdleAbort, t <= u
    PROVE  Elapse(t) <= Elapse(u)
BY ConstantsOK DEF Elapse

-----------------------------------------------------------------------------
(* The invariant holds at first and is preserved.                          *)

\* A clock that is reset is within its bounds.
LEMMA ZeroIsInBounds == 0 \in 0..IdleAbort /\ 0 \in 0..(Half - 1)
BY ConstantsOK, HalfOfInterval

\* NewStreamWriter has just sent the headers: every clock is at zero.
LEMMA InitInvariant == Init => IInv
<1> SUFFICES ASSUME Init PROVE IInv
  OBVIOUS
<1>1. TypeOK
  BY ZeroIsInBounds DEF Init, TypeOK
<1>2. WritesUnderMutex /\ Lifetimes /\ NoWriteAfterReturn /\ StickyError
  BY ConstantsOK
  DEF Init, WritesUnderMutex, Lifetimes, NoWriteAfterReturn, StickyError
<1>3. 0 <= 0 /\ 0 < Interval + 0 /\ 0 < Interval + Half
  BY ConstantsOK, HalfOfInterval
<1>4. StampIsOlder /\ LookedSinceTick
  BY <1>3 DEF Init, StampIsOlder, LookedSinceTick
<1>5. SilenceBounded
  BY <1>3 DEF Init, SilenceBounded, PingsBoundSilence
<1> QED
  BY <1>1, <1>2, <1>4, <1>5 DEF IInv

\* A step of a goroutine takes no time: the ticker and the clocks stand still, or
\* restart with the write that they time.
LEMMA GoroutineSteps ==
    ASSUME IInv,
           \/ UpstreamYields \/ UpstreamEnds \/ EventBegins \/ Cancel \/ Join
           \/ EventArrives \/ EventFails \/ PingArrives \/ PingFails
           \/ TakeTick \/ TakeDone \/ PingBegins
    PROVE  IInv'
<1> USE DEF UpstreamYields, UpstreamEnds, EventBegins, Cancel, Join, EventArrives,
            EventFails, PingArrives, PingFails, TakeTick, TakeDone, PingBegins,
            writerVars, timerVars
<1>1. TypeOK
  BY DEF IInv
<1>2. /\ sinceSent \in 0..IdleAbort /\ silence \in 0..IdleAbort
      /\ sinceTick \in 0..(Half - 1)
  BY <1>1 DEF TypeOK
<1>3. /\ 0 <= sinceSent /\ 0 < Interval + sinceTick /\ 0 < Interval + Half
      /\ ~(sinceSent >= Interval) => sinceSent < Interval + sinceTick
  BY <1>2, ConstantsOK, HalfOfInterval
<1>4. TypeOK'
  BY <1>1, ZeroIsInBounds, ConstantsOK DEF TypeOK
<1>5. WritesUnderMutex' /\ StickyError'
  BY <1>1 DEF IInv, WritesUnderMutex, StickyError, TypeOK
<1>6. Lifetimes' /\ NoWriteAfterReturn'
  BY <1>1, ConstantsOK DEF IInv, Lifetimes, NoWriteAfterReturn, TypeOK
<1>7. StampIsOlder'
  BY <1>3 DEF IInv, StampIsOlder, WritesUnderMutex
<1>8. LookedSinceTick'
  <2>1. CASE PingBegins
    <3>1. CASE sinceSent >= Interval /\ ~err
      BY <1>3, <2>1, <3>1 DEF LookedSinceTick
    <3>2. CASE ~(sinceSent >= Interval)
      BY <1>3, <2>1, <3>2 DEF LookedSinceTick
    <3>3. CASE err
      BY <1>3, <2>1, <3>3 DEF LookedSinceTick
    <3> QED
      BY <3>1, <3>2, <3>3
  <2>2. CASE UpstreamYields \/ UpstreamEnds \/ EventBegins \/ Cancel \/ Join
    BY <1>3, <2>2 DEF IInv, LookedSinceTick
  <2>3. CASE EventArrives \/ EventFails \/ PingArrives \/ PingFails
    BY <2>3 DEF IInv, LookedSinceTick
  <2>4. CASE TakeTick \/ TakeDone
    BY <2>4 DEF IInv, LookedSinceTick
  <2> QED
    BY <2>1, <2>2, <2>3, <2>4
<1>9. SilenceBounded'
  BY <1>3 DEF IInv, SilenceBounded, PingsBoundSilence
<1> QED
  BY <1>4, <1>5, <1>6, <1>7, <1>8, <1>9 DEF IInv

\* Time passes only when nothing is runnable. Then a keepalive that is not held
\* up by a write waits for its tick, which is less than half an interval away.
LEMMA TimePasses ==
    ASSUME IInv, Pass
    PROVE  IInv'
<1>1. TypeOK /\ Lifetimes /\ WritesUnderMutex
  BY DEF IInv
<1>2. /\ sinceSent' \in 0..IdleAbort
      /\ silence' \in 0..IdleAbort
      /\ silence' <= silence + 1
      /\ sinceSent' <= sinceSent + 1
  BY <1>1, ElapseBounds DEF Pass, TypeOK
<1>3. /\ sinceTick' \in 0..(Half - 1)
      /\ tick' \in BOOLEAN
      /\ keepalive # "absent" /\ ~tick' => ~tick /\ sinceTick' = sinceTick + 1
  <2>1. CASE UsesKeepalive
    <3>1. sinceTick' = IF sinceTick + 1 = Half THEN 0 ELSE sinceTick + 1
      BY <1>1, <2>1, CountsToHalf DEF Pass, TypeOK
    <3>2. tick' = (tick \/ sinceTick' = 0)
      BY <2>1 DEF Pass
    <3>3. sinceTick' \in 0..(Half - 1)
      BY <1>1, <3>1, HalfOfInterval DEF TypeOK
    <3>4. ~tick' => ~tick /\ sinceTick' = sinceTick + 1
      BY <3>1, <3>2
    <3> QED
      BY <3>2, <3>3, <3>4
  <2>2. CASE ~UsesKeepalive
    BY <1>1, <2>2 DEF Pass, TypeOK, Lifetimes, timerVars
  <2> QED
    BY <2>1, <2>2
<1>4. TypeOK'
  BY <1>1, <1>2, <1>3 DEF Pass, TypeOK
<1>5. (WritesUnderMutex /\ Lifetimes /\ NoWriteAfterReturn /\ StickyError)'
  BY DEF IInv, Pass, WritesUnderMutex, Lifetimes, NoWriteAfterReturn, StickyError
<1>6. StampIsOlder'
  <2>1. mutex = "free" /\ ~err => Elapse(silence) <= Elapse(sinceSent)
    BY <1>1, ElapseMonotone DEF IInv, StampIsOlder, TypeOK
  <2> QED
    BY <2>1 DEF Pass, StampIsOlder
<1>7. LookedSinceTick'
  <2> SUFFICES ASSUME keepalive \in {"select", "write"}, ~tick', ~err
               PROVE  sinceSent' < Interval + sinceTick'
    BY DEF LookedSinceTick, Pass
  <2>1. ~tick /\ sinceTick' = sinceTick + 1
    BY <1>3
  <2>2. sinceSent < Interval + sinceTick
    BY <2>1 DEF IInv, LookedSinceTick
  <2>3. sinceSent \in Nat /\ sinceTick \in Nat /\ Interval \in Nat
    BY <1>1, ConstantsOK, HalfOfInterval DEF TypeOK
  <2> QED
    BY <1>2, <2>1, <2>2, <2>3
<1>8. SilenceBounded'
  <2> SUFFICES ASSUME UsesKeepalive, handler # "returned", ~err
               PROVE  silence' < Interval + Half
    BY DEF SilenceBounded, PingsBoundSilence, Pass
  <2>1. CASE mutex # "free"
    BY <2>1 DEF IInv, Pass, SilenceBounded, PingsBoundSilence
  <2>2. CASE mutex = "free"
    <3>1. keepalive = "select" /\ ~tick
      BY <1>1, <2>2 DEF Pass, Runnable, TypeOK, Lifetimes, WritesUnderMutex
    <3>2. silence <= sinceSent /\ sinceSent < Interval + sinceTick
      BY <2>2, <3>1 DEF IInv, StampIsOlder, LookedSinceTick
    <3>3. sinceTick < Half
      BY <1>1, HalfOfInterval DEF TypeOK
    <3>4. /\ silence \in Nat /\ sinceSent \in Nat /\ sinceTick \in Nat
          /\ Interval \in Nat /\ Half \in Nat
      BY <1>1, ConstantsOK, HalfOfInterval DEF TypeOK
    <3> QED
      BY <1>2, <3>2, <3>3, <3>4
  <2> QED
    BY <2>1, <2>2
<1> QED
  BY <1>4, <1>5, <1>6, <1>7, <1>8 DEF IInv

\* The invariant that all the theorems rest on.
LEMMA InvariantHolds == Spec => []IInv
<1>1. IInv /\ [Next]_vars => IInv'
  <2> SUFFICES ASSUME IInv, [Next]_vars PROVE IInv'
    OBVIOUS
  <2>1. CASE Pass
    BY <2>1, TimePasses
  <2>2. CASE Done \/ UNCHANGED vars
    BY <2>2 DEF Done, vars, writerVars, timerVars, IInv, TypeOK, WritesUnderMutex,
                Lifetimes, NoWriteAfterReturn, StickyError, StampIsOlder,
                LookedSinceTick, SilenceBounded, PingsBoundSilence
  <2>3. CASE Next /\ ~Pass /\ ~Done
    BY <2>3, GoroutineSteps DEF Next, Returning, Writing, Keepalive
  <2> QED
    BY <2>1, <2>2, <2>3
<1> QED
  BY InitInvariant, <1>1, PTL DEF Spec

-----------------------------------------------------------------------------
(* The theorems.                                                           *)

\* The types of the writer's state, for every interval.
THEOREM TypeCorrect == Spec => []TypeOK
<1>1. IInv => TypeOK
  BY DEF IInv
<1> QED
  BY InvariantHolds, <1>1, PTL

\* A ping never falls into the middle of an event: whoever writes holds s.mu.
THEOREM WritersExclude == Spec => []OneWriter
<1>1. IInv => OneWriter
  BY DEF IInv, WritesUnderMutex, OneWriter
<1> QED
  BY InvariantHolds, <1>1, PTL

\* The handler joins the keepalive: nothing writes to a ResponseWriter that the
\* server has taken back.
THEOREM JoinedBeforeReturn == Spec => []NoWriteAfterReturn
<1>1. IInv => NoWriteAfterReturn
  BY DEF IInv
<1> QED
  BY InvariantHolds, <1>1, PTL

\* The error of one goroutine's write stops the other goroutine's writes too.
THEOREM ErrorIsShared == Spec => []StickyError
<1>1. IInv => StickyError
  BY DEF IInv
<1> QED
  BY InvariantHolds, <1>1, PTL

\* Wherever a keepalive runs, half an interval of ticks and the interval itself
\* are all that a client ever waits: the ticker's phase, the time of the events
\* and the length of the writes do not matter.
THEOREM KeepaliveBoundsSilence ==
    ASSUME UsesKeepalive
    PROVE  Spec => []PingsBoundSilence
<1>1. IInv => PingsBoundSilence
  BY DEF IInv, SilenceBounded
<1> QED
  BY InvariantHolds, <1>1, PTL
=============================================================================
