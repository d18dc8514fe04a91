---------------------------- MODULE StreamWriter ----------------------------
(***************************************************************************)
(* The two goroutines that write one streamed response: the handler, which *)
(* runs the translator and emits its events, and the keepalive, which      *)
(* emits a ping when the stream has been silent. They share the            *)
(* StreamWriter: its mutex, its sticky error and the time it last sent.    *)
(*                                                                         *)
(* The OpenAI handler starts the keepalive and joins it before it returns; *)
(* the Codex handler has none (UsesKeepalive).                             *)
(*                                                                         *)
(* Time is counted in units of which Interval make one KeepaliveInterval.  *)
(* It passes when no goroutine can take a step other than finishing a      *)
(* write: everything but I/O is instantaneous at this scale.               *)
(***************************************************************************)
EXTENDS Naturals

CONSTANTS Interval,       \* KeepaliveInterval
          IdleAbort,      \* silence after which the client gives the stream up
          UsesKeepalive

ASSUME ConstantsOK ==
    /\ Interval \in Nat
    /\ Interval >= 2
    /\ Interval % 2 = 0
    /\ IdleAbort \in Nat
    /\ IdleAbort > 2 * Interval
    /\ UsesKeepalive \in BOOLEAN

VARIABLES
    handler,     \* "upstream", "lock", "write", "cancel", "join" or "returned"
    keepalive,   \* "select", "lock", "write", "exited", or "absent"
    mutex,       \* who holds s.mu
    err,         \* s.err # nil
    sinceSent,   \* time since s.lastSent
    cancelled,   \* the keepalive's context
    sinceTick,   \* time since the ticker fired
    tick,        \* a tick waits in the ticker's channel
    silence      \* time since the client, reading, last received anything

writerVars == <<mutex, err, sinceSent>>
timerVars == <<sinceTick, tick>>
vars == <<handler, keepalive, writerVars, cancelled, timerVars, silence>>

Half == Interval \div 2

\* Clocks stop here: no test of the code looks further.
Elapse(t) == IF t < IdleAbort THEN t + 1 ELSE t

TypeOK ==
    /\ handler \in {"upstream", "lock", "write", "cancel", "join", "returned"}
    /\ keepalive \in {"select", "lock", "write", "exited", "absent"}
    /\ mutex \in {"free", "handler", "keepalive"}
    /\ err \in BOOLEAN
    /\ sinceSent \in 0..IdleAbort
    /\ cancelled \in BOOLEAN
    /\ sinceTick \in 0..(Half - 1)
    /\ tick \in BOOLEAN
    /\ silence \in 0..IdleAbort

\* NewStreamWriter has sent the headers and stamped lastSent.
Init ==
    /\ handler = "upstream"
    /\ keepalive = IF UsesKeepalive THEN "select" ELSE "absent"
    /\ mutex = "free"
    /\ err = FALSE
    /\ sinceSent = 0
    /\ cancelled = FALSE
    /\ sinceTick = 0
    /\ tick = FALSE
    /\ silence = 0

-----------------------------------------------------------------------------
(* The handler.                                                            *)

\* The upstream stream yields something to emit.
UpstreamYields ==
    /\ handler = "upstream"
    /\ handler' = "lock"
    /\ UNCHANGED <<keepalive, writerVars, cancelled, timerVars, silence>>

\* The translator has emitted its last event.
UpstreamEnds ==
    /\ handler = "upstream"
    /\ handler' = "cancel"
    /\ UNCHANGED <<keepalive, writerVars, cancelled, timerVars, silence>>

\* Event: take the mutex; return the sticky error, or stamp lastSent and write.
EventBegins ==
    /\ handler = "lock"
    /\ mutex = "free"
    /\ IF err
       THEN /\ handler' = "cancel"
            /\ UNCHANGED writerVars
       ELSE /\ handler' = "write"
            /\ mutex' = "handler"
            /\ sinceSent' = 0
            /\ UNCHANGED err
    /\ UNCHANGED <<keepalive, cancelled, timerVars, silence>>

EventArrives ==
    /\ handler = "write"
    /\ handler' = "upstream"
    /\ mutex' = "free"
    /\ silence' = 0
    /\ UNCHANGED <<keepalive, err, sinceSent, cancelled, timerVars>>

\* The client is gone: Run returns the error.
EventFails ==
    /\ handler = "write"
    /\ handler' = "cancel"
    /\ mutex' = "free"
    /\ err' = TRUE
    /\ UNCHANGED <<keepalive, sinceSent, cancelled, timerVars, silence>>

\* Mutant: the context is not cancelled.
Cancel_WithoutStop ==
    /\ handler = "cancel"
    /\ handler' = IF UsesKeepalive THEN "join" ELSE "returned"
    /\ UNCHANGED <<keepalive, writerVars, cancelled, timerVars, silence>>

\* The deferred stop(); a handler without a keepalive just returns.
Cancel ==
    /\ handler = "cancel"
    /\ handler' = IF UsesKeepalive THEN "join" ELSE "returned"
    /\ cancelled' = UsesKeepalive
    /\ UNCHANGED <<keepalive, writerVars, timerVars, silence>>

\* Mutant: the handler returns without waiting for the keepalive.
Join_NoWait ==
    /\ handler = "join"
    /\ handler' = "returned"
    /\ UNCHANGED <<keepalive, writerVars, cancelled, timerVars, silence>>

\* The deferred <-done.
Join ==
    /\ handler = "join"
    /\ keepalive = "exited"
    /\ handler' = "returned"
    /\ UNCHANGED <<keepalive, writerVars, cancelled, timerVars, silence>>

-----------------------------------------------------------------------------
(* The keepalive. select takes either case when both are ready.            *)

TakeTick ==
    /\ keepalive = "select"
    /\ tick
    /\ tick' = FALSE
    /\ keepalive' = "lock"
    /\ UNCHANGED <<handler, writerVars, cancelled, sinceTick, silence>>

TakeDone ==
    /\ keepalive = "select"
    /\ cancelled
    /\ keepalive' = "exited"
    /\ UNCHANGED <<handler, writerVars, cancelled, timerVars, silence>>

\* Mutant: a ping is attempted after an error.
PingBegins_IgnoresError ==
    /\ keepalive = "lock"
    /\ mutex = "free"
    /\ IF sinceSent >= Interval
       THEN /\ keepalive' = "write"
            /\ mutex' = "keepalive"
            /\ sinceSent' = 0
       ELSE /\ keepalive' = "select"
            /\ UNCHANGED <<mutex, sinceSent>>
    /\ UNCHANGED <<handler, err, cancelled, timerVars, silence>>

\* Mutant: the mutex is not taken.
PingBegins_NoLock ==
    /\ keepalive = "lock"
    /\ keepalive' = IF sinceSent >= Interval /\ ~err THEN "write" ELSE "select"
    /\ UNCHANGED <<handler, writerVars, cancelled, timerVars, silence>>

\* Under the mutex: ping if the stream has been silent for the interval and no
\* write has failed, else go back to select.
PingBegins ==
    /\ keepalive = "lock"
    /\ mutex = "free"
    /\ IF sinceSent >= Interval /\ ~err
       THEN /\ keepalive' = "write"
            /\ mutex' = "keepalive"
            /\ sinceSent' = 0
       ELSE /\ keepalive' = "select"
            /\ UNCHANGED <<mutex, sinceSent>>
    /\ UNCHANGED <<handler, err, cancelled, timerVars, silence>>

PingArrives ==
    /\ keepalive = "write"
    /\ keepalive' = "select"
    /\ mutex' = "free"
    /\ silence' = 0
    /\ UNCHANGED <<handler, err, sinceSent, cancelled, timerVars>>

PingFails ==
    /\ keepalive = "write"
    /\ keepalive' = "select"
    /\ mutex' = "free"
    /\ err' = TRUE
    /\ UNCHANGED <<handler, sinceSent, cancelled, timerVars, silence>>

-----------------------------------------------------------------------------
(* Time.                                                                   *)

Runnable ==
    \/ handler = "lock" /\ mutex = "free"
    \/ handler = "cancel"
    \/ handler = "join" /\ keepalive = "exited"
    \/ keepalive = "select" /\ (tick \/ cancelled)
    \/ keepalive = "lock" /\ mutex = "free"

\* Mutant: the ticker's period is the whole interval.
Pass_SlowTicker ==
    /\ handler # "returned"
    /\ ~Runnable
    /\ sinceSent' = Elapse(sinceSent)
    /\ silence' = IF mutex = "free" THEN Elapse(silence) ELSE silence
    /\ IF UsesKeepalive
       THEN /\ sinceTick' = (sinceTick + 1) % Interval
            /\ tick' = (tick \/ sinceTick' = 0)
       ELSE UNCHANGED timerVars
    /\ UNCHANGED <<handler, keepalive, mutex, err, cancelled>>

\* One unit passes. The ticker fires every half interval; a tick nobody has
\* taken is not repeated. A client that a write waits for is not waiting itself.
Pass ==
    /\ handler # "returned"
    /\ ~Runnable
    /\ sinceSent' = Elapse(sinceSent)
    /\ silence' = IF mutex = "free" THEN Elapse(silence) ELSE silence
    /\ IF UsesKeepalive
       THEN /\ sinceTick' = (sinceTick + 1) % Half
            /\ tick' = (tick \/ sinceTick' = 0)
       ELSE UNCHANGED timerVars
    /\ UNCHANGED <<handler, keepalive, mutex, err, cancelled>>

\* The response is over.
Done ==
    /\ handler = "returned"
    /\ UNCHANGED vars

Returning == Cancel \/ Join

Writing == EventArrives \/ EventFails \/ PingArrives \/ PingFails

Keepalive == TakeTick \/ TakeDone \/ PingBegins

Next ==
    \/ UpstreamYields \/ UpstreamEnds
    \/ EventBegins
    \/ Returning
    \/ Writing
    \/ Keepalive
    \/ Pass
    \/ Done

Spec == Init /\ [][Next]_vars

\* Goroutines are scheduled, select does not ignore one case for ever and a write
\* ends or fails; nothing obliges the upstream to yield or to end.
FairSpec ==
    /\ Spec
    /\ WF_vars(EventBegins)
    /\ WF_vars(Returning)
    /\ WF_vars(Writing)
    /\ WF_vars(PingBegins)
    /\ WF_vars(TakeTick)
    /\ SF_vars(TakeDone)

-----------------------------------------------------------------------------
(* Properties                                                              *)

\* The bytes of a ping never fall into the middle of an event: Event and
\* Keepalive write to the same ResponseWriter under s.mu.
OneWriter == ~(handler = "write" /\ keepalive = "write")

\* No goroutine touches the ResponseWriter once the handler has returned
\* (openai stream: "writing to the ResponseWriter after this handler returns is
\* not allowed").
NoWriteAfterReturn == handler = "returned" => keepalive \in {"exited", "absent"}

\* After a write has failed neither goroutine attempts another one.
StickyError == err => handler # "write" /\ keepalive # "write"

\* A client that is there is never left without an event for one and a half
\* intervals, however the events and the ticks fall (Keepalive: "a ping whenever
\* the stream has been silent for interval").
PingsBoundSilence == handler # "returned" /\ ~err => silence < Interval + Half

\* The client never gives the stream up for want of events (README: "so that a
\* model which reasons for minutes before its first token does not trip the
\* 300 s abort").
NoIdleAbort == silence < IdleAbort

\* The handler does not hang on the keepalive it waits for: once the translator
\* is done, the handler returns.
HandlerReturns == handler = "cancel" ~> handler = "returned"

=============================================================================
