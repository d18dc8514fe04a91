----------------------------- MODULE LoginProofs -----------------------------
(***************************************************************************)
(* Theorems about Login, for any set of sign-ins and any number of         *)
(* callbacks.                                                              *)
(***************************************************************************)
EXTENDS Login, TLAPS

-----------------------------------------------------------------------------
(* The inductive invariant                                                 *)

\* What a sign-in may learn from its callbacks: its own code, or that it failed.
Own(m) == {m, Failure}

\* Only own outcomes are on their way through handlers and channel, whichever tab
\* the callbacks came from.
HandlersOwn == \A m \in Logins : \A o \in Outcomes : handlers[m][o] > 0 => o \in Own(m)
ChannelOwn  == \A m \in Logins : done[m] \in Own(m) \cup {Nothing}

\* waitForCode has returned one when its Shutdown begins.
ReturnedOwn == \A m \in Logins : stage[m] = "stopping" => outcome[m] \in Own(m)

OwnInv == TypeOK /\ HandlersOwn /\ ChannelOwn /\ ReturnedOwn /\ OwnCodeOnly

-----------------------------------------------------------------------------
(* Type correctness                                                        *)

\* A handler's outcome is one the channel may hold.
LEMMA OutcomeType ==
    ASSUME NEW l \in Logins, NEW m \in Logins, NEW kind
    PROVE  Outcome(m, l, kind) \in Outcomes \cap Own(m)
BY DEF Outcome, Outcomes, Own

LEMMA PortsAreNotNothing == Nothing \notin Ports
BY DEF Nothing, Ports, LoopbackPort, FallbackPort

\* A free port is one of the two that neither another program nor a sign-in has.
LEMMA FreePort ==
    ASSUME NEW p \in Free
    PROVE  p \in Ports /\ p \notin busy /\ \A l \in Logins : port[l] # p
BY DEF Free

LEMMA TypeInit == Init => TypeOK
<1> SUFFICES ASSUME Init PROVE TypeOK
  OBVIOUS
<1>1. handlers \in [Logins -> [Outcomes -> Nat]] /\ sent \in 0 .. MaxCallbacks
  BY LoginAssumption DEF Init
<1>2. \A l \in Logins : /\ port[l] = Nothing /\ stage[l] # "waiting"
                       /\ Nothing \notin busy
  BY PortsAreNotNothing DEF Init
<1> QED
  BY <1>1, <1>2 DEF Init, TypeOK, Stages

\* Every variable keeps its type, a listener its port to itself.
LEMMA TypeInductive ==
    ASSUME TypeOK, [Next]_vars
    PROVE  TypeOK'
<1>1. CASE UNCHANGED vars
  BY <1>1 DEF vars, browser, clocks, TypeOK
<1>2. ASSUME NEW l \in Logins, NEW m \in Logins, NEW kind, Callback(l, m, kind)
      PROVE  TypeOK'
  <2>1. PICK o \in Outcomes : o = Outcome(m, l, kind)
    BY OutcomeType
  <2>2. handlers' \in [Logins -> [Outcomes -> Nat]] /\ sent' \in 0 .. MaxCallbacks
    BY <1>2, <2>1, LoginAssumption DEF Callback, TypeOK
  <2> QED
    BY <1>2, <2>2 DEF Callback, TypeOK, clocks
<1>3. ASSUME NEW m \in Logins, Start(m)
      PROVE  TypeOK'
  <2>1. CASE Free = {}
    BY <1>3, <2>1 DEF Start, At, TypeOK, Stages, clocks
  <2>2. CASE Free # {}
    <3>1. PICK p \in Free :
             /\ At(m, "idle", "waiting")
             /\ port' = [port EXCEPT ![m] = p] /\ tab' = [tab EXCEPT ![m] = p]
      <4>1. LoopbackPort \in Free \/ FallbackPort \in Free
        BY <2>2 DEF Free, Ports
      <4> QED
        BY <1>3, <2>2, <4>1 DEF Start
    <3>2. p \in Ports /\ p \notin busy /\ p # Nothing /\ \A l \in Logins : port[l] # p
      BY FreePort, PortsAreNotNothing
    <3>3. stage' = [stage EXCEPT ![m] = "waiting"]
      BY <3>1 DEF At
    <3>4. UNCHANGED <<busy, sent, handlers, done, outcome, expired, graceOver, file>>
      BY <1>3 DEF Start, clocks
    <3> QED
      BY <3>1, <3>2, <3>3, <3>4 DEF TypeOK, Stages
  <2> QED
    BY <2>1, <2>2
<1>4. ASSUME NEW m \in Logins, NEW o \in Outcomes, Send(m, o)
      PROVE  TypeOK'
  BY <1>4 DEF Send, TypeOK, clocks, browser
<1>5. ASSUME NEW m \in Logins, ReceiveOutcome(m)
      PROVE  TypeOK'
  BY <1>5, PortsAreNotNothing DEF ReceiveOutcome, Stop, At, TypeOK, Stages, clocks, browser
<1>6. ASSUME NEW m \in Logins, ContextDone(m)
      PROVE  TypeOK'
  BY <1>6, PortsAreNotNothing DEF ContextDone, Stop, At, TypeOK, Stages, Outcomes, clocks, browser
<1>7. ASSUME NEW m \in Logins, ShutdownReturns(m)
      PROVE  TypeOK'
  BY <1>7 DEF ShutdownReturns, At, TypeOK, Stages, clocks, browser
<1>8. ASSUME NEW m \in Logins, Persist(m)
      PROVE  TypeOK'
  BY <1>8 DEF Persist, At, TypeOK, Stages, clocks, browser
<1>9. ASSUME NEW m \in Logins, PersistFails(m) \/ Exchange(m) \/ ExchangeFails(m)
      PROVE  TypeOK'
  BY <1>9 DEF PersistFails, Exchange, ExchangeFails, At, TypeOK, Stages, clocks, browser
<1>10. ASSUME NEW m \in Logins, Expire(m) \/ GraceEnds(m)
       PROVE  TypeOK'
  BY <1>10 DEF Expire, GraceEnds, TypeOK, browser
<1> QED
  BY <1>1, <1>2, <1>3, <1>4, <1>5, <1>6, <1>7, <1>8, <1>9, <1>10 DEF Next, Step

\* Every variable of every sign-in keeps its type, and no two listeners share a
\* port, with any number of sign-ins at once (listen, waitForCode).
THEOREM TypeCorrect == Spec => []TypeOK
BY TypeInit, TypeInductive, PTL DEF Spec

-----------------------------------------------------------------------------
(* Own codes                                                               *)

LEMMA OwnInit == Init => OwnInv
<1> SUFFICES ASSUME Init PROVE OwnInv
  OBVIOUS
<1>1. TypeOK
  BY TypeInit
<1>2. HandlersOwn /\ ChannelOwn /\ ReturnedOwn
  BY DEF Init, HandlersOwn, ChannelOwn, ReturnedOwn
<1>3. OwnCodeOnly
  BY LoginAssumption DEF Init, OwnCodeOnly, Nothing
<1> QED
  BY <1>1, <1>2, <1>3 DEF OwnInv

\* A step of sign-in n that leaves its outcome alone and moves it to a stage where
\* it has to have its own.
LEMMA StageChange ==
    ASSUME OwnInv, NEW n \in Logins, NEW s \in Stages,
           stage' = [stage EXCEPT ![n] = s],
           UNCHANGED <<handlers, done, outcome, file>>,
           s = "stopping" => outcome[n] \in Own(n),
           s \in {"exchanging", "writing", "done"} => outcome[n] = n,
           file # n
    PROVE  (HandlersOwn /\ ChannelOwn /\ ReturnedOwn /\ OwnCodeOnly)'
<1>1. HandlersOwn' /\ ChannelOwn'
  BY DEF OwnInv, HandlersOwn, ChannelOwn, Own
<1>2. ReturnedOwn'
  BY DEF OwnInv, TypeOK, ReturnedOwn, Own
<1>3. OwnCodeOnly'
  BY DEF OwnInv, TypeOK, OwnCodeOnly
<1> QED
  BY <1>1, <1>2, <1>3

LEMMA OwnInductive ==
    ASSUME OwnInv, [Next]_vars
    PROVE  OwnInv'
<1>1. TypeOK'
  BY TypeInductive DEF OwnInv
<1> DEFINE Rest == HandlersOwn /\ ChannelOwn /\ ReturnedOwn /\ OwnCodeOnly
<1> SUFFICES Rest'
  BY <1>1 DEF OwnInv
<1> USE DEF OwnInv
<1>2. CASE UNCHANGED vars
  BY <1>2 DEF vars, HandlersOwn, ChannelOwn, ReturnedOwn, OwnCodeOnly, Own
<1>3. ASSUME NEW l \in Logins, NEW m \in Logins, NEW kind, Callback(l, m, kind)
      PROVE  Rest'
  <2>1. PICK o \in Outcomes \cap Own(m) : o = Outcome(m, l, kind)
    BY OutcomeType
  <2>2. handlers' = [handlers EXCEPT ![m][o] = @ + 1]
    BY <1>3, <2>1 DEF Callback
  <2>3. HandlersOwn'
    BY <2>1, <2>2 DEF TypeOK, HandlersOwn, Own
  <2>4. (ChannelOwn /\ ReturnedOwn /\ OwnCodeOnly)'
    BY <1>3 DEF Callback, ChannelOwn, ReturnedOwn, OwnCodeOnly, Own
  <2> QED
    BY <2>3, <2>4
<1>4. ASSUME NEW m \in Logins, Start(m)
      PROVE  Rest'
  <2>1. PICK s \in {"waiting", "failed"} : At(m, "idle", s)
    BY <1>4 DEF Start
  <2>2. UNCHANGED <<handlers, done, outcome, file>>
    BY <1>4 DEF Start
  <2>3. file # m
    BY <2>1 DEF At, OwnCodeOnly
  <2> QED
    BY <2>1, <2>2, <2>3, StageChange DEF At, Stages
<1>5. ASSUME NEW m \in Logins, NEW o \in Outcomes, Send(m, o)
      PROVE  Rest'
  <2>1. o \in Own(m)
    BY <1>5 DEF Send, HandlersOwn
  <2>2. HandlersOwn'
    BY <1>5 DEF Send, TypeOK, HandlersOwn, Own
  <2>3. ChannelOwn'
    BY <1>5, <2>1 DEF Send, TypeOK, ChannelOwn, Own
  <2>4. (ReturnedOwn /\ OwnCodeOnly)'
    BY <1>5 DEF Send, ReturnedOwn, OwnCodeOnly, Own
  <2> QED
    BY <2>2, <2>3, <2>4
<1>6. ASSUME NEW m \in Logins, NEW o \in Own(m), Stop(m, o),
             UNCHANGED <<handlers, file>>,
             done' = done \/ done' = [done EXCEPT ![m] = Nothing]
      PROVE  Rest'
  <2>1. HandlersOwn' /\ ChannelOwn'
    BY <1>6 DEF TypeOK, HandlersOwn, ChannelOwn, Own
  <2>2. ReturnedOwn'
    BY <1>6 DEF Stop, At, TypeOK, ReturnedOwn, Own
  <2>3. OwnCodeOnly'
    BY <1>6 DEF Stop, At, TypeOK, OwnCodeOnly
  <2> QED
    BY <2>1, <2>2, <2>3
<1>7. ASSUME NEW m \in Logins, ReceiveOutcome(m) \/ ContextDone(m)
      PROVE  Rest'
  <2>1. CASE ReceiveOutcome(m)
    <3>1. done[m] \in Own(m)
      BY <2>1 DEF ReceiveOutcome, ChannelOwn
    <3> QED
      BY <2>1, <3>1, <1>6 DEF ReceiveOutcome
  <2>2. CASE ContextDone(m)
    <3>1. Failure \in Own(m)
      BY DEF Own
    <3> QED
      BY <2>2, <3>1, <1>6 DEF ContextDone
  <2> QED
    BY <1>7, <2>1, <2>2
<1>8. ASSUME NEW m \in Logins, ShutdownReturns(m)
      PROVE  Rest'
  <2>1. PICK s \in {"failed", "exchanging"} :
           /\ At(m, "stopping", s)
           /\ s = "exchanging" => outcome[m] # Failure
    BY <1>8 DEF ShutdownReturns
  <2>2. outcome[m] \in Own(m) /\ file # m
    BY <2>1 DEF At, ReturnedOwn, OwnCodeOnly
  <2>3. UNCHANGED <<handlers, done, outcome, file>>
    BY <1>8 DEF ShutdownReturns
  <2> QED
    BY <2>1, <2>2, <2>3, StageChange DEF At, Stages, Own
<1>9. ASSUME NEW m \in Logins, Persist(m)
      PROVE  Rest'
  <2>1. HandlersOwn' /\ ChannelOwn'
    BY <1>9 DEF Persist, HandlersOwn, ChannelOwn, Own
  <2>2. ReturnedOwn' /\ OwnCodeOnly'
    BY <1>9 DEF Persist, At, TypeOK, ReturnedOwn, OwnCodeOnly, Own
  <2> QED
    BY <2>1, <2>2
<1>10. ASSUME NEW m \in Logins, PersistFails(m) \/ Exchange(m) \/ ExchangeFails(m)
       PROVE  Rest'
  <2>1. PICK s \in {"failed", "writing"} :
           /\ stage[m] \in {"exchanging", "writing"} /\ stage' = [stage EXCEPT ![m] = s]
           /\ s = "writing" => outcome[m] = m
    BY <1>10 DEF PersistFails, Exchange, ExchangeFails, At
  <2>2. file # m
    BY <2>1 DEF OwnCodeOnly
  <2>3. UNCHANGED <<handlers, done, outcome, file>>
    BY <1>10 DEF PersistFails, Exchange, ExchangeFails
  <2> QED
    BY <2>1, <2>2, <2>3, StageChange DEF Stages
<1>11. ASSUME NEW m \in Logins, Expire(m) \/ GraceEnds(m)
       PROVE  Rest'
  BY <1>11 DEF Expire, GraceEnds, HandlersOwn, ChannelOwn, ReturnedOwn, OwnCodeOnly, Own
<1> HIDE DEF Rest
<1> QED
  BY <1>2, <1>3, <1>4, <1>5, <1>7, <1>8, <1>9, <1>10, <1>11 DEF Next, Step

\* A sign-in only exchanges a code of its own, and only a sign-in that says so has
\* its tokens stored, for any number of sign-ins, tabs and callbacks
\* (login.go:142-147).
THEOREM OwnCodes == Spec => []OwnCodeOnly
<1>1. OwnInv => OwnCodeOnly
  BY DEF OwnInv
<1> QED
  BY <1>1, OwnInit, OwnInductive, PTL DEF Spec

=============================================================================
