--------------------------- MODULE CodexAuthProofs ---------------------------
(***************************************************************************)
(* What holds of the credential store for any number of concurrent         *)
(* requests and any bounds. With every fault and every other user of the   *)
(* file: one refresh at a time, its success shared, tokens handed out      *)
(* fresh, and no refresh token presented that the gateway itself has spent *)
(* while it has dropped none. When the gateway is the file's only user: a  *)
(* refusal means that the stored grant is dead.                            *)
(***************************************************************************)
EXTENDS CodexAuth, TLAPS

-----------------------------------------------------------------------------
(* Types                                                                   *)

\* The constants' types, in the form the steps below use them.
LEMMA ConstantTypes ==
    /\ Leeway \in Nat /\ MaxTime \in Nat /\ MaxGen \in Nat /\ MaxGrants \in Nat
    /\ 1 \in 1..MaxGen /\ 1 \in Grants
    /\ Lifetimes \subseteq Nat
    /\ \A life \in Lifetimes : life = 0 \/ life > Leeway
BY ConstantsOK DEF Grants

\* The seven ways in which a call moves while it holds the mutex.
LEMMA RefreshCases ==
    \A c \in Callers :
        Refresh(c) <=> \/ IssuerAnswers(c) \/ RefreshFails(c)
                       \/ ReplyLost(c) \/ ReceiveRefusal(c) \/ ReceiveTokens(c)
                       \/ Persist(c) \/ PersistFails(c)
BY DEF Refresh, EndsWaiting, EndsReceiving, EndsWriting

\* Expiry times are times.
LEMMA ExpiryType ==
    ASSUME now \in Nat, NEW life \in Lifetimes
    PROVE  ExpiryOf(life) \in Nat
BY ConstantTypes DEF ExpiryOf

\* The first credential is the one that signed in.
LEMMA InitType == Init => TypeOK
<1> SUFFICES ASSUME Init PROVE TypeOK
  OBVIOUS
<1>1. /\ 0 \in 0..MaxTime /\ 0 \in 0..MaxGen /\ 0 \in Nat /\ 0 \in 0..1
      /\ Leeway \in Nat /\ 1 \in 1..MaxGen /\ 1 \in Grants
  BY ConstantTypes
<1>2. file \in Credential
  BY <1>1 DEF Init, Credential
<1>3. mem = file /\ cliCred = file /\ expiry \in Nat /\ cliUsed \subseteq Grants
  BY <1>2 DEF Init, Credential
<1>4. NoReply \in Reply
  BY <1>1 DEF NoReply, Reply
<1> QED
  BY <1>1, <1>2, <1>3, <1>4 DEF Init, TypeOK

\* A call of AccessToken keeps the types: what applyTokens makes is a credential.
LEMMA CallerStepType ==
    ASSUME TypeOK, NEW c \in Callers, Call(c) \/ Acquire(c) \/ Refresh(c)
    PROVE  TypeOK'
<1> USE DEF issuerVars, storeVars, callerVars, cliVars, custody, history
<1>1. CASE Call(c)
  BY <1>1 DEF Call, TypeOK
<1>2. CASE Acquire(c)
  BY <1>2 DEF Acquire, TypeOK
<1>3. CASE IssuerAnswers(c)
  <2>1. CASE Live(mem)
    <3>1. PICK n \in Rotations(mem), life \in Lifetimes :
             /\ gen' = [gen EXCEPT ![mem.grant] = n]
             /\ reply' = [reply EXCEPT ![c] = [kind |-> "tokens",
                                               gen |-> IF n = mem.gen THEN 0 ELSE n,
                                               expiry |-> ExpiryOf(life)]]
      BY <1>3, <2>1 DEF IssuerAnswers
    <3>2. n \in 1..MaxGen
      BY ConstantTypes DEF Rotations, TypeOK, Credential
    <3>3. ExpiryOf(life) \in Nat
      BY ConstantTypes, ExpiryType DEF TypeOK
    <3>4. [kind |-> "tokens", gen |-> IF n = mem.gen THEN 0 ELSE n,
           expiry |-> ExpiryOf(life)] \in Reply
      BY <3>2, <3>3, ConstantTypes DEF Reply
    <3>5. gen' \in [Grants -> 1..MaxGen] /\ reply' \in [Callers -> Reply]
      BY <3>1, <3>2, <3>4 DEF TypeOK
    <3> QED
      BY <1>3, <3>5 DEF IssuerAnswers, TypeOK
  <2>2. CASE ~Live(mem)
    <3>1. Refused \in Reply
      BY ConstantTypes DEF Refused, Reply
    <3> QED
      BY <1>3, <2>2, <3>1 DEF IssuerAnswers, TypeOK
  <2> QED
    BY <2>1, <2>2
<1>4. NoReply \in Reply
  BY ConstantTypes DEF NoReply, Reply
<1>5. CASE RefreshFails(c)
  BY <1>4, <1>5 DEF RefreshFails, Return, TypeOK
<1>6. CASE ReplyLost(c)
  BY <1>4, <1>6 DEF ReplyLost, Return, TypeOK
<1>7. CASE ReceiveRefusal(c)
  BY <1>4, <1>7 DEF ReceiveRefusal, Return, TypeOK
<1>8. CASE ReceiveTokens(c)
  <2>1. reply[c].gen \in 0..MaxGen /\ reply[c].expiry \in Nat
    BY DEF TypeOK, Reply
  <2>2. KeptGen(c) \in 1..MaxGen
    BY <2>1, ConstantTypes DEF KeptGen, TypeOK, Credential
  <2>3. mem' \in Credential
    BY <1>8, <2>1, <2>2 DEF ReceiveTokens, TypeOK, Credential
  <2> QED
    BY <1>8, <2>1, <2>3 DEF ReceiveTokens, TypeOK
<1>9. CASE Persist(c)
  BY <1>4, <1>9 DEF Persist, Return, TypeOK
<1>10. CASE PersistFails(c)
  BY <1>4, <1>10 DEF PersistFails, Return, TypeOK
<1> QED
  BY <1>1, <1>2, <1>3, <1>5, <1>6, <1>7, <1>8, <1>9, <1>10, RefreshCases

\* So do the steps around it.
LEMMA OtherStepType ==
    ASSUME TypeOK,
           \/ \E g \in Grants : Revoke(g)
           \/ Stop \/ Start \/ Login \/ CLILoads \/ CLIRefreshes \/ CLIWrites
           \/ CLIStoresExtra \/ Pass
    PROVE  TypeOK'
<1> USE DEF issuerVars, storeVars, callerVars, cliVars, custody, history
<1>1. CASE \E g \in Grants : Revoke(g)
  BY <1>1 DEF Revoke, TypeOK
<1>2. CASE Stop
  <2>1. NoReply \in Reply
    BY ConstantTypes DEF NoReply, Reply
  <2>2. lost' \in BOOLEAN
    BY <1>2 DEF Stop
  <2> QED
    BY <1>2, <2>1, <2>2 DEF Stop, TypeOK
<1>3. CASE Start
  BY <1>3 DEF Start, TypeOK, Credential
<1>4. CASE Login
  <2>1. signedIn + 1 \in Grants
    <3>1. signedIn \in Grants /\ signedIn < MaxGrants
      BY <1>4 DEF Login, TypeOK
    <3> QED
      BY <3>1, ConstantTypes DEF Grants
  <2>2. PICK life \in Lifetimes :
           file' = [file EXCEPT !.grant = signedIn + 1, !.gen = 1,
                                !.expiry = ExpiryOf(life)]
    BY <1>4 DEF Login
  <2>3. ExpiryOf(life) \in Nat
    BY ConstantTypes, ExpiryType DEF TypeOK
  <2>4. file' \in Credential
    BY <2>1, <2>2, <2>3, ConstantTypes DEF TypeOK, Credential
  <2> QED
    BY <1>4, <2>1, <2>4 DEF Login, TypeOK
<1>5. CASE CLILoads
  BY <1>5 DEF CLILoads, TypeOK
<1>6. CASE CLIRefreshes
  <2>1. CASE Live(cliCred)
    <3>1. PICK n \in Rotations(cliCred), life \in Lifetimes :
             /\ gen' = [gen EXCEPT ![cliCred.grant] = n]
             /\ cliCred' = [cliCred EXCEPT !.gen = n, !.expiry = ExpiryOf(life)]
      BY <1>6, <2>1 DEF CLIRefreshes
    <3>2. n \in 1..MaxGen
      BY ConstantTypes DEF Rotations, TypeOK, Credential
    <3>3. ExpiryOf(life) \in Nat
      BY ConstantTypes, ExpiryType DEF TypeOK
    <3>4. gen' \in [Grants -> 1..MaxGen] /\ cliCred' \in Credential
      BY <3>1, <3>2, <3>3 DEF TypeOK, Credential
    <3>5. cliUsed' \subseteq Grants
      BY <1>6, <2>1 DEF CLIRefreshes, TypeOK, Credential
    <3> QED
      BY <1>6, <2>1, <3>4, <3>5 DEF CLIRefreshes, TypeOK
  <2>2. CASE ~Live(cliCred)
    BY <1>6, <2>2 DEF CLIRefreshes, TypeOK
  <2> QED
    BY <2>1, <2>2
<1>7. CASE CLIWrites
  BY <1>7 DEF CLIWrites, TypeOK
<1>8. CASE CLIStoresExtra
  <2>1. file' \in Credential
    BY <1>8 DEF CLIStoresExtra, TypeOK, Credential
  <2> QED
    BY <1>8, <2>1 DEF CLIStoresExtra, TypeOK
<1>9. CASE Pass
  BY <1>9, ConstantTypes DEF Pass, TypeOK
<1> QED
  BY <1>1, <1>2, <1>3, <1>4, <1>5, <1>6, <1>7, <1>8, <1>9

\* Every step keeps the types.
LEMMA StepType == TypeOK /\ [Next]_vars => TypeOK'
<1> SUFFICES ASSUME TypeOK, [Next]_vars PROVE TypeOK'
  OBVIOUS
<1>1. CASE \E c \in Callers : Call(c) \/ Acquire(c) \/ Refresh(c)
  BY <1>1, CallerStepType
<1>2. CASE UNCHANGED vars
  BY <1>2 DEF vars, issuerVars, storeVars, callerVars, cliVars, custody, history,
              TypeOK
<1>3. CASE \/ \E g \in Grants : Revoke(g)
           \/ Stop \/ Start \/ Login \/ CLILoads \/ CLIRefreshes \/ CLIWrites
           \/ CLIStoresExtra \/ Pass
  BY <1>3, OtherStepType
<1> QED
  BY <1>1, <1>2, <1>3 DEF Next

\* The types of the store, the issuer, the file and its users, for any number of
\* requests.
THEOREM TypeCorrect == Spec => []TypeOK
BY InitType, StepType, PTL DEF Spec

-----------------------------------------------------------------------------
(* One refresh at a time, and fresh tokens.                                *)

\* The mutex is held by the call that refreshes, and by no other.
Exclusive == \A c \in Callers : InFlight(c) <=> mutex = c

\* No call is under way while the gateway is down.
StoppedIsIdle == ~running => \A c \in Callers : pc[c] = "idle"

\* The cached expiry is that of the token in memory.
ExpiryCached == expiry = mem.expiry

\* Is a token of this expiry good for the leeway, as far as can be known?
Fresh(e) == e = 0 \/ now + Leeway <= e

\* What the issuer has just sent is fresh when it is received and persisted.
AnswerFresh ==
    \A c \in Callers :
        /\ pc[c] = "answered" /\ reply[c].kind = "tokens" => Fresh(reply[c].expiry)
        /\ pc[c] = "persisting" => Fresh(mem.expiry)

\* While a call that waited for a successful refresh has not returned, its token
\* is at hand: no other refresh has begun and no time has passed.
WaitersServed ==
    \A c \in Callers :
        waited[c] = "success" /\ pc[c] = "locking" => mutex = Nobody /\ Fresh(expiry)

IInv ==
    /\ TypeOK
    /\ Exclusive
    /\ StoppedIsIdle
    /\ ExpiryCached
    /\ AnswerFresh
    /\ WaitersServed

\* The gateway starts idle, with the file's credential in memory.
LEMMA InitInvariant == Init => IInv
<1> SUFFICES ASSUME Init PROVE IInv
  OBVIOUS
<1>1. TypeOK
  BY InitType
<1>2. Exclusive
  BY ConstantsOK DEF Init, Exclusive, InFlight
<1>3. StoppedIsIdle /\ ExpiryCached /\ AnswerFresh /\ WaitersServed
  BY DEF Init, StoppedIsIdle, ExpiryCached, AnswerFresh, WaitersServed
<1> QED
  BY <1>1, <1>2, <1>3 DEF IInv

\* The holder of the mutex alone moves through a refresh.
LEMMA ExclusiveStep ==
    ASSUME IInv, Next
    PROVE  Exclusive'
<1> USE ConstantsOK DEF issuerVars, storeVars, callerVars, cliVars, custody, history
<1>1. TypeOK /\ Exclusive /\ StoppedIsIdle
  BY DEF IInv
<1>2. ASSUME NEW c \in Callers, Call(c) \/ Acquire(c) \/ Refresh(c)
      PROVE  Exclusive'
  <2>1. CASE Call(c)
    BY <1>1, <2>1 DEF Call, TypeOK, Exclusive, InFlight
  <2>2. CASE Acquire(c)
    BY <1>1, <2>2 DEF Acquire, TypeOK, Exclusive, InFlight
  <2>3. CASE IssuerAnswers(c) \/ ReceiveTokens(c)
    BY <1>1, <2>3 DEF IssuerAnswers, ReceiveTokens, TypeOK, Exclusive, InFlight
  <2>4. CASE \/ RefreshFails(c) \/ ReplyLost(c) \/ ReceiveRefusal(c)
             \/ Persist(c) \/ PersistFails(c)
    <3>1. pc' = [pc EXCEPT ![c] = "idle"] /\ mutex' = Nobody /\ InFlight(c)
      BY <2>4 DEF RefreshFails, ReplyLost, ReceiveRefusal, Persist, PersistFails,
                  Return, InFlight
    <3> QED
      BY <1>1, <3>1 DEF TypeOK, Exclusive, InFlight
  <2> QED
    BY <1>2, <2>1, <2>2, <2>3, <2>4, RefreshCases
<1>3. CASE Stop
  BY <1>3 DEF Stop, Exclusive, InFlight
<1>4. CASE \/ \E g \in Grants : Revoke(g)
           \/ Start \/ Login \/ CLILoads \/ CLIRefreshes \/ CLIWrites
           \/ CLIStoresExtra \/ Pass
  BY <1>1, <1>4 DEF Revoke, Start, Login, CLILoads, CLIRefreshes, CLIWrites,
                    CLIStoresExtra, Pass, Exclusive, InFlight
<1> QED
  BY <1>2, <1>3, <1>4 DEF Next

\* Stop clears every call, and none begins before Start.
LEMMA StoppedStep ==
    ASSUME IInv, Next
    PROVE  StoppedIsIdle' /\ ExpiryCached'
<1> USE DEF issuerVars, storeVars, callerVars, cliVars, custody, history
<1>1. TypeOK /\ StoppedIsIdle /\ ExpiryCached
  BY DEF IInv
<1>2. ASSUME NEW c \in Callers, Call(c) \/ Acquire(c) \/ Refresh(c)
      PROVE  StoppedIsIdle' /\ ExpiryCached'
  <2>1. running
    BY <1>1, <1>2, RefreshCases
       DEF Call, Acquire, IssuerAnswers, RefreshFails, ReplyLost, ReceiveRefusal,
           ReceiveTokens, Persist, PersistFails, StoppedIsIdle
  <2>2. running'
    BY <1>2, <2>1, RefreshCases
       DEF Call, Acquire, IssuerAnswers, RefreshFails, ReplyLost, ReceiveRefusal,
           ReceiveTokens, Persist, PersistFails
  <2>3. CASE ReceiveTokens(c)
    BY <1>1, <2>2, <2>3 DEF ReceiveTokens, StoppedIsIdle, ExpiryCached, TypeOK,
                            Credential
  <2>4. CASE ~ReceiveTokens(c)
    <3>1. expiry' = expiry /\ mem' = mem
      BY <1>2, <2>4, RefreshCases
         DEF Call, Acquire, IssuerAnswers, RefreshFails, ReplyLost, ReceiveRefusal,
             Persist, PersistFails
    <3> QED
      BY <1>1, <2>2, <3>1 DEF StoppedIsIdle, ExpiryCached
  <2> QED
    BY <2>3, <2>4
<1>3. CASE Stop \/ Start
  BY <1>1, <1>3 DEF Stop, Start, StoppedIsIdle, ExpiryCached
<1>4. CASE \/ \E g \in Grants : Revoke(g)
           \/ Login \/ CLILoads \/ CLIRefreshes \/ CLIWrites
           \/ CLIStoresExtra \/ Pass
  BY <1>1, <1>4 DEF Revoke, Login, CLILoads, CLIRefreshes, CLIWrites,
                    CLIStoresExtra, Pass, StoppedIsIdle, ExpiryCached
<1> QED
  BY <1>2, <1>3, <1>4 DEF Next

\* An issuer's token outlives the leeway when it is issued.
LEMMA IssuedFresh ==
    ASSUME TypeOK, NEW life \in Lifetimes
    PROVE  Fresh(ExpiryOf(life))
<1>1. now \in Nat
  BY ConstantTypes DEF TypeOK
<1> QED
  BY <1>1, ConstantTypes DEF Fresh, ExpiryOf

\* No time passes between the issuer's answer and the return of the call.
LEMMA AnswerFreshStep ==
    ASSUME IInv, Next
    PROVE  AnswerFresh'
<1> USE DEF issuerVars, storeVars, callerVars, cliVars, custody, history
<1>1. TypeOK /\ StoppedIsIdle /\ AnswerFresh /\ Exclusive
  BY DEF IInv
<1>2. ASSUME NEW c \in Callers, Call(c) \/ Acquire(c) \/ Refresh(c)
      PROVE  AnswerFresh'
  <2>1. CASE Call(c) \/ Acquire(c)
    BY <1>1, <2>1 DEF Call, Acquire, TypeOK, AnswerFresh, Fresh
  <2>2. CASE IssuerAnswers(c)
    <3>1. CASE reply'[c].kind = "tokens"
      <4>1. PICK life \in Lifetimes : reply'[c].expiry = ExpiryOf(life)
        BY <1>1, <2>2, <3>1 DEF IssuerAnswers, TypeOK, Refused
      <4>2. Fresh(reply'[c].expiry)
        BY <1>1, <4>1, IssuedFresh
      <4>3. \A d \in Callers \ {c} : reply'[d] = reply[d] /\ pc'[d] = pc[d]
        BY <1>1, <2>2 DEF IssuerAnswers, TypeOK
      <4>4. pc'[c] = "answered" /\ mem' = mem /\ now' = now
        BY <1>1, <2>2 DEF IssuerAnswers, TypeOK
      <4> QED
        BY <1>1, <4>2, <4>3, <4>4 DEF AnswerFresh, Fresh
    <3>2. CASE reply'[c].kind # "tokens"
      <4>1. \A d \in Callers \ {c} : reply'[d] = reply[d] /\ pc'[d] = pc[d]
        BY <1>1, <2>2 DEF IssuerAnswers, TypeOK
      <4>2. pc'[c] = "answered" /\ mem' = mem /\ now' = now
        BY <1>1, <2>2 DEF IssuerAnswers, TypeOK
      <4> QED
        BY <1>1, <3>2, <4>1, <4>2 DEF AnswerFresh, Fresh
    <3> QED
      BY <3>1, <3>2
  <2>3. CASE ReceiveTokens(c)
    <3>1. Fresh(reply[c].expiry) /\ mem'.expiry = reply[c].expiry
      BY <1>1, <2>3 DEF ReceiveTokens, AnswerFresh, TypeOK, Credential
    <3>2. \A d \in Callers \ {c} : pc'[d] = pc[d] /\ ~InFlight(d)
      BY <1>1, <2>3 DEF ReceiveTokens, TypeOK, Exclusive, InFlight
    <3>3. pc'[c] = "persisting" /\ now' = now
      BY <1>1, <2>3 DEF ReceiveTokens, TypeOK
    <3> QED
      BY <3>1, <3>2, <3>3 DEF AnswerFresh, Fresh, InFlight
  <2>4. CASE \/ RefreshFails(c) \/ ReplyLost(c) \/ ReceiveRefusal(c)
             \/ Persist(c) \/ PersistFails(c)
    <3>1. /\ pc' = [pc EXCEPT ![c] = "idle"]
          /\ reply' = [reply EXCEPT ![c] = NoReply]
          /\ mem' = mem /\ now' = now
      BY <2>4 DEF RefreshFails, ReplyLost, ReceiveRefusal, Persist, PersistFails,
                  Return
    <3> QED
      BY <1>1, <3>1 DEF TypeOK, AnswerFresh, Fresh
  <2> QED
    BY <1>2, <2>1, <2>2, <2>3, <2>4, RefreshCases
<1>3. CASE Stop
  BY <1>3 DEF Stop, AnswerFresh
<1>4. CASE Start
  BY <1>1, <1>4 DEF Start, StoppedIsIdle, AnswerFresh
<1>5. CASE Pass
  BY <1>5 DEF Pass, Runnable, AnswerFresh
<1>6. CASE \/ \E g \in Grants : Revoke(g)
           \/ Login \/ CLILoads \/ CLIRefreshes \/ CLIWrites \/ CLIStoresExtra
  BY <1>1, <1>6 DEF Revoke, Login, CLILoads, CLIRefreshes, CLIWrites,
                    CLIStoresExtra, AnswerFresh, Fresh
<1> QED
  BY <1>2, <1>3, <1>4, <1>5, <1>6 DEF Next

\* A successful refresh leaves the mutex free and its token fresh for all who
\* wait, and those only ever find it so.
LEMMA WaitersStep ==
    ASSUME IInv, Next
    PROVE  WaitersServed'
<1> USE DEF issuerVars, storeVars, callerVars, cliVars, custody, history
<1>1. /\ TypeOK /\ StoppedIsIdle /\ AnswerFresh /\ Exclusive /\ ExpiryCached
      /\ WaitersServed
  BY DEF IInv
<1>2. ASSUME NEW c \in Callers, Call(c) \/ Acquire(c) \/ Refresh(c)
      PROVE  WaitersServed'
  <2>1. CASE Call(c)
    BY <1>1, <2>1 DEF Call, TypeOK, WaitersServed, Fresh
  <2>2. CASE Acquire(c)
    <3>1. CASE NeedsRefresh
      <4>1. \A d \in Callers : ~(waited[d] = "success" /\ pc[d] = "locking")
        <5>1. now \in Nat /\ Leeway \in Nat /\ expiry \in Nat
          BY <1>1, ConstantTypes DEF TypeOK
        <5> QED
          BY <1>1, <3>1, <5>1 DEF WaitersServed, NeedsRefresh, Fresh
      <4> QED
        BY <1>1, <2>2, <4>1 DEF Acquire, TypeOK, WaitersServed
    <3>2. CASE ~NeedsRefresh
      BY <1>1, <2>2, <3>2 DEF Acquire, TypeOK, WaitersServed, Fresh
    <3> QED
      BY <3>1, <3>2
  <2>3. CASE IssuerAnswers(c) \/ ReceiveTokens(c)
    <3>1. mutex = c /\ c # Nobody
      BY <1>1, <2>3, ConstantsOK
         DEF IssuerAnswers, ReceiveTokens, Exclusive, InFlight
    <3>2. /\ waited' = waited
          /\ \A d \in Callers : pc'[d] = "locking" => pc[d] = "locking"
      BY <1>1, <2>3 DEF IssuerAnswers, ReceiveTokens, TypeOK
    <3> QED
      BY <1>1, <3>1, <3>2 DEF WaitersServed
  <2>4. CASE RefreshFails(c) \/ ReplyLost(c) \/ ReceiveRefusal(c)
    <3>1. \A d \in Callers : pc'[d] = "locking" => waited'[d] = "failure"
      BY <1>1, <2>4 DEF RefreshFails, ReplyLost, ReceiveRefusal, Return, TypeOK
    <3> QED
      BY <3>1 DEF WaitersServed
  <2>5. CASE Persist(c) \/ PersistFails(c)
    <3>1. Fresh(expiry)
      BY <1>1, <2>5 DEF Persist, PersistFails, AnswerFresh, ExpiryCached
    <3>2. mutex' = Nobody /\ expiry' = expiry /\ now' = now
      BY <2>5 DEF Persist, PersistFails, Return
    <3> QED
      BY <3>1, <3>2 DEF WaitersServed, Fresh
  <2> QED
    BY <1>2, <2>1, <2>2, <2>3, <2>4, <2>5, RefreshCases
<1>3. CASE Stop
  BY <1>3 DEF Stop, WaitersServed
<1>4. CASE Start
  BY <1>1, <1>4 DEF Start, StoppedIsIdle, WaitersServed
<1>5. CASE Pass
  BY <1>1, <1>5 DEF Pass, Runnable, WaitersServed
<1>6. CASE \/ \E g \in Grants : Revoke(g)
           \/ Login \/ CLILoads \/ CLIRefreshes \/ CLIWrites \/ CLIStoresExtra
  BY <1>1, <1>6 DEF Revoke, Login, CLILoads, CLIRefreshes, CLIWrites,
                    CLIStoresExtra, WaitersServed, Fresh
<1> QED
  BY <1>2, <1>3, <1>4, <1>5, <1>6 DEF Next

\* Every step of the system preserves the invariant.
LEMMA InvariantStep == IInv /\ [Next]_vars => IInv'
<1> SUFFICES ASSUME IInv, [Next]_vars PROVE IInv'
  OBVIOUS
<1>1. CASE Next
  <2>1. TypeOK'
    BY StepType DEF IInv
  <2> QED
    BY <1>1, <2>1, ExclusiveStep, StoppedStep, AnswerFreshStep, WaitersStep DEF IInv
<1>2. CASE UNCHANGED vars
  BY <1>2 DEF vars, issuerVars, storeVars, callerVars, cliVars, custody, history,
              IInv, TypeOK, Exclusive, InFlight, StoppedIsIdle, ExpiryCached,
              AnswerFresh, WaitersServed, Fresh
<1> QED
  BY <1>1, <1>2

\* The invariant that the theorems of every setting rest on.
LEMMA InvariantHolds == Spec => []IInv
BY InitInvariant, InvariantStep, PTL DEF Spec

\* One refresh at a time, however many requests arrive and whatever fails.
THEOREM SingleRefresh == Spec => []OneRefreshAtATime
<1>1. IInv => OneRefreshAtATime
  BY DEF IInv, Exclusive, OneRefreshAtATime
<1> QED
  BY InvariantHolds, <1>1, PTL

\* Callers that waited for a refresh which succeeded take its token.
THEOREM WaitersShareSuccess == Spec => SuccessIsShared
<1>1. IInv /\ [Next]_vars
      => [\A c \in Callers : waited[c] = "success" => ~StartsRefresh(c)]_vars
  <2> SUFFICES ASSUME IInv, [Next]_vars, NEW c \in Callers, waited[c] = "success",
                      pc[c] = "locking", pc'[c] = "refreshing"
               PROVE  FALSE
    BY DEF StartsRefresh
  <2>1. TypeOK /\ WaitersServed
    BY DEF IInv
  <2>2. Acquire(c) /\ NeedsRefresh
    <3>1. pc' # pc
      OBVIOUS
    <3>2. PICK d \in Callers : Call(d) \/ Acquire(d) \/ Refresh(d)
      <4>1. ~Stop
        BY DEF Stop
      <4>2. ~\E g \in Grants : Revoke(g)
        BY <3>1 DEF Revoke, callerVars
      <4>3. ~Start /\ ~Login /\ ~Pass
        BY <3>1 DEF Start, Login, Pass, callerVars
      <4>4. ~CLILoads /\ ~CLIRefreshes /\ ~CLIWrites /\ ~CLIStoresExtra
        BY <3>1 DEF CLILoads, CLIRefreshes, CLIWrites, CLIStoresExtra, callerVars
      <4> QED
        BY <3>1, <4>1, <4>2, <4>3, <4>4 DEF Next, vars, callerVars
    <3>3. d = c
      BY <2>1, <3>2, RefreshCases
         DEF TypeOK, Call, Acquire, IssuerAnswers, RefreshFails, ReplyLost,
             ReceiveRefusal, ReceiveTokens, Persist, PersistFails, Return
    <3>4. ~Call(c)
      BY DEF Call
    <3>5. ~Refresh(c)
      BY RefreshCases DEF IssuerAnswers, RefreshFails, ReplyLost, ReceiveRefusal,
             ReceiveTokens, Persist, PersistFails
    <3>6. Acquire(c)
      BY <3>2, <3>3, <3>4, <3>5
    <3> QED
      BY <2>1, <3>6 DEF TypeOK, Acquire
  <2>3. now \in Nat /\ Leeway \in Nat /\ expiry \in Nat
    BY <2>1, ConstantTypes DEF TypeOK
  <2> QED
    BY <2>1, <2>2, <2>3 DEF WaitersServed, NeedsRefresh, Fresh
<1> QED
  BY InvariantHolds, <1>1, PTL DEF Spec, SuccessIsShared

\* A token handed out without talking to the issuer, or just received from it,
\* is good for the leeway.
THEOREM TokensAreFresh == Spec => HandedOutFresh
<1>1. IInv /\ [Next]_vars
      => [\A c \in Callers :
             /\ result'[c] = "token" /\ result[c] # "token"
             /\ ~(pc[c] \in {"refreshing", "answered"})
             => mem.expiry = 0 \/ mem.expiry >= now + Leeway]_vars
  <2> SUFFICES ASSUME IInv, [Next]_vars, NEW c \in Callers,
                      result'[c] = "token", result[c] # "token",
                      ~(pc[c] \in {"refreshing", "answered"})
               PROVE  mem.expiry = 0 \/ mem.expiry >= now + Leeway
    OBVIOUS
  <2>1. TypeOK /\ AnswerFresh /\ ExpiryCached
    BY DEF IInv
  <2>2. (Acquire(c) /\ ~NeedsRefresh) \/ Persist(c) \/ PersistFails(c)
    <3> USE DEF issuerVars, storeVars, callerVars, cliVars, custody, history
    <3>1. PICK d \in Callers : Call(d) \/ Acquire(d) \/ Refresh(d)
      BY <2>1 DEF Next, vars, TypeOK, Revoke, Stop, Start, Login, CLILoads,
                  CLIRefreshes, CLIWrites, CLIStoresExtra, Pass
    <3>2. CASE Call(d) \/ IssuerAnswers(d) \/ ReceiveTokens(d)
      BY <2>1, <3>2 DEF Call, IssuerAnswers, ReceiveTokens, TypeOK
    <3>3. CASE Acquire(d)
      BY <2>1, <3>3 DEF Acquire, TypeOK
    <3>4. CASE RefreshFails(d) \/ ReplyLost(d) \/ ReceiveRefusal(d)
      BY <2>1, <3>4 DEF RefreshFails, ReplyLost, ReceiveRefusal, Return, TypeOK
    <3>5. CASE Persist(d) \/ PersistFails(d)
      BY <2>1, <3>5 DEF Persist, PersistFails, Return, TypeOK
    <3> QED
      BY <3>1, <3>2, <3>3, <3>4, <3>5, RefreshCases
  <2>3. now \in Nat /\ Leeway \in Nat /\ mem.expiry \in Nat
    BY <2>1, ConstantTypes DEF TypeOK, Credential
  <2>4. Fresh(mem.expiry)
    BY <2>1, <2>2, <2>3 DEF NeedsRefresh, AnswerFresh, ExpiryCached, Persist,
                            PersistFails, Fresh
  <2> QED
    BY <2>3, <2>4 DEF Fresh
<1> QED
  BY InvariantHolds, <1>1, PTL DEF Spec, HandedOutFresh

-----------------------------------------------------------------------------
(* Refresh tokens: whoever else uses the file, the gateway stays at the    *)
(* end of its own grant's chain of them.                                   *)

\* Has the CLI left this grant's refresh tokens to the gateway?
Ours(g) == g \notin cliUsed

\* Is a rotated refresh token on its way to the caller?
Pending(c) == pc[c] = "answered" /\ reply[c].gen # 0

\* Nobody has a grant that was not issued, or has refreshed one.
OnlyIssued ==
    /\ file.grant <= signedIn /\ mem.grant <= signedIn /\ cliCred.grant <= signedIn
    /\ \A g \in Grants : g > signedIn => gen[g] = 1

\* What the CLI is about to write is a grant that it has refreshed.
CLIKnown == cli = "refreshed" => ~Ours(cliCred.grant)

\* A token on its way is its grant's current one, and a refusal carries none.
AnswerFits ==
    \A c \in Callers :
        /\ Pending(c) /\ Ours(mem.grant) => reply[c].gen = gen[mem.grant]
        /\ Pending(c) => reply[c].kind # "refused"

\* The current token of the gateway's grant is in memory, or on its way there.
MemoryCurrent ==
    running /\ Ours(mem.grant)
       => mem.gen = gen[mem.grant] \/ \E c \in Callers : Pending(c)

\* What the next start would read: the current token of the grant in the file,
\* unless the gateway has it in memory only.
FileCurrent ==
    Ours(file.grant) => IF running /\ file.grant = mem.grant
                        THEN unsaved \/ file.gen = mem.gen
                        ELSE file.gen = gen[file.grant]

Chain == OnlyIssued /\ CLIKnown /\ AnswerFits /\ MemoryCurrent /\ FileCurrent

CInv == ~lost => Chain

\* Grants and generations are numbers.
LEMMA HolderTypes ==
    ASSUME TypeOK
    PROVE  /\ \A x \in {file, mem, cliCred} : x.gen \in Nat /\ x.grant \in Grants
           /\ \A g \in Grants : g \in Nat /\ gen[g] \in Nat
           /\ \A c \in Callers : reply[c].gen \in Nat
           /\ signedIn \in Grants /\ signedIn \in Nat
<1>1. MaxGen \in Nat /\ MaxGrants \in Nat
  BY ConstantTypes
<1>2. \A n \in 1 .. MaxGen : n \in Nat
  BY <1>1
<1>3. \A g \in Grants : g \in Nat
  BY <1>1 DEF Grants
<1>4. \A x \in Credential : x.gen \in 1 .. MaxGen /\ x.grant \in Grants
  BY DEF Credential
<1>5. \A r \in Reply : r.gen \in Nat
  BY <1>1 DEF Reply
<1> QED
  BY <1>1, <1>2, <1>3, <1>4, <1>5 DEF TypeOK

\* At the start everyone has the first token of the first grant.
LEMMA InitChain == Init => CInv
<1> SUFFICES ASSUME Init PROVE Chain
  BY DEF CInv
<1>1. /\ file.grant = 1 /\ file.gen = 1 /\ mem = file /\ cliCred = file
      /\ signedIn = 1 /\ 1 <= 1 /\ gen[1] = 1 /\ \A g \in Grants : gen[g] = 1
  BY ConstantTypes DEF Init
<1>2. OnlyIssued /\ CLIKnown
  BY <1>1 DEF Init, OnlyIssued, CLIKnown
<1>3. AnswerFits /\ MemoryCurrent /\ FileCurrent
  BY <1>1 DEF Init, NoReply, AnswerFits, Pending, MemoryCurrent, FileCurrent
<1> QED
  BY <1>2, <1>3 DEF Chain

\* Requests that come and go, failures, and everything that is not a credential.
LEMMA QuietChain ==
    ASSUME IInv, Chain, ~lost',
           \/ \E c \in Callers : \/ Call(c) \/ Acquire(c) \/ RefreshFails(c)
                                 \/ ReplyLost(c) \/ ReceiveRefusal(c)
           \/ \E g \in Grants : Revoke(g)
           \/ CLIStoresExtra \/ Pass \/ UNCHANGED vars
    PROVE  Chain'
<1> USE DEF issuerVars, storeVars, callerVars, cliVars, custody, history
<1>1. TypeOK
  BY DEF IInv
<1>2. /\ UNCHANGED <<gen, signedIn, mem, running, cli, cliCred, cliUsed, unsaved>>
      /\ file'.gen = file.gen /\ file'.grant = file.grant
  BY <1>1 DEF Call, Acquire, RefreshFails, ReplyLost, ReceiveRefusal, Return, Revoke,
              CLIStoresExtra, Pass, vars, TypeOK, Credential
<1>3. \A d \in Callers : /\ Pending(d)' <=> Pending(d)
                         /\ Pending(d) => reply'[d] = reply[d]
  <2>1. CASE UNCHANGED <<pc, reply>>
    BY <2>1 DEF Pending
  <2>2. CASE \E c \in Callers : Call(c) \/ Acquire(c)
    BY <1>1, <2>2 DEF Call, Acquire, TypeOK, Pending
  <2>3. ASSUME NEW c \in Callers, RefreshFails(c) \/ ReplyLost(c) \/ ReceiveRefusal(c)
        PROVE  \A d \in Callers : /\ Pending(d)' <=> Pending(d)
                                  /\ Pending(d) => reply'[d] = reply[d]
    <3>1. ~Pending(c)
      BY <2>3 DEF RefreshFails, ReplyLost, ReceiveRefusal, Chain, AnswerFits, Pending
    <3>2. /\ pc' = [pc EXCEPT ![c] = "idle"]
          /\ reply' = [reply EXCEPT ![c] = NoReply]
      BY <2>3 DEF RefreshFails, ReplyLost, ReceiveRefusal, Return
    <3> QED
      BY <1>1, <3>1, <3>2 DEF TypeOK, Pending
  <2> QED
    BY <2>1, <2>2, <2>3 DEF Revoke, CLIStoresExtra, Pass, vars
<1>4. OnlyIssued' /\ CLIKnown' /\ FileCurrent'
  BY <1>2 DEF Chain, OnlyIssued, CLIKnown, FileCurrent, Ours
<1>5. AnswerFits' /\ MemoryCurrent'
  BY <1>2, <1>3 DEF Chain, AnswerFits, MemoryCurrent, Ours
<1> QED
  BY <1>4, <1>5 DEF Chain

\* The issuer sends the token it moves the grant to.
LEMMA AnswerChain ==
    ASSUME IInv, Chain, NEW c \in Callers, IssuerAnswers(c)
    PROVE  Chain'
<1> USE DEF issuerVars, storeVars, callerVars, cliVars, custody, history
<1>1. TypeOK /\ OnlyIssued /\ CLIKnown /\ MemoryCurrent /\ FileCurrent
  BY DEF IInv, Chain
<1>2. \A d \in Callers \ {c} : ~Pending(d) /\ ~Pending(d)'
  BY <1>1 DEF IInv, IssuerAnswers, TypeOK, Exclusive, InFlight, Pending
<1>3. /\ ~Pending(c) /\ running /\ pc'[c] = "answered"
      /\ UNCHANGED <<signedIn, mem, running, cli, cliCred, cliUsed, unsaved, file>>
  BY <1>1 DEF IInv, StoppedIsIdle, IssuerAnswers, TypeOK, Pending
<1>4. CLIKnown'
  BY <1>1, <1>3 DEF CLIKnown, Ours
<1>5. CASE ~Live(mem)
  <2>1. gen' = gen /\ reply'[c] = Refused
    BY <1>1, <1>5 DEF IssuerAnswers, TypeOK
  <2>2. ~Pending(c)'
    BY <2>1 DEF Refused, Pending
  <2>3. OnlyIssued' /\ FileCurrent'
    BY <1>1, <1>3, <2>1 DEF OnlyIssued, FileCurrent, Ours
  <2>4. AnswerFits' /\ MemoryCurrent'
    BY <1>1, <1>2, <1>3, <2>1, <2>2 DEF AnswerFits, MemoryCurrent, Ours
  <2> QED
    BY <1>4, <2>3, <2>4 DEF Chain
<1>6. CASE Live(mem)
  <2>1. PICK n \in Rotations(mem), life \in Lifetimes :
           /\ gen' = [gen EXCEPT ![mem.grant] = n]
           /\ reply' = [reply EXCEPT ![c] = [kind |-> "tokens",
                                             gen |-> IF n = mem.gen THEN 0 ELSE n,
                                             expiry |-> ExpiryOf(life)]]
    BY <1>6 DEF IssuerAnswers
  <2>2. /\ reply'[c].kind = "tokens"
        /\ reply'[c].gen = IF n = mem.gen THEN 0 ELSE n
    BY <1>1, <2>1 DEF TypeOK
  <2>3. /\ mem.grant \in Grants /\ gen[mem.grant] = mem.gen
        /\ \A g \in Grants : gen'[g] = IF g = mem.grant THEN n ELSE gen[g]
    BY <1>1, <1>6, <2>1, HolderTypes DEF Live, TypeOK
  <2>4. n = mem.gen \/ (Pending(c)' /\ reply'[c].gen = n)
    <3>1. n # 0
      BY <1>1, <2>1, HolderTypes, ConstantTypes DEF Rotations, TypeOK, Credential
    <3> QED
      BY <1>3, <2>2, <3>1 DEF Pending
  <2>5. OnlyIssued'
    <3>1. ASSUME NEW g \in Grants, g > signedIn
          PROVE  g # mem.grant
      BY <1>1, <3>1, HolderTypes DEF OnlyIssued
    <3> QED
      BY <1>1, <1>3, <2>3, <3>1 DEF OnlyIssued
  <2>6. AnswerFits'
    BY <1>2, <1>3, <2>2, <2>3, <2>4 DEF AnswerFits, Pending
  <2>7. MemoryCurrent'
    BY <1>3, <2>3, <2>4 DEF MemoryCurrent
  <2>8. FileCurrent'
    BY <1>1, <1>3, <2>3, HolderTypes DEF FileCurrent, Ours
  <2> QED
    BY <1>4, <2>5, <2>6, <2>7, <2>8 DEF Chain
<1> QED
  BY <1>5, <1>6

\* The token goes into memory, and from there into the file unless that fails.
LEMMA KeepsChain ==
    ASSUME IInv, Chain, NEW c \in Callers,
           ReceiveTokens(c) \/ Persist(c) \/ PersistFails(c)
    PROVE  Chain'
<1> USE DEF issuerVars, storeVars, callerVars, cliVars, custody, history
<1>1. TypeOK /\ OnlyIssued /\ CLIKnown /\ AnswerFits /\ MemoryCurrent /\ FileCurrent
  BY DEF IInv, Chain
<1>2. \A d \in Callers : d # c => ~Pending(d)
  BY <1>1 DEF ReceiveTokens, Persist, PersistFails, IInv, Exclusive, InFlight, Pending
<1>3. \A d \in Callers : ~Pending(d)'
  BY <1>1, <1>2 DEF ReceiveTokens, Persist, PersistFails, Return, TypeOK, Pending
<1>4. running /\ UNCHANGED <<gen, signedIn, running, cli, cliCred, cliUsed>>
  BY DEF IInv, StoppedIsIdle, ReceiveTokens, Persist, PersistFails
<1>5. CLIKnown' /\ AnswerFits'
  BY <1>1, <1>3, <1>4 DEF CLIKnown, AnswerFits, Ours
<1>6. CASE ReceiveTokens(c)
  <2>1. /\ mem'.gen = KeptGen(c) /\ mem'.grant = mem.grant /\ file' = file
        /\ unsaved' = (unsaved \/ reply[c].gen # 0) /\ pc[c] = "answered"
    BY <1>1, <1>6 DEF ReceiveTokens, TypeOK, Credential
  <2>2. MemoryCurrent'
    BY <1>1, <1>2, <1>4, <2>1 DEF MemoryCurrent, AnswerFits, KeptGen, Pending, Ours
  <2>3. OnlyIssued' /\ FileCurrent'
    BY <1>1, <1>4, <2>1 DEF OnlyIssued, FileCurrent, KeptGen, Ours
  <2> QED
    BY <1>5, <2>2, <2>3 DEF Chain
<1>7. CASE Persist(c) \/ PersistFails(c)
  <2>1. mem' = mem /\ ~Pending(c) /\ (file' = mem \/ (file' = file /\ unsaved' = unsaved))
    BY <1>7 DEF Persist, PersistFails, Pending
  <2>2. MemoryCurrent'
    BY <1>1, <1>2, <1>4, <2>1 DEF MemoryCurrent, Ours
  <2>3. OnlyIssued' /\ FileCurrent'
    BY <1>1, <1>4, <2>1 DEF OnlyIssued, FileCurrent, Ours
  <2> QED
    BY <1>5, <2>2, <2>3 DEF Chain
<1> QED
  BY <1>6, <1>7

\* A stop that drops no token leaves the current one in the file, which a start reads.
LEMMA RestartChain ==
    ASSUME IInv, Chain, ~lost', Stop \/ Start
    PROVE  Chain'
<1> USE DEF issuerVars, storeVars, callerVars, cliVars, custody, history
<1>1. /\ OnlyIssued /\ CLIKnown /\ MemoryCurrent /\ FileCurrent
      /\ \A c \in Callers : pc'[c] = "idle"
  BY DEF IInv, StoppedIsIdle, Chain, Stop, Start
<1>2. UNCHANGED <<gen, signedIn, cli, cliCred, cliUsed, file>>
  BY DEF Stop, Start
<1>3. AnswerFits' /\ CLIKnown'
  BY <1>1, <1>2 DEF AnswerFits, Pending, CLIKnown, Ours
<1>4. CASE Stop
  <2>1. running /\ ~running' /\ mem' = mem /\ ~unsaved /\ \A c \in Callers : ~Pending(c)
    BY <1>4 DEF Stop, Pending
  <2>2. OnlyIssued' /\ MemoryCurrent' /\ FileCurrent'
    BY <1>1, <1>2, <2>1 DEF OnlyIssued, MemoryCurrent, FileCurrent, Ours
  <2> QED
    BY <1>3, <2>2 DEF Chain
<1>5. CASE Start
  <2>1. ~running /\ running' /\ mem' = file
    BY <1>5 DEF Start
  <2>2. OnlyIssued' /\ MemoryCurrent' /\ FileCurrent'
    BY <1>1, <1>2, <2>1 DEF OnlyIssued, MemoryCurrent, FileCurrent, Ours
  <2> QED
    BY <1>3, <2>2 DEF Chain
<1> QED
  BY <1>4, <1>5

\* A sign-in puts the first token of a new grant into the file.
LEMMA LoginChain ==
    ASSUME IInv, Chain, Login
    PROVE  Chain'
<1> USE DEF issuerVars, storeVars, callerVars, cliVars, custody, history
<1>1. TypeOK /\ OnlyIssued /\ CLIKnown /\ AnswerFits /\ MemoryCurrent
  BY DEF IInv, Chain
<1>2. /\ signedIn < MaxGrants /\ signedIn' = signedIn + 1
      /\ file'.grant = signedIn + 1 /\ file'.gen = 1
      /\ UNCHANGED <<gen, mem, running, cli, cliCred, cliUsed, pc, reply, unsaved>>
  BY <1>1 DEF Login, TypeOK, Credential
<1>3. /\ signedIn + 1 \in Grants /\ signedIn < signedIn + 1
      /\ mem.grant <= signedIn /\ mem.grant \in Nat
      /\ cliCred.grant <= signedIn /\ cliCred.grant \in Nat
  <2>1. signedIn \in Nat /\ \A g \in Grants : g \in Nat
    BY <1>1, HolderTypes
  <2>2. signedIn \in Grants /\ mem.grant \in Grants /\ cliCred.grant \in Grants
    BY <1>1, HolderTypes
  <2>3. signedIn + 1 \in Grants
    BY <1>2, <2>1, <2>2, ConstantTypes DEF Grants
  <2>4. signedIn < signedIn + 1
    BY <2>1
  <2>5. mem.grant \in Nat /\ cliCred.grant \in Nat
    BY <2>1, <2>2
  <2> QED
    BY <1>1, <2>3, <2>4, <2>5 DEF OnlyIssued
<1>4. gen[signedIn + 1] = 1 /\ mem.grant # signedIn + 1
  BY <1>1, <1>3, HolderTypes DEF OnlyIssued
<1>5. OnlyIssued'
  <2>1. \A g \in Grants : g > signedIn + 1 => g > signedIn
    BY <1>1, HolderTypes
  <2>2. \A n \in Nat : n <= signedIn => n <= signedIn + 1
    BY <1>1, HolderTypes
  <2>3. signedIn + 1 <= signedIn + 1
    BY <1>1, HolderTypes
  <2> QED
    BY <1>1, <1>2, <1>3, <2>1, <2>2, <2>3 DEF OnlyIssued
<1>6. CLIKnown' /\ AnswerFits' /\ MemoryCurrent'
  BY <1>1, <1>2 DEF CLIKnown, AnswerFits, MemoryCurrent, Pending, Ours
<1>7. FileCurrent'
  BY <1>2, <1>4 DEF FileCurrent
<1> QED
  BY <1>5, <1>6, <1>7 DEF Chain

\* The CLI reads the file, moves a grant on, which is then no longer the gateway's
\* alone, is refused, or writes what it has.
LEMMA CLIChain ==
    ASSUME IInv, Chain, CLILoads \/ CLIRefreshes \/ CLIWrites
    PROVE  Chain'
<1> USE DEF issuerVars, storeVars, callerVars, cliVars, custody, history
<1>1. TypeOK /\ OnlyIssued /\ CLIKnown /\ AnswerFits /\ MemoryCurrent /\ FileCurrent
  BY DEF IInv, Chain
<1>2. UNCHANGED <<signedIn, mem, running, pc, reply, unsaved>>
  BY DEF CLILoads, CLIRefreshes, CLIWrites
<1>3. CASE CLILoads
  <2>1. cli' = "loaded" /\ cliCred' = file /\ UNCHANGED <<gen, cliUsed, file>>
    BY <1>3 DEF CLILoads
  <2>2. OnlyIssued' /\ CLIKnown' /\ AnswerFits' /\ MemoryCurrent' /\ FileCurrent'
    BY <1>1, <1>2, <2>1
       DEF OnlyIssued, CLIKnown, AnswerFits, MemoryCurrent, FileCurrent, Pending, Ours
  <2> QED
    BY <2>2 DEF Chain
<1>4. CASE CLIWrites
  <2>1. /\ cli = "refreshed" /\ cli' = "idle" /\ file' = cliCred
        /\ UNCHANGED <<gen, cliUsed, cliCred>>
    BY <1>4 DEF CLIWrites
  <2>2. OnlyIssued' /\ CLIKnown' /\ AnswerFits' /\ MemoryCurrent' /\ FileCurrent'
    BY <1>1, <1>2, <2>1
       DEF OnlyIssued, CLIKnown, AnswerFits, MemoryCurrent, FileCurrent, Pending, Ours
  <2> QED
    BY <2>2 DEF Chain
<1>5. CASE CLIRefreshes /\ ~Live(cliCred)
  <2>1. cli' = "idle" /\ UNCHANGED <<gen, cliUsed, cliCred, file>>
    BY <1>5 DEF CLIRefreshes
  <2>2. OnlyIssued' /\ CLIKnown' /\ AnswerFits' /\ MemoryCurrent' /\ FileCurrent'
    BY <1>1, <1>2, <2>1
       DEF OnlyIssued, CLIKnown, AnswerFits, MemoryCurrent, FileCurrent, Pending, Ours
  <2> QED
    BY <2>2 DEF Chain
<1>6. CASE CLIRefreshes /\ Live(cliCred)
  <2>1. PICK n \in Rotations(cliCred), life \in Lifetimes :
           /\ gen' = [gen EXCEPT ![cliCred.grant] = n]
           /\ cliCred' = [cliCred EXCEPT !.gen = n, !.expiry = ExpiryOf(life)]
    BY <1>6 DEF CLIRefreshes
  <2>2. cliUsed' = cliUsed \cup {cliCred.grant} /\ file' = file
    BY <1>6 DEF CLIRefreshes
  <2>3. cliCred'.grant = cliCred.grant
    BY <1>1, <2>1 DEF TypeOK, Credential
  <2>4. \A g \in Grants : g # cliCred.grant => gen'[g] = gen[g]
    BY <1>1, <2>1 DEF TypeOK
  <2>5. file.grant \in Grants /\ mem.grant \in Grants
    BY <1>1, HolderTypes
  <2>6. OnlyIssued'
    <3>1. ASSUME NEW g \in Grants, g > signedIn
          PROVE  g # cliCred.grant
      BY <1>1, <3>1, HolderTypes DEF OnlyIssued
    <3> QED
      BY <1>1, <1>2, <2>2, <2>3, <2>4, <3>1 DEF OnlyIssued
  <2>7. CLIKnown'
    BY <2>2, <2>3 DEF CLIKnown, Ours
  <2>8. AnswerFits' /\ MemoryCurrent' /\ FileCurrent'
    BY <1>1, <1>2, <2>2, <2>4, <2>5 DEF AnswerFits, MemoryCurrent, FileCurrent, Pending, Ours
  <2> QED
    BY <2>6, <2>7, <2>8 DEF Chain
<1> QED
  BY <1>3, <1>4, <1>5, <1>6

\* Every step of everyone keeps the chain, until the gateway drops a token.
LEMMA ChainStep == IInv /\ CInv /\ [Next]_vars => CInv'
<1> SUFFICES ASSUME IInv, CInv, [Next]_vars, ~lost'
             PROVE  Chain'
  BY DEF CInv
<1>1. ~lost
  BY RefreshCases DEF Next, Call, Acquire, IssuerAnswers, RefreshFails, ReplyLost,
     ReceiveRefusal, ReceiveTokens, Persist, PersistFails, Revoke, Stop, Start, Login,
     CLILoads, CLIRefreshes, CLIWrites, CLIStoresExtra, Pass, vars, history, custody
<1>2. Chain
  BY <1>1 DEF CInv
<1>3. ASSUME NEW c \in Callers, Refresh(c)
      PROVE  Chain'
  BY <1>2, <1>3, QuietChain, AnswerChain, KeepsChain, RefreshCases
<1>4. CASE Stop \/ Start \/ Login \/ CLILoads \/ CLIRefreshes \/ CLIWrites
  BY <1>2, <1>4, RestartChain, LoginChain, CLIChain
<1>5. CASE \/ \E c \in Callers : Call(c) \/ Acquire(c)
           \/ \E g \in Grants : Revoke(g)
           \/ CLIStoresExtra \/ Pass \/ UNCHANGED vars
  BY <1>2, <1>5, QuietChain
<1> QED
  BY <1>3, <1>4, <1>5 DEF Next

\* Whatever fails, stops or is restarted, and whoever else signs in or refreshes:
\* until it drops a rotated token, the store presents no refresh token that is
\* spent, unless the CLI spent it.
THEOREM NoTokenReuse == Spec => []NeverPresentsSpentToken
<1>1. IInv /\ CInv => NeverPresentsSpentToken
  <2> SUFFICES ASSUME IInv, CInv, ~lost, NEW c \in Callers, pc[c] = "refreshing",
                      Ours(mem.grant)
               PROVE  mem.gen = gen[mem.grant]
    BY DEF NeverPresentsSpentToken, Ours
  <2>1. running /\ \A d \in Callers : ~Pending(d)
    BY DEF IInv, StoppedIsIdle, Exclusive, InFlight, Pending
  <2> QED
    BY <2>1 DEF CInv, Chain, MemoryCurrent
<1> QED
  BY InitChain, ChainStep, InvariantHolds, <1>1, PTL DEF Spec

-----------------------------------------------------------------------------
(* The gateway as the only user of the file.                               *)

Alone == Faults \cap {"cli", "login"} = {}

\* There is one grant, and the CLI is not at work.
OneGrant == cli = "idle" /\ mem.grant = 1 /\ file.grant = 1

\* The file never runs ahead of memory, nor memory ahead of the issuer.
InStep == file.gen <= mem.gen /\ mem.gen <= gen[1]

\* An answer describes the issuer as it still is: no one else can have moved it.
AnswerCurrent ==
    \A c \in Callers :
        /\ Pending(c) => reply[c].gen = gen[1]
        /\ pc[c] = "answered" /\ reply[c].kind = "refused"
               => ~Live(mem) /\ reply[c].gen = 0

AInv == OneGrant /\ InStep /\ AnswerCurrent

\* The gateway starts with the file's credential, which is the current one.
LEMMA InitAlone == Init => AInv
<1> SUFFICES ASSUME Init PROVE AInv
  OBVIOUS
<1>1. 1 \in Grants /\ 1 <= 1
  BY ConstantTypes
<1>2. gen[1] = 1 /\ file.gen = 1 /\ file.grant = 1 /\ mem = file
  BY <1>1 DEF Init
<1>3. OneGrant /\ InStep
  BY <1>1, <1>2 DEF Init, OneGrant, InStep
<1>4. AnswerCurrent
  BY DEF Init, AnswerCurrent, Pending
<1> QED
  BY <1>3, <1>4 DEF AInv

\* Generations are numbers.
LEMMA GenTypes ==
    ASSUME TypeOK
    PROVE  /\ file.gen \in Nat /\ mem.gen \in Nat /\ gen[1] \in Nat
           /\ \A c \in Callers : reply[c].gen \in Nat
BY ConstantTypes DEF TypeOK, Credential, Reply

\* A call that gives up without the issuer's tokens leaves everything in its place.
LEMMA AloneGivesUp ==
    ASSUME IInv, AInv, NEW c \in Callers,
           RefreshFails(c) \/ ReplyLost(c) \/ ReceiveRefusal(c)
    PROVE  AInv'
<1> USE DEF issuerVars, storeVars, callerVars, cliVars, custody, history
<1>1. TypeOK /\ Exclusive /\ OneGrant /\ InStep /\ AnswerCurrent
  BY DEF IInv, AInv
<1>2. /\ pc' = [pc EXCEPT ![c] = "idle"]
      /\ reply' = [reply EXCEPT ![c] = NoReply]
      /\ UNCHANGED <<mem, file, gen, dead, cli, running, unsaved>>
  BY DEF RefreshFails, ReplyLost, ReceiveRefusal, Return
<1>3. \A d \in Callers \ {c} : ~InFlight(d)
  BY <1>1 DEF RefreshFails, ReplyLost, ReceiveRefusal, Exclusive, InFlight
<1>4. OneGrant' /\ InStep'
  BY <1>1, <1>2 DEF OneGrant, InStep
<1>5. \A d \in Callers : pc'[d] # "answered"
  BY <1>1, <1>2, <1>3 DEF TypeOK, InFlight
<1>6. AnswerCurrent'
  BY <1>5 DEF AnswerCurrent, Pending
<1> QED
  BY <1>4, <1>6 DEF AInv

\* The issuer moves to the generation that it sends, and refuses only what is
\* no longer live.
LEMMA AloneAnswers ==
    ASSUME IInv, AInv, NEW c \in Callers, IssuerAnswers(c)
    PROVE  AInv'
<1> USE DEF issuerVars, storeVars, callerVars, cliVars, custody, history
<1>1. TypeOK /\ Exclusive /\ OneGrant /\ InStep /\ AnswerCurrent
  BY DEF IInv, AInv
<1>2. \A d \in Callers \ {c} : ~InFlight(d) /\ pc'[d] = pc[d]
  BY <1>1 DEF IssuerAnswers, TypeOK, Exclusive, InFlight
<1>3. /\ pc'[c] = "answered" /\ ~Pending(c)
      /\ UNCHANGED <<mem, file, dead, cli, running, unsaved, lost>>
  BY <1>1 DEF IssuerAnswers, TypeOK, Pending
<1>4. 1 \in Grants
  BY ConstantTypes
<1>5. CASE Live(mem)
  <2>1. PICK n \in Rotations(mem), life \in Lifetimes :
           /\ gen' = [gen EXCEPT ![mem.grant] = n]
           /\ reply' = [reply EXCEPT ![c] = [kind |-> "tokens",
                                             gen |-> IF n = mem.gen THEN 0 ELSE n,
                                             expiry |-> ExpiryOf(life)]]
    BY <1>5 DEF IssuerAnswers
  <2>2. gen[1] = mem.gen
    BY <1>1, <1>5 DEF Live, OneGrant
  <2>3. gen'[1] = n /\ n \in Nat /\ mem.gen <= n
    BY <1>1, <1>4, <2>1, GenTypes, ConstantTypes DEF TypeOK, OneGrant, Rotations
  <2>4. reply'[c].kind = "tokens" /\ (reply'[c].gen = IF n = mem.gen THEN 0 ELSE n)
    BY <1>1, <2>1 DEF TypeOK
  <2>5. OneGrant' /\ InStep'
    BY <1>1, <1>3, <2>3 DEF OneGrant, InStep
  <2>6. AnswerCurrent'
    BY <1>2, <1>3, <2>3, <2>4 DEF AnswerCurrent, Pending, InFlight
  <2> QED
    BY <2>5, <2>6 DEF AInv
<1>6. CASE ~Live(mem)
  <2>1. gen' = gen /\ reply'[c] = Refused
    BY <1>1, <1>6 DEF IssuerAnswers, TypeOK
  <2>2. OneGrant' /\ InStep'
    BY <1>1, <1>3, <2>1 DEF OneGrant, InStep
  <2>3. reply'[c].gen = 0 /\ ~Live(mem)'
    BY <1>3, <1>6, <2>1 DEF Refused, Live
  <2>4. AnswerCurrent'
    BY <1>2, <1>3, <2>3 DEF AnswerCurrent, Pending, InFlight
  <2> QED
    BY <2>2, <2>4 DEF AInv
<1> QED
  BY <1>5, <1>6

\* The rotated token goes into memory, and from there into the file.
LEMMA AloneKeeps ==
    ASSUME IInv, AInv, NEW c \in Callers,
           ReceiveTokens(c) \/ Persist(c) \/ PersistFails(c)
    PROVE  AInv'
<1> USE DEF issuerVars, storeVars, callerVars, cliVars, custody, history
<1>1. TypeOK /\ Exclusive /\ OneGrant /\ InStep /\ AnswerCurrent
  BY DEF IInv, AInv
<1>2. \A d \in Callers \ {c} : ~InFlight(d) /\ pc'[d] = pc[d]
  BY <1>1 DEF ReceiveTokens, Persist, PersistFails, Return, TypeOK, Exclusive,
              InFlight
<1>3. pc'[c] # "answered" /\ UNCHANGED <<gen, cli, running, lost>>
  BY <1>1 DEF ReceiveTokens, Persist, PersistFails, Return, TypeOK
<1>4. AnswerCurrent'
  BY <1>2, <1>3 DEF AnswerCurrent, Pending, InFlight
<1>5. CASE ReceiveTokens(c)
  <2>1. /\ mem'.gen = KeptGen(c) /\ mem'.grant = mem.grant
        /\ file' = file /\ unsaved' = (unsaved \/ reply[c].gen # 0)
    BY <1>1, <1>5 DEF ReceiveTokens, TypeOK, Credential
  <2>2. CASE reply[c].gen # 0
    <3>1. mem'.gen = gen[1]
      BY <1>1, <1>5, <2>1, <2>2 DEF ReceiveTokens, KeptGen, AnswerCurrent, Pending
    <3>2. OneGrant' /\ InStep'
      BY <1>1, <1>3, <2>1, <3>1, GenTypes DEF OneGrant, InStep
    <3> QED
      BY <1>4, <3>2 DEF AInv
  <2>3. CASE reply[c].gen = 0
    <3>1. mem'.gen = mem.gen /\ ~Pending(c)
      BY <2>1, <2>3 DEF KeptGen, Pending
    <3>2. OneGrant' /\ InStep'
      BY <1>1, <1>3, <2>1, <3>1 DEF OneGrant, InStep
    <3> QED
      BY <1>4, <3>2 DEF AInv
  <2> QED
    BY <2>2, <2>3
<1>6. CASE Persist(c) \/ PersistFails(c)
  <2>1. mem' = mem /\ ~Pending(c)
    BY <1>6 DEF Persist, PersistFails, Pending
  <2>2. \/ file' = mem
        \/ file' = file /\ unsaved' = unsaved
    BY <1>6 DEF Persist, PersistFails
  <2>3. OneGrant' /\ InStep'
    BY <1>1, <1>3, <2>1, <2>2, GenTypes DEF OneGrant, InStep
  <2> QED
    BY <1>4, <2>3 DEF AInv
<1> QED
  BY <1>5, <1>6

\* A stop drops what only memory or the wire knew; a start reads the file.
LEMMA AloneRestarts ==
    ASSUME IInv, AInv, Stop \/ Start
    PROVE  AInv'
<1> USE DEF issuerVars, storeVars, callerVars, cliVars, custody, history
<1>1. TypeOK /\ StoppedIsIdle /\ OneGrant /\ InStep
  BY DEF IInv, AInv
<1>2. \A c \in Callers : pc'[c] = "idle"
  BY <1>1 DEF Stop, Start, StoppedIsIdle
<1>3. AnswerCurrent'
  BY <1>2 DEF AnswerCurrent, Pending
<1>4. CASE Stop
  <2>1. OneGrant' /\ InStep'
    BY <1>1, <1>4 DEF Stop, OneGrant, InStep
  <2> QED
    BY <1>3, <2>1 DEF AInv
<1>5. CASE Start
  <2>1. ~running /\ running' /\ mem' = file
    BY <1>5 DEF Start
  <2>2. UNCHANGED <<file, gen, cli, lost>>
    BY <1>5 DEF Start
  <2>3. file.gen <= file.gen /\ file.gen <= gen[1]
    BY <1>1, GenTypes DEF InStep
  <2>4. OneGrant' /\ InStep'
    BY <1>1, <2>1, <2>2, <2>3 DEF OneGrant, InStep
  <2> QED
    BY <1>3, <2>4 DEF AInv
<1> QED
  BY <1>4, <1>5

\* The steps that touch neither the store's tokens nor the issuer's generations.
LEMMA AloneElsewhere ==
    ASSUME IInv, AInv,
           \/ \E c \in Callers : Call(c) \/ Acquire(c)
           \/ \E g \in Grants : Revoke(g)
           \/ CLIStoresExtra \/ Pass \/ UNCHANGED vars
    PROVE  AInv'
<1> USE DEF issuerVars, storeVars, callerVars, cliVars, custody, history
<1>1. TypeOK /\ OneGrant /\ InStep /\ AnswerCurrent
  BY DEF IInv, AInv
<1>2. /\ UNCHANGED <<gen, mem, cli, running, reply, unsaved, lost>>
      /\ file'.gen = file.gen /\ file'.grant = file.grant
      /\ dead \subseteq dead'
  BY <1>1 DEF Call, Acquire, Revoke, CLIStoresExtra, Pass, vars, TypeOK, Credential
<1>3. \A c \in Callers : pc'[c] = "answered" <=> pc[c] = "answered"
  BY <1>1 DEF Call, Acquire, Revoke, CLIStoresExtra, Pass, vars, TypeOK
<1>4. OneGrant' /\ InStep'
  BY <1>1, <1>2 DEF OneGrant, InStep
<1>5. AnswerCurrent'
  BY <1>1, <1>2, <1>3 DEF AnswerCurrent, Pending, Live
<1> QED
  BY <1>4, <1>5 DEF AInv

\* The invariant that holds when the gateway is the only user of the file.
LEMMA AloneHolds ==
    ASSUME Alone
    PROVE  Spec => [](IInv /\ AInv)
<1>1. IInv /\ AInv /\ [Next]_vars => AInv'
  <2> SUFFICES ASSUME IInv, AInv, [Next]_vars PROVE AInv'
    OBVIOUS
  <2>1. ~Login /\ ~CLILoads /\ ~CLIRefreshes /\ ~CLIWrites
    BY DEF AInv, OneGrant, Alone, Login, CLILoads, CLIRefreshes, CLIWrites
  <2>2. ASSUME NEW c \in Callers, Refresh(c)
        PROVE  AInv'
    BY <2>2, AloneGivesUp, AloneAnswers, AloneKeeps, RefreshCases
  <2>3. CASE Stop \/ Start
    BY <2>3, AloneRestarts
  <2>4. CASE \/ \E c \in Callers : Call(c) \/ Acquire(c)
             \/ \E g \in Grants : Revoke(g)
             \/ CLIStoresExtra \/ Pass \/ UNCHANGED vars
    BY <2>4, AloneElsewhere
  <2> QED
    BY <2>1, <2>2, <2>3, <2>4 DEF Next
<1> QED
  BY InitInvariant, InvariantStep, InitAlone, <1>1, PTL DEF Spec

\* A request fails only when the credential in the file is refused for good:
\* restarting the gateway would not help, signing in does.
THEOREM RefusalMeansDead ==
    ASSUME Alone
    PROVE  Spec => RefusedOnlyIfGrantDead
<1>1. IInv /\ AInv /\ [Next]_vars
      => [\A c \in Callers :
             result'[c] = "error" /\ result[c] # "error" => ~Live(file)]_vars
  <2> SUFFICES ASSUME IInv, AInv, [Next]_vars, NEW c \in Callers,
                      result'[c] = "error", result[c] # "error"
               PROVE  ~Live(file)
    OBVIOUS
  <2>1. TypeOK /\ OneGrant /\ InStep /\ AnswerCurrent
    BY DEF IInv, AInv
  <2>2. ReceiveRefusal(c)
    <3> USE DEF issuerVars, storeVars, callerVars, cliVars, custody, history
    <3>1. PICK d \in Callers : Call(d) \/ Acquire(d) \/ Refresh(d)
      BY <2>1 DEF Next, vars, TypeOK, Revoke, Stop, Start, Login, CLILoads,
                  CLIRefreshes, CLIWrites, CLIStoresExtra, Pass
    <3>2. CASE Call(d) \/ Acquire(d) \/ IssuerAnswers(d) \/ ReceiveTokens(d)
      BY <2>1, <3>2 DEF Call, Acquire, IssuerAnswers, ReceiveTokens, TypeOK
    <3>3. CASE \/ RefreshFails(d) \/ ReplyLost(d) \/ ReceiveRefusal(d)
               \/ Persist(d) \/ PersistFails(d)
      BY <2>1, <3>3 DEF RefreshFails, ReplyLost, ReceiveRefusal, Persist,
                        PersistFails, Return, TypeOK
    <3> QED
      BY <3>1, <3>2, <3>3, RefreshCases
  <2>3. ~Live(mem)
    BY <2>1, <2>2 DEF ReceiveRefusal, AnswerCurrent
  <2> QED
    BY <2>1, <2>3, GenTypes DEF Live, OneGrant, InStep
<1> QED
  BY AloneHolds, <1>1, PTL DEF Spec, RefusedOnlyIfGrantDead

=============================================================================
