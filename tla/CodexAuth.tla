------------------------------ MODULE CodexAuth ------------------------------
(***************************************************************************)
(* The Codex credential: Store.AccessToken hands requests an access token  *)
(* and refreshes it when it is at or near expiry.                          *)
(*                                                                         *)
(*   callers       requests of the gateway, in AccessToken at once; the    *)
(*                 store's mutex is held across the refresh;               *)
(*   the file      auth.json, read when the gateway starts and written     *)
(*                 after every refresh;                                    *)
(*   the issuer    answers a refresh token that is current with a new      *)
(*                 access token and usually a new refresh token, which     *)
(*                 spends the old one; it refuses any other (external);    *)
(*   other users   the Codex CLI (external) and "ccgw codex login" write   *)
(*   of the file   the same file while the gateway runs.                   *)
(*                                                                         *)
(* A refresh token is the grant it belongs to and its generation there. An *)
(* access token is the time its exp claim names, 0 if it is unreadable.    *)
(* The unit of time is of the order of refreshLeeway: time passes while    *)
(* the issuer is working and between calls, not while a caller can run.    *)
(***************************************************************************)
EXTENDS Naturals, FiniteSets

CONSTANTS
    Callers,      \* concurrent requests
    Lifetimes,    \* how long the issuer's access tokens may live; 0: unreadable
    Leeway,       \* refreshLeeway
    Faults,       \* what may go wrong or interfere: see FaultKinds
    MaxTime,      \* bound: time
    MaxGen,       \* bound: refresh tokens per grant
    MaxGrants     \* bound: sign-ins

FaultKinds == {"transient", "lostReply", "persistFails", "restart", "crash",
               "revoked", "cli", "cliState", "login"}

Nobody == "nobody"

ASSUME ConstantsOK ==
    /\ Nobody \notin Callers
    /\ Leeway \in Nat
    /\ Lifetimes \subseteq {0} \cup {l \in Nat : l > Leeway}
    /\ Faults \subseteq FaultKinds
    /\ MaxTime \in Nat
    /\ MaxGen \in Nat \ {0}
    /\ MaxGrants \in Nat \ {0}

Grants == 1..MaxGrants

\* What auth.json holds: tokens, and what only the CLI understands (Extra).
Credential == [grant : Grants, gen : 1..MaxGen, expiry : Nat, extra : 0..1]

\* The issuer's answer; gen 0 stands for no refresh_token in it.
Reply == [kind : {"none", "tokens", "refused"}, gen : 0..MaxGen, expiry : Nat]

NoReply == [kind |-> "none", gen |-> 0, expiry |-> 0]
Refused == [kind |-> "refused", gen |-> 0, expiry |-> 0]

VARIABLES
    now,
    gen, dead, signedIn,  \* the issuer: current generation per grant, the
                          \* grants revoked, and the number of grants issued
    file,                 \* auth.json
    running, mutex,       \* the gateway; s.mu
    mem, expiry,          \* s.file and s.expiry
    pc, reply, result,    \* per caller
    cli, cliCred,         \* the Codex CLI
    cliUsed,              \* history: the grants the CLI has refreshed; how the
    waited,               \* refresh ended that a caller waited for; is a rotated
    unsaved, lost         \* token in memory only, and has one been dropped?

issuerVars == <<gen, dead, signedIn>>
storeVars  == <<running, mutex, mem, expiry>>
callerVars == <<pc, reply, result>>
cliVars    == <<cli, cliCred, cliUsed>>
custody    == <<unsaved, lost>>
history    == <<waited, custody>>
vars == <<now, issuerVars, file, storeVars, callerVars, cliVars, history>>

TypeOK ==
    /\ now \in 0..MaxTime
    /\ gen \in [Grants -> 1..MaxGen]
    /\ dead \subseteq Grants
    /\ signedIn \in Grants
    /\ file \in Credential
    /\ running \in BOOLEAN
    /\ mutex \in Callers \cup {Nobody}
    /\ mem \in Credential
    /\ expiry \in Nat
    /\ pc \in [Callers -> {"idle", "locking", "refreshing", "answered", "persisting"}]
    /\ reply \in [Callers -> Reply]
    /\ result \in [Callers -> {"none", "token", "error"}]
    /\ cli \in {"idle", "loaded", "refreshed"}
    /\ cliCred \in Credential
    /\ cliUsed \subseteq Grants
    /\ waited \in [Callers -> {"nothing", "success", "failure"}]
    /\ unsaved \in BOOLEAN
    /\ lost \in BOOLEAN

Init ==
    /\ now = 0
    /\ gen = [g \in Grants |-> 1]
    /\ dead = {}
    /\ signedIn = 1
    /\ file \in {[grant |-> 1, gen |-> 1, expiry |-> e, extra |-> 0] :
                     e \in {0, Leeway}}
    /\ running = TRUE
    /\ mutex = Nobody
    /\ mem = file
    /\ expiry = file.expiry
    /\ pc = [c \in Callers |-> "idle"]
    /\ reply = [c \in Callers |-> NoReply]
    /\ result = [c \in Callers |-> "none"]
    /\ cli = "idle"
    /\ cliCred = file
    /\ cliUsed = {}
    /\ waited = [c \in Callers |-> "nothing"]
    /\ unsaved = FALSE
    /\ lost = FALSE

-----------------------------------------------------------------------------
(* The issuer                                                              *)

\* Would the issuer take this credential's refresh token?
Live(cred) == cred.grant \notin dead /\ cred.gen = gen[cred.grant]

\* The generations a refresh of a live credential may leave its grant at: the
\* answer's refresh_token is optional.
Rotations(cred) == {n \in cred.gen..MaxGen : n <= cred.gen + 1}

ExpiryOf(life) == IF life = 0 THEN 0 ELSE now + life

\* The issuer takes the caller's request.
IssuerAnswers(c) ==
    /\ pc[c] = "refreshing"
    /\ pc' = [pc EXCEPT ![c] = "answered"]
    /\ \/ /\ Live(mem)
          /\ \E n \in Rotations(mem), life \in Lifetimes :
                /\ gen' = [gen EXCEPT ![mem.grant] = n]
                /\ reply' = [reply EXCEPT ![c] = [kind |-> "tokens",
                                                  gen |-> IF n = mem.gen THEN 0 ELSE n,
                                                  expiry |-> ExpiryOf(life)]]
       \/ /\ ~Live(mem)
          /\ reply' = [reply EXCEPT ![c] = Refused]
          /\ UNCHANGED gen
    /\ UNCHANGED <<now, dead, signedIn, file, storeVars, result, cliVars, history>>

\* The grant dies: the user signs out, or the issuer withdraws it.
Revoke(g) ==
    /\ "revoked" \in Faults
    /\ g <= signedIn
    /\ dead' = dead \cup {g}
    /\ UNCHANGED <<now, gen, signedIn, file, storeVars, callerVars, cliVars, history>>

-----------------------------------------------------------------------------
(* AccessToken                                                             *)

\* Mutant: a token is used up to its very expiry.
NeedsRefresh_NoLeeway == expiry # 0 /\ now > expiry

\* needsRefresh: a token whose expiry could not be read is assumed good.
NeedsRefresh == expiry # 0 /\ now + Leeway > expiry

\* A request arrives.
Call(c) ==
    /\ running
    /\ pc[c] = "idle"
    /\ pc' = [pc EXCEPT ![c] = "locking"]
    /\ result' = [result EXCEPT ![c] = "none"]
    /\ waited' = [waited EXCEPT ![c] = "nothing"]
    /\ UNCHANGED <<now, issuerVars, file, storeVars, reply, cliVars, custody>>

\* Mutant: the mutex is not held across the refresh.
Acquire_NotHeld(c) ==
    /\ pc[c] = "locking"
    /\ mutex = Nobody
    /\ IF NeedsRefresh
       THEN /\ pc' = [pc EXCEPT ![c] = "refreshing"]
            /\ UNCHANGED result
       ELSE /\ pc' = [pc EXCEPT ![c] = "idle"]
            /\ result' = [result EXCEPT ![c] = "token"]
    /\ UNCHANGED <<now, issuerVars, file, storeVars, reply, cliVars, history>>

\* s.mu.Lock(), the test of the expiry, and the request to the issuer or the
\* return of the token at hand.
Acquire(c) ==
    /\ pc[c] = "locking"
    /\ mutex = Nobody
    /\ IF NeedsRefresh
       THEN /\ pc' = [pc EXCEPT ![c] = "refreshing"]
            /\ mutex' = c
            /\ UNCHANGED result
       ELSE /\ pc' = [pc EXCEPT ![c] = "idle"]
            /\ result' = [result EXCEPT ![c] = "token"]
            /\ UNCHANGED mutex
    /\ UNCHANGED <<now, issuerVars, file, running, mem, expiry, reply, cliVars,
                   history>>

\* AccessToken returns and its deferred Unlock runs.
Return(c, r, outcome) ==
    /\ pc' = [pc EXCEPT ![c] = "idle"]
    /\ mutex' = Nobody
    /\ result' = [result EXCEPT ![c] = r]
    /\ reply' = [reply EXCEPT ![c] = NoReply]
    /\ waited' = [d \in Callers |-> IF pc[d] = "locking" THEN outcome ELSE waited[d]]

\* Mutant: a transient failure fails the request.
RefreshFails_Surfaces(c) ==
    /\ "transient" \in Faults
    /\ pc[c] = "refreshing"
    /\ Return(c, "error", "failure")
    /\ UNCHANGED <<now, issuerVars, file, running, mem, expiry, cliVars, custody>>

\* The request does not reach the issuer, or a 5xx comes back: transient, and
\* the caller is given the token at hand.
RefreshFails(c) ==
    /\ "transient" \in Faults
    /\ pc[c] = "refreshing"
    /\ Return(c, "token", "failure")
    /\ UNCHANGED <<now, issuerVars, file, running, mem, expiry, cliVars, custody>>

\* The issuer has answered but the answer is not received: the connection
\* breaks, the body does not decode, or the request's client hangs up, which
\* cancels the context the refresh runs under.
ReplyLost(c) ==
    /\ "lostReply" \in Faults
    /\ pc[c] = "answered"
    /\ Return(c, "token", "failure")
    /\ lost' = (lost \/ reply[c].gen # 0)
    /\ UNCHANGED <<now, issuerVars, file, running, mem, expiry, cliVars, unsaved>>

\* Mutant: the early return of an error leaves the mutex locked.
ReceiveRefusal_KeepsLock(c) ==
    /\ pc[c] = "answered"
    /\ reply[c].kind = "refused"
    /\ pc' = [pc EXCEPT ![c] = "idle"]
    /\ result' = [result EXCEPT ![c] = "error"]
    /\ reply' = [reply EXCEPT ![c] = NoReply]
    /\ UNCHANGED <<now, issuerVars, file, storeVars, cliVars, history>>

\* A permanent failure.
ReceiveRefusal(c) ==
    /\ pc[c] = "answered"
    /\ reply[c].kind = "refused"
    /\ Return(c, "error", "failure")
    /\ UNCHANGED <<now, issuerVars, file, running, mem, expiry, cliVars, custody>>

KeptGen(c) == IF reply[c].gen # 0 THEN reply[c].gen ELSE mem.gen

\* Mutant: the rotated refresh token is not kept.
ReceiveTokens_KeepsOldRefreshToken(c) ==
    /\ pc[c] = "answered"
    /\ reply[c].kind = "tokens"
    /\ mem' = [mem EXCEPT !.expiry = reply[c].expiry]
    /\ expiry' = reply[c].expiry
    /\ pc' = [pc EXCEPT ![c] = "persisting"]
    /\ unsaved' = (unsaved \/ reply[c].gen # 0)
    /\ UNCHANGED <<now, issuerVars, file, running, mutex, reply, result, cliVars,
                   waited, lost>>

\* Mutant: the cached expiry is not updated with the token.
ReceiveTokens_StaleExpiry(c) ==
    /\ pc[c] = "answered"
    /\ reply[c].kind = "tokens"
    /\ mem' = [mem EXCEPT !.gen = KeptGen(c), !.expiry = reply[c].expiry]
    /\ pc' = [pc EXCEPT ![c] = "persisting"]
    /\ unsaved' = (unsaved \/ reply[c].gen # 0)
    /\ UNCHANGED <<now, issuerVars, file, running, mutex, expiry, reply, result,
                   cliVars, waited, lost>>

\* applyTokens: only what the issuer returned is replaced.
ReceiveTokens(c) ==
    /\ pc[c] = "answered"
    /\ reply[c].kind = "tokens"
    /\ mem' = [mem EXCEPT !.gen = KeptGen(c), !.expiry = reply[c].expiry]
    /\ expiry' = reply[c].expiry
    /\ pc' = [pc EXCEPT ![c] = "persisting"]
    /\ unsaved' = (unsaved \/ reply[c].gen # 0)
    /\ UNCHANGED <<now, issuerVars, file, running, mutex, reply, result, cliVars,
                   waited, lost>>

\* Mutant: only the access token is written back.
Persist_AccessTokenOnly(c) ==
    /\ pc[c] = "persisting"
    /\ file' = [file EXCEPT !.expiry = mem.expiry]
    /\ Return(c, "token", "success")
    /\ unsaved' = FALSE
    /\ UNCHANGED <<now, issuerVars, running, mem, expiry, cliVars, lost>>

\* persist: what is in memory replaces the file, in one rename.
Persist(c) ==
    /\ pc[c] = "persisting"
    /\ file' = mem
    /\ Return(c, "token", "success")
    /\ unsaved' = FALSE
    /\ UNCHANGED <<now, issuerVars, running, mem, expiry, cliVars, lost>>

\* A credential that cannot be written back is still used.
PersistFails(c) ==
    /\ "persistFails" \in Faults
    /\ pc[c] = "persisting"
    /\ Return(c, "token", "success")
    /\ UNCHANGED <<now, issuerVars, file, running, mem, expiry, cliVars, custody>>

-----------------------------------------------------------------------------
(* The gateway stops and starts.                                           *)

\* A stop with no request in flight, or a crash at any time. What only memory
\* or the wire knew is gone.
Stop ==
    /\ running
    /\ \/ "crash" \in Faults
       \/ "restart" \in Faults /\ \A c \in Callers : pc[c] = "idle"
    /\ running' = FALSE
    /\ mutex' = Nobody
    /\ pc' = [c \in Callers |-> "idle"]
    /\ reply' = [c \in Callers |-> NoReply]
    /\ result' = [c \in Callers |-> "none"]
    /\ waited' = [c \in Callers |-> "nothing"]
    /\ unsaved' = FALSE
    /\ lost' = (lost \/ unsaved \/ \E c \in Callers : reply[c].gen # 0)
    /\ UNCHANGED <<now, issuerVars, file, mem, expiry, cliVars>>

\* NewStore
Start ==
    /\ ~running
    /\ running' = TRUE
    /\ mem' = file
    /\ expiry' = file.expiry
    /\ UNCHANGED <<now, issuerVars, file, mutex, callerVars, cliVars, history>>

-----------------------------------------------------------------------------
(* The other users of the file.                                            *)

\* "ccgw codex login": exchangeCode, then persistLogin, which merges the new
\* tokens into the file as it finds it.
Login ==
    /\ "login" \in Faults
    /\ signedIn < MaxGrants
    /\ signedIn' = signedIn + 1
    /\ \E life \in Lifetimes :
          file' = [file EXCEPT !.grant = signedIn + 1, !.gen = 1,
                               !.expiry = ExpiryOf(life)]
    /\ UNCHANGED <<now, gen, dead, storeVars, callerVars, cliVars, history>>

CLILoads ==
    /\ "cli" \in Faults
    /\ cli = "idle"
    /\ cli' = "loaded"
    /\ cliCred' = file
    /\ UNCHANGED <<now, issuerVars, file, storeVars, callerVars, cliUsed, history>>

\* The CLI refreshes; refused, it gives up.
CLIRefreshes ==
    /\ cli = "loaded"
    /\ \/ /\ Live(cliCred)
          /\ \E n \in Rotations(cliCred), life \in Lifetimes :
                /\ gen' = [gen EXCEPT ![cliCred.grant] = n]
                /\ cliCred' = [cliCred EXCEPT !.gen = n, !.expiry = ExpiryOf(life)]
          /\ cli' = "refreshed"
          /\ cliUsed' = cliUsed \cup {cliCred.grant}
       \/ /\ ~Live(cliCred)
          /\ cli' = "idle"
          /\ UNCHANGED <<gen, cliCred, cliUsed>>
    /\ UNCHANGED <<now, dead, signedIn, file, storeVars, callerVars, history>>

CLIWrites ==
    /\ cli = "refreshed"
    /\ cli' = "idle"
    /\ file' = cliCred
    /\ UNCHANGED <<now, issuerVars, storeVars, callerVars, cliCred, cliUsed, history>>

\* The CLI stores something of its own.
CLIStoresExtra ==
    /\ "cliState" \in Faults
    /\ cli = "idle"
    /\ file.extra = 0
    /\ file' = [file EXCEPT !.extra = 1]
    /\ UNCHANGED <<now, issuerVars, storeVars, callerVars, cliVars, history>>

-----------------------------------------------------------------------------
Runnable ==
    \E c \in Callers : \/ pc[c] = "locking" /\ mutex = Nobody
                       \/ pc[c] \in {"answered", "persisting"}

Pass ==
    /\ now < MaxTime
    /\ ~Runnable
    /\ now' = now + 1
    /\ UNCHANGED <<issuerVars, file, storeVars, callerVars, cliVars, history>>

\* What a call of AccessToken does while it holds the mutex: it waits for the
\* issuer's answer, receives it, and writes the file.
EndsWaiting(c)   == IssuerAnswers(c) \/ RefreshFails(c)
EndsReceiving(c) == ReceiveRefusal(c) \/ ReceiveTokens(c) \/ ReplyLost(c)
EndsWriting(c)   == Persist(c) \/ PersistFails(c)

Refresh(c) == EndsWaiting(c) \/ EndsReceiving(c) \/ EndsWriting(c)

Next ==
    \/ \E c \in Callers : Call(c) \/ Acquire(c) \/ Refresh(c)
    \/ \E g \in Grants : Revoke(g)
    \/ Stop
    \/ Start
    \/ Login
    \/ CLILoads
    \/ CLIRefreshes
    \/ CLIWrites
    \/ CLIStoresExtra
    \/ Pass

Spec == Init /\ [][Next]_vars

\* The wait for the issuer's headers ends, if only by the transport's timeout. The
\* code bounds the body in no way, and holds the mutex meanwhile: that it ends is
\* left to the issuer or to the client, whose request carries the refresh and who
\* gives up when it has had no headers for API_TIMEOUT_MS. Go's mutex starves no
\* one. Nothing obliges requests to arrive or the gateway to be restarted.
FairSpec ==
    /\ Spec
    /\ \A c \in Callers : /\ WF_vars(EndsWaiting(c))
                          /\ WF_vars(EndsReceiving(c))
                          /\ WF_vars(EndsWriting(c))
                          /\ SF_vars(Acquire(c))

-----------------------------------------------------------------------------
(* Properties                                                              *)

InFlight(c) == pc[c] \in {"refreshing", "answered", "persisting"}

\* One refresh at a time, whatever the burst of requests (Store: "one refresh
\* happens at a time").
OneRefreshAtATime ==
    \A c, d \in Callers : InFlight(c) /\ InFlight(d) => c = d

\* The gateway never presents a refresh token that it has spent itself, across
\* refreshes, failures, restarts and sign-ins, as long as no rotated token was
\* dropped on its way to the file (the issuer "would treat [it] as token reuse").
\* Only the CLI's refreshes of the same grant can put it behind.
NeverPresentsSpentToken ==
    ~lost => \A c \in Callers :
                pc[c] = "refreshing" =>
                   mem.gen = gen[mem.grant] \/ mem.grant \in cliUsed

\* A caller is told to sign in again only when the stored grant is dead
\* (RefreshError: a permanent failure "means the stored grant is dead").
RefusedOnlyIfGrantDead ==
    [][\A c \in Callers :
          result'[c] = "error" /\ result[c] # "error" => ~Live(file)]_vars

\* A token handed out while the issuer answers outlives the leeway, counted from
\* its own exp claim (refreshLeeway: "so a long streaming turn does not begin on
\* a credential that dies mid-flight").
HandedOutFresh ==
    [][\A c \in Callers :
          /\ result'[c] = "token" /\ result[c] # "token"
          /\ ~(pc[c] \in {"refreshing", "answered"})
          => mem.expiry = 0 \/ mem.expiry >= now + Leeway]_vars

StartsRefresh(c) == pc[c] = "locking" /\ pc'[c] = "refreshing"

\* Callers that waited for a refresh which succeeded use its token rather than
\* starting their own.
SuccessIsShared ==
    [][\A c \in Callers : waited[c] = "success" => ~StartsRefresh(c)]_vars

\* A refresh leaves alone what it did not make: the sign-in that is in the file and
\* what else others store there (persist: "preserving fields this gateway does not
\* model so that a shared ~/.codex/auth.json keeps working for the Codex CLI").
OthersKept ==
    [][\A c \in Callers :
          pc[c] = "persisting" /\ running' /\ pc'[c] # "persisting" =>
             file'.grant = file.grant /\ file'.extra = file.extra]_vars

\* Every request gets its token or its error, however many are ahead of it and
\* whatever becomes of their refreshes.
EveryCallReturns == \A c \in Callers : pc[c] = "locking" ~> pc[c] = "idle"

=============================================================================
