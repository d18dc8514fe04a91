-------------------------------- MODULE Login --------------------------------
(***************************************************************************)
(* `ccgw codex login`, several at once and alongside other programs: the   *)
(* listener on one of the two ports the issuer allows, the callbacks that  *)
(* browser tabs send to it, the channel the callback handlers share with   *)
(* waitForCode, the exchange of the code and the write of the credential.  *)
(*                                                                         *)
(* A sign-in's state and verifier are the sign-in itself: a callback has   *)
(* the state of the tab's sign-in, and the issuer takes a code only with   *)
(* the verifier of the sign-in it was issued for.                          *)
(***************************************************************************)
EXTENDS Integers

CONSTANTS
    Logins,          \* the sign-ins
    MaxCallbacks     \* bound on the callbacks of all tabs, reloads included

ASSUME LoginAssumption == MaxCallbacks \in Nat /\ 0 \notin Logins

VARIABLES
    busy,            \* the ports other programs hold
    stage,           \* per sign-in: where it is
    port,            \* the port it listens on, or 0
    tab,             \* the port in its authorize URL, once the tab is open
    sent,            \* callbacks sent so far, for MaxCallbacks
    handlers,        \* its handlers that have yet to send, by their outcome
    done,            \* the channel, of capacity 1
    outcome,         \* what waitForCode returned
    expired,         \* is its context over: five minutes, or Ctrl-C?
    graceOver,       \* have the two seconds of Shutdown passed?
    file             \* whose tokens the credential file has

browser == <<tab, sent>>
clocks  == <<expired, graceOver>>
vars == <<busy, stage, port, browser, handlers, done, outcome, clocks, file>>

LoopbackPort == 1455
FallbackPort == 1457
Ports == {LoopbackPort, FallbackPort}

\* No port, nothing in the channel, nobody's tokens; and the outcome of a
\* callback that carries an error, a foreign state or no code.
Nothing == 0
Failure == -1

Outcomes == Logins \cup {Failure}

Stages == {"idle", "waiting", "stopping", "exchanging", "writing", "done", "failed"}

Init ==
    /\ busy \in SUBSET Ports
    /\ stage = [l \in Logins |-> "idle"]
    /\ port = [l \in Logins |-> Nothing]
    /\ tab = [l \in Logins |-> Nothing]
    /\ sent = 0
    /\ handlers = [l \in Logins |-> [o \in Outcomes |-> 0]]
    /\ done = [l \in Logins |-> Nothing]
    /\ outcome = [l \in Logins |-> Nothing]
    /\ expired = [l \in Logins |-> FALSE]
    /\ graceOver = [l \in Logins |-> FALSE]
    /\ file = Nothing

At(l, s, t) == stage[l] = s /\ stage' = [stage EXCEPT ![l] = t]

-----------------------------------------------------------------------------
(* The listener                                                            *)

Free == Ports \ (busy \cup {port[l] : l \in Logins})

\* listen: the first port, else the second, else the sign-in fails.
Start(l) ==
    /\ IF Free = {} THEN At(l, "idle", "failed") /\ UNCHANGED <<port, tab>>
       ELSE LET p == IF LoopbackPort \in Free THEN LoopbackPort ELSE FallbackPort
            IN  /\ At(l, "idle", "waiting")
                /\ port' = [port EXCEPT ![l] = p]
                /\ tab' = [tab EXCEPT ![l] = p]
    /\ UNCHANGED <<busy, sent, handlers, done, outcome, clocks, file>>

\* Mutant: the state of a callback is not compared.
Outcome_AnyState(m, l, kind) == IF kind = "code" THEN l ELSE Failure

\* What the handler of sign-in m makes of a callback from the tab of l.
Outcome(m, l, kind) == IF kind = "code" /\ l = m THEN m ELSE Failure

\* A tab is redirected, or reloaded: whoever listens on its port by now has it.
Callback(l, m, kind) ==
    /\ tab[l] # Nothing /\ port[m] = tab[l] /\ sent < MaxCallbacks
    /\ sent' = sent + 1
    /\ handlers' = [handlers EXCEPT ![m][Outcome(m, l, kind)] = @ + 1]
    /\ UNCHANGED <<busy, stage, port, tab, done, outcome, clocks, file>>

\* A handler blocks while the channel holds another's outcome.
Send(m, o) ==
    /\ stage[m] \in {"waiting", "stopping"}
    /\ handlers[m][o] > 0 /\ done[m] = Nothing
    /\ handlers' = [handlers EXCEPT ![m][o] = @ - 1]
    /\ done' = [done EXCEPT ![m] = o]
    /\ UNCHANGED <<busy, stage, port, browser, outcome, clocks, file>>

-----------------------------------------------------------------------------
(* waitForCode, exchangeCode, persistLogin                                 *)

\* Mutant: the listener stays open until Login returns.
Stop_KeepsListening(m, o) ==
    /\ At(m, "waiting", "stopping")
    /\ outcome' = [outcome EXCEPT ![m] = o]
    /\ UNCHANGED port

\* The select takes an outcome, or the end of the context when both are there;
\* either way the deferred Shutdown closes the listener first.
Stop(m, o) ==
    /\ At(m, "waiting", "stopping")
    /\ port' = [port EXCEPT ![m] = Nothing]
    /\ outcome' = [outcome EXCEPT ![m] = o]

ReceiveOutcome(m) ==
    /\ done[m] # Nothing /\ Stop(m, done[m])
    /\ done' = [done EXCEPT ![m] = Nothing]
    /\ UNCHANGED <<busy, browser, handlers, clocks, file>>

ContextDone(m) ==
    /\ expired[m] /\ Stop(m, Failure)
    /\ UNCHANGED <<busy, browser, handlers, done, clocks, file>>

HandlersDone(m) == \A o \in Outcomes : handlers[m][o] = 0

\* Mutant: Shutdown gets a context without a deadline.
ShutdownReturns_WhenIdle(m) ==
    /\ HandlersDone(m)
    /\ At(m, "stopping", IF outcome[m] = Failure THEN "failed" ELSE "exchanging")
    /\ UNCHANGED <<busy, port, browser, handlers, done, outcome, clocks, file>>

ShutdownReturns(m) ==
    /\ HandlersDone(m) \/ graceOver[m]
    /\ At(m, "stopping", IF outcome[m] = Failure THEN "failed" ELSE "exchanging")
    /\ UNCHANGED <<busy, port, browser, handlers, done, outcome, clocks, file>>

\* The issuer takes the code of this sign-in's verifier.
Exchange(m) ==
    /\ outcome[m] = m /\ At(m, "exchanging", "writing")
    /\ UNCHANGED <<busy, port, browser, handlers, done, outcome, clocks, file>>

\* It refuses, does not answer before the context ends, or sends no tokens.
ExchangeFails(m) ==
    /\ At(m, "exchanging", "failed")
    /\ UNCHANGED <<busy, port, browser, handlers, done, outcome, clocks, file>>

Persist(m) ==
    /\ At(m, "writing", "done")
    /\ file' = m
    /\ UNCHANGED <<busy, port, browser, handlers, done, outcome, clocks>>

PersistFails(m) ==
    /\ At(m, "writing", "failed")
    /\ UNCHANGED <<busy, port, browser, handlers, done, outcome, clocks, file>>

-----------------------------------------------------------------------------
(* Time                                                                    *)

Expire(m) ==
    /\ stage[m] \in {"waiting", "stopping", "exchanging"} /\ ~expired[m]
    /\ expired' = [expired EXCEPT ![m] = TRUE]
    /\ UNCHANGED <<busy, stage, port, browser, handlers, done, outcome, graceOver, file>>

GraceEnds(m) ==
    /\ stage[m] = "stopping" /\ ~graceOver[m]
    /\ graceOver' = [graceOver EXCEPT ![m] = TRUE]
    /\ UNCHANGED <<busy, stage, port, browser, handlers, done, outcome, expired, file>>

\* What sign-in m does by itself: the issuer's answer is not among it.
Step(m) ==
    \/ \E o \in Outcomes : Send(m, o)
    \/ ReceiveOutcome(m) \/ ContextDone(m) \/ ShutdownReturns(m)
    \/ Persist(m) \/ PersistFails(m)

Next ==
    \/ \E l, m \in Logins, kind \in {"code", "error", "no code"} : Callback(l, m, kind)
    \/ \E m \in Logins : Start(m) \/ Step(m) \/ Exchange(m)
                         \/ ExchangeFails(m) \/ Expire(m) \/ GraceEnds(m)

\* Goroutines run and clocks tick; a request whose context is over returns.
\* Nobody has to complete the sign-in in the browser, nor the issuer to answer.
Fairness ==
    \A m \in Logins :
        /\ WF_vars(Step(m))
        /\ WF_vars(Expire(m)) /\ WF_vars(GraceEnds(m))
        /\ WF_vars(expired[m] /\ ExchangeFails(m))

Spec == Init /\ [][Next]_vars /\ Fairness

-----------------------------------------------------------------------------
(* Properties                                                              *)

\* A sign-in listens exactly while it waits, never on a port someone else has,
\* and its channel holds one outcome (listen, waitForCode).
TypeOK ==
    /\ busy \subseteq Ports
    /\ stage \in [Logins -> Stages]
    /\ port \in [Logins -> Ports \cup {Nothing}]
    /\ tab \in [Logins -> Ports \cup {Nothing}]
    /\ sent \in 0 .. MaxCallbacks
    /\ handlers \in [Logins -> [Outcomes -> Nat]]
    /\ done \in [Logins -> Outcomes \cup {Nothing}]
    /\ outcome \in [Logins -> Outcomes \cup {Nothing}]
    /\ expired \in [Logins -> BOOLEAN] /\ graceOver \in [Logins -> BOOLEAN]
    /\ file \in Logins \cup {Nothing}
    /\ \A l \in Logins : /\ port[l] # Nothing <=> stage[l] = "waiting"
                         /\ port[l] \notin busy
                         /\ \A m \in Logins : port[l] = port[m] /\ l # m => port[l] = Nothing

\* A sign-in only ever exchanges a code that was issued to it, and the file only
\* gets the tokens of a sign-in that says so, whatever callbacks reach its port:
\* repeated ones, those of a sign-in that had the port before, or strays
\* (login.go:142-147, "what stops another page from feeding us a code").
OwnCodeOnly ==
    \A l \in Logins :
        /\ stage[l] \in {"exchanging", "writing", "done"} => outcome[l] = l
        /\ file = l => stage[l] = "done"

\* A sign-in always ends, within its timeouts, though handlers may hang on the
\* full channel for ever (login.go:156-163, main.go:764-768).
LoginEnds == \A l \in Logins : stage[l] = "waiting" ~> stage[l] \in {"done", "failed"}

=============================================================================
