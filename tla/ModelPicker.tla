----------------------------- MODULE ModelPicker -----------------------------
(***************************************************************************)
(* How the models of the config get into Claude Code's /model picker, and  *)
(* the life of the gateway that serves them: `ccgw serve` and `ccgw        *)
(* sync-picker` write the discovery cache or, with assume_first_party, a   *)
(* settings file; `ccgw env` sets up the shell; `ccgw models` reports      *)
(* drift; Claude Code reads whichever file its shell points it to when it  *)
(* starts; the user edits the config at any time.                          *)
(***************************************************************************)
EXTENDS Router

CONSTANTS
    Configs,       \* what the user may have in the config file
    MaxModels,     \* the entries Claude Code keeps of the cache
    MaxEdits,      \* bound on the edits of the config
    MaxStreams,    \* bound on the requests in flight
    Deadline       \* how long Shutdown waits: 5 s

ASSUME ModelPickerAssumption ==
    /\ Configs \subseteq Config
    /\ \A c \in Configs : Valid(c)
    /\ MaxModels \in Nat /\ MaxEdits \in Nat /\ MaxStreams \in Nat
    /\ Deadline \in Nat \ {0}

VARIABLES
    config, edits,       \* the config file; the edits made so far
    cache, settings,     \* the two files with rows
    stage, plan,         \* per process: where it is, and the config it read
    streams, drained,    \* the gateway: requests in flight, time spent draining
    env,                 \* the variables and the alias of the shell
    claude,              \* the running Claude Code: the file and the environment
                         \* it started with
    silent               \* did `ccgw models` find no drift, and has nothing
                         \* changed since?

files   == <<cache, settings>>
gateway == <<streams, drained>>
vars    == <<config, edits, files, stage, plan, gateway, env, claude, silent>>

Processes == {"serve", "sync"}

\* A file with rows: the base URL of the gateway, the rows, and the config they
\* were made from (a set of one; empty for no file).
Absent == [base |-> "", rows |-> <<>>, from |-> {}]

baseURL(c) == c.listen

Truncated(rows) == SubSeq(rows, 1, IF Len(rows) > MaxModels THEN MaxModels ELSE Len(rows))

\* Sync cuts the list to what Claude Code keeps, SyncSettings does not.
CacheOf(c)    == [base |-> baseURL(c), rows |-> Truncated(Catalogue(c)), from |-> {c}]
SettingsOf(c) == [base |-> "", rows |-> Catalogue(c), from |-> {c}]

NoShell == [base |-> "", discovery |-> FALSE, firstParty |-> FALSE, alias |-> FALSE,
            maxContext |-> 0, autoCompact |-> 0, from |-> {}]

Init ==
    /\ config \in Configs /\ edits = 0
    /\ cache = Absent /\ settings = Absent
    /\ stage = [p \in Processes |-> "down"]
    /\ plan = [p \in Processes |-> config]
    /\ streams = 0 /\ drained = 0
    /\ env = NoShell
    /\ claude = [file |-> Absent, env |-> NoShell]
    /\ silent = FALSE

-----------------------------------------------------------------------------
(* The user                                                                *)

EditConfig(c) ==
    /\ edits < MaxEdits /\ c # config
    /\ config' = c /\ edits' = edits + 1
    /\ silent' = FALSE
    /\ UNCHANGED <<files, stage, plan, gateway, env, claude>>

\* eval "$(ccgw env)". What the output does not name stays as the shell has it:
\* fidelity mode does not unset the first-party flag or the alias, and only one
\* of the two window variables is ever set.
EvalEnv ==
    LET d == WindowDirective(config)
    IN  /\ env' = [base        |-> baseURL(config),
                   discovery   |-> ~config.firstParty,
                   firstParty  |-> config.firstParty \/ env.firstParty,
                   alias       |-> env.alias \/ (config.firstParty /\ config.models # <<>>),
                   maxContext  |-> IF Declaring(config) # {} /\ d.name = MaxContextTokens
                                   THEN d.value ELSE env.maxContext,
                   autoCompact |-> IF Declaring(config) # {} /\ d.name = AutoCompactWindow
                                   THEN d.value ELSE env.autoCompact,
                   from        |-> {config}]
        /\ UNCHANGED <<config, edits, files, stage, plan, gateway, claude, silent>>

\* Claude Code starts: the settings file if the alias passes it, the cache if
\* discovery is on and the file is for this base URL.
PickerFile ==
    IF env.alias THEN settings
    ELSE IF env.discovery /\ ~env.firstParty /\ cache.base = env.base THEN cache
    ELSE Absent

StartClaude ==
    /\ claude' = [file |-> PickerFile, env |-> env]
    /\ UNCHANGED <<config, edits, files, stage, plan, gateway, env, silent>>

\* Mutant: the cache is judged by its length, as the settings are.
sameModelIDs_LengthOnly(a, b) == Len(a) = Len(b)

sameModelIDs(a, b) == a = b

\* reportPickerDrift. The settings file is judged by its length alone.
FindsNoDrift ==
    IF config.firstParty
    THEN settings # Absent /\ Len(settings.rows) = Len(config.models)
    ELSE IF cache = Absent THEN config.models = <<>>
    ELSE cache.base = baseURL(config) /\ sameModelIDs(cache.rows, Catalogue(config))

ReportDrift ==
    /\ silent' = FindsNoDrift
    /\ UNCHANGED <<config, edits, files, stage, plan, gateway, env, claude>>

-----------------------------------------------------------------------------
(* Writing the files: serve and sync-picker                                *)

At(p, s, t) == stage[p] = s /\ stage' = [stage EXCEPT ![p] = t]

\* What follows the files: serve listens, sync-picker is done.
After(p) == IF p = "serve" THEN "starting" ELSE "down"

\* The config is read once. -no-picker-sync leaves the files alone.
Load(p) ==
    /\ \/ At(p, "down", "loaded")
       \/ p = "serve" /\ At(p, "down", "starting")
    /\ plan' = [plan EXCEPT ![p] = config]
    /\ UNCHANGED <<config, edits, files, gateway, env, claude, silent>>

\* server.New fails (no credential) before anything is advertised, and so may
\* writeAtomic, which serve only warns of.
Fail(p) ==
    /\ \/ At(p, "loaded", "down")
       \/ At(p, "writing", After(p))
    /\ UNCHANGED <<config, edits, files, plan, gateway, env, claude, silent>>

Holds(p) == IF plan[p].firstParty THEN settings.rows = SettingsOf(plan[p]).rows /\ settings # Absent
            ELSE cache.base = baseURL(plan[p]) /\ cache.rows = CacheOf(plan[p]).rows

\* The file is compared first and left alone if it has these rows already.
Compare(p) ==
    /\ IF Holds(p) THEN At(p, "loaded", After(p)) ELSE At(p, "loaded", "writing")
    /\ UNCHANGED <<config, edits, files, plan, gateway, env, claude, silent>>

\* The rename puts the whole file in place, whatever is there by now.
Rename(p) ==
    /\ At(p, "writing", After(p))
    /\ IF plan[p].firstParty
       THEN settings' = SettingsOf(plan[p]) /\ UNCHANGED cache
       ELSE cache' = CacheOf(plan[p]) /\ UNCHANGED settings
    /\ silent' = FALSE
    /\ UNCHANGED <<config, edits, plan, gateway, env, claude>>

\* sync-picker -remove: the settings first, then the cache.
RemoveSettings ==
    /\ At("sync", "down", "removing")
    /\ settings' = Absent /\ silent' = FALSE
    /\ UNCHANGED <<config, edits, cache, plan, gateway, env, claude>>

RemoveCache ==
    /\ At("sync", "removing", "down")
    /\ cache' = Absent /\ silent' = FALSE
    /\ UNCHANGED <<config, edits, settings, plan, gateway, env, claude>>

-----------------------------------------------------------------------------
(* Serving                                                                 *)

\* The port is free, or it is not and serve returns the error.
Listen ==
    /\ At("serve", "starting", "serving") \/ At("serve", "starting", "down")
    /\ UNCHANGED <<config, edits, files, plan, gateway, env, claude, silent>>

BeginStream ==
    /\ stage["serve"] = "serving" /\ streams < MaxStreams
    /\ streams' = streams + 1
    /\ UNCHANGED <<config, edits, files, stage, plan, drained, env, claude, silent>>

EndStream ==
    /\ streams > 0
    /\ streams' = streams - 1
    /\ UNCHANGED <<config, edits, files, stage, plan, drained, env, claude, silent>>

\* SIGINT or SIGTERM: caught once NotifyContext is in place, deadly before.
Signal ==
    /\ \/ \E s \in {"starting", "serving"} : At("serve", s, "draining")
       \/ \E s \in {"loaded", "writing"} : At("serve", s, "down")
    /\ drained' = 0
    /\ UNCHANGED <<config, edits, files, plan, streams, env, claude, silent>>

Drain ==
    /\ stage["serve"] = "draining" /\ drained < Deadline /\ streams > 0
    /\ drained' = drained + 1
    /\ UNCHANGED <<config, edits, files, stage, plan, streams, env, claude, silent>>

\* Mutant: Shutdown gets a context without a deadline.
Exit_WhenIdle ==
    /\ streams = 0
    /\ At("serve", "draining", "down")
    /\ streams' = 0 /\ drained' = 0
    /\ UNCHANGED <<config, edits, files, plan, env, claude, silent>>

\* Mutant: the requests cut by the exit are counted on.
Exit_KeepsStreams ==
    /\ streams = 0 \/ drained = Deadline
    /\ At("serve", "draining", "down")
    /\ drained' = 0
    /\ UNCHANGED <<config, edits, files, plan, streams, env, claude, silent>>

\* Shutdown returns when no stream is left or the deadline has passed; the
\* process exits, and streams that still run are cut.
Exit ==
    /\ streams = 0 \/ drained = Deadline
    /\ At("serve", "draining", "down")
    /\ streams' = 0 /\ drained' = 0
    /\ UNCHANGED <<config, edits, files, plan, env, claude, silent>>

Next ==
    \/ \E c \in Configs : EditConfig(c)
    \/ EvalEnv \/ StartClaude \/ ReportDrift
    \/ \E p \in Processes : Load(p) \/ Fail(p) \/ Compare(p) \/ Rename(p)
    \/ RemoveSettings \/ RemoveCache
    \/ Listen \/ BeginStream \/ EndStream \/ Signal \/ Drain \/ Exit

\* The clock runs and a process that can exit does.
Fairness == WF_vars(Drain) /\ WF_vars(Exit)

Spec == Init /\ [][Next]_vars /\ Fairness

-----------------------------------------------------------------------------
(* Type correctness                                                        *)

\* The two files are always whole, each made by one process from one config; only
\* a gateway that serves or drains has requests (writeAtomic, cmdServe).
TypeOK ==
    /\ config \in Configs /\ edits \in 0 .. MaxEdits
    /\ cache \in {Absent} \cup {CacheOf(c) : c \in Configs}
    /\ settings \in {Absent} \cup {SettingsOf(c) : c \in Configs}
    /\ stage \in [Processes -> {"down", "loaded", "writing", "removing", "starting",
                                "serving", "draining"}]
    /\ plan \in [Processes -> Configs]
    /\ streams \in 0 .. MaxStreams /\ drained \in 0 .. Deadline
    /\ streams > 0 => stage["serve"] \in {"serving", "draining"}
    /\ silent \in BOOLEAN

-----------------------------------------------------------------------------
(* The picker                                                              *)

\* When `ccgw models` has found no drift of the cache, a Claude Code started in
\* a shell set up from the present config shows exactly its models, whichever of
\* serve, sync-picker and remove ran in between and in whatever order their
\* compares and renames fell (main.go:284-312). Of the settings file and of a shell
\* that keeps the first-party flag of an earlier eval it is not true.
SilentMeansCurrent ==
    silent /\ ~config.firstParty /\ env.from = {config} /\ ~env.firstParty
        => PickerFile.rows = Catalogue(config)

\* Does no other model claim a name that row i may be looked up by?
Unclaimed(c, i) ==
    \A j \in DOMAIN c.models \ {i} :
        Names(c, j) \cap {RowID(c, i), ExposedID(c, c.models[i].id)} = {}

\* A row made from the config the gateway serves never falls through to
\* Anthropic, and leads to the model it was made for unless another model of
\* the config claims one of its names (router.go:46-60, 83-96, 112-132).
RowsReachTheirModel ==
    stage["serve"] = "serving" /\ claude.file.from = {plan["serve"]} =>
        LET c == plan["serve"]
        IN  \A i \in DOMAIN claude.file.rows :
               /\ Resolve(c, claude.file.rows[i]) # Anthropic
               /\ Unclaimed(c, i) => Resolve(c, claude.file.rows[i]) = i

\* Can the exported variable say how small the smallest window is, and does it
\* reach model i? Claude Code does not apply the one to names that begin with
\* "claude-", and the other does not go below its minimum (window.go:6-16).
Sizable(c, i) ==
    /\ c.models[i].window > 0 /\ ~Long(ExposedID(c, c.models[i].id))
    /\ IF LongDeclared(c) THEN Smallest(c) >= MinAutoCompactWindow
       ELSE ExposedID(c, c.models[i].id)[1] # "claude-"

\* A Claude Code whose rows and environment are of one config takes no model's
\* window for larger than it is, also when its shell still has a variable of an
\* earlier config: an overstated window is a hard refusal (config.go:181-190).
WindowFits ==
    \A c \in claude.env.from :
        claude.file.from = {c} =>
            \A i \in DOMAIN claude.file.rows :
               Sizable(c, i) =>
                  WindowTaken(claude.file.rows[i], claude.env.maxContext,
                              claude.env.autoCompact) <= c.models[i].window

\* Once told to stop, serve exits, whatever its streams do (main.go:200-206).
ServeExits == stage["serve"] = "draining" ~> stage["serve"] = "down"

=============================================================================
