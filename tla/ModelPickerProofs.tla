-------------------------- MODULE ModelPickerProofs --------------------------
(***************************************************************************)
(* Theorems about ModelPicker, for any configs, any number of models and   *)
(* edits, and any order of the steps.                                      *)
(***************************************************************************)
EXTENDS ModelPicker, WellFoundedInduction, TLAPS

-----------------------------------------------------------------------------
(* Extremes                                                                *)

\* Every non-empty set of numbers has a least one.
LEMMA LeastExists ==
    ASSUME NEW T \in SUBSET Nat, T # {}
    PROVE  \E x \in T : \A y \in T : x <= y
<1> DEFINE Less == OpToRel(<, Nat)
<1>1. IsWellFoundedOn(Less, Nat)
  BY NatLessThanWellFounded
<1>2. Less = {ss \in Nat \X Nat : ss[1] < ss[2]}
  BY DEF OpToRel
<1>3. ASSUME NEW x \in T, NEW y \in T, <<y, x>> \notin Less
      PROVE  x <= y
  <2>1. x \in Nat /\ y \in Nat /\ <<y, x>> \in Nat \X Nat
    OBVIOUS
  <2>2. ~(<<y, x>>[1] < <<y, x>>[2])
    BY <1>2, <1>3, <2>1, Zenon
  <2> QED
    BY <2>1, <2>2
<1> HIDE DEF Less
<1>4. \E x \in T : \A y \in T : ~(<<y, x>> \in Less)
  BY <1>1, WFMin
<1> QED
  BY <1>3, <1>4

\* And every bounded one a greatest.
LEMMA GreatestExists ==
    ASSUME NEW n \in Nat, NEW T \in SUBSET (1 .. n), T # {}
    PROVE  \E x \in T : \A y \in T : y <= x
<1> DEFINE D == {n - y : y \in T}
<1>1. D \in SUBSET Nat /\ D # {}
  <2>1. \A y \in T : n - y \in Nat
    OBVIOUS
  <2> QED
    BY <2>1
<1>2. PICK d \in D : \A e \in D : d <= e
  BY <1>1, LeastExists
<1>3. PICK x \in T : d = n - x
  OBVIOUS
<1>4. ASSUME NEW y \in T
      PROVE  y <= x
  <2>1. n - y \in D
    OBVIOUS
  <2>2. n - x <= n - y
    BY <1>2, <1>3, <2>1
  <2> QED
    BY <2>2
<1> QED
  BY <1>4

-----------------------------------------------------------------------------
(* Names                                                                   *)

\* A config of the user's has a sequence of models, each with a name.
LEMMA ModelsOf ==
    ASSUME NEW c \in Config
    PROVE  /\ Len(c.models) \in Nat /\ DOMAIN c.models = 1 .. Len(c.models)
           /\ c.prefix \in Seq(STRING)
           /\ \A i \in DOMAIN c.models : /\ c.models[i].id \in Seq(STRING)
                                         /\ c.models[i].window \in Nat
                                         /\ c.models[i].long \in BOOLEAN
<1>1. c.models \in Seq(Model)
  BY DEF Config
<1>2. \A i \in DOMAIN c.models : c.models[i] \in Model
  BY <1>1
<1> QED
  BY <1>1, <1>2 DEF Config, Model

\* An exposed id is a name, and not an empty one.
LEMMA ExposedIsName ==
    ASSUME NEW c \in Config, Valid(c), NEW i \in DOMAIN c.models
    PROVE  /\ ExposedID(c, c.models[i].id) \in Seq(STRING)
           /\ ExposedID(c, c.models[i].id) # <<>>
           /\ ExposedID(c, c.models[i].id) \in Names(c, i)
<1> DEFINE id == c.models[i].id
<1>1. id \in Seq(STRING) /\ id # <<>> /\ c.prefix \in Seq(STRING)
  BY ModelsOf DEF Valid
<1>2. c.prefix \o id \in Seq(STRING) /\ c.prefix \o id # <<>>
  BY <1>1
<1> QED
  BY <1>1, <1>2 DEF ExposedID, Names

\* The last model with a name owns it.
LEMMA NameHasOwner ==
    ASSUME NEW c \in Config, NEW i \in DOMAIN c.models, NEW name \in Names(c, i)
    PROVE  ByID(c, name) # {}
<1> DEFINE T == {j \in DOMAIN c.models : name \in Names(c, j)}
<1>1. Len(c.models) \in Nat /\ T \in SUBSET (1 .. Len(c.models)) /\ T # {}
  BY ModelsOf
<1>2. PICK x \in T : \A y \in T : y <= x
  BY <1>1, GreatestExists
<1>3. \A j \in DOMAIN c.models : j > x => name \notin Names(c, j)
  BY <1>1, <1>2, ModelsOf
<1> QED
  BY <1>3 DEF ByID, Owns

\* What the map has for a name is a model that has the name.
LEMMA OwnerHasName ==
    ASSUME NEW c, NEW name, NEW j \in ByID(c, name)
    PROVE  j \in DOMAIN c.models /\ name \in Names(c, j)
BY DEF ByID, Owns

\* A model is never taken for Anthropic.
LEMMA ModelIsNotAnthropic ==
    ASSUME NEW c \in Config, NEW i \in DOMAIN c.models
    PROVE  i # Anthropic
BY ModelsOf DEF Anthropic

\* What appending one element does to a sequence.
LEMMA AppendOne ==
    ASSUME NEW S, NEW s \in Seq(S), NEW e
    PROVE  /\ Len(s \o <<e>>) = Len(s) + 1
           /\ (s \o <<e>>)[Len(s) + 1] = e
           /\ SubSeq(s \o <<e>>, 1, Len(s)) = s
<1>0. s \in Seq(S \cup {e}) /\ <<e>> \in Seq(S \cup {e})
  OBVIOUS
<1>1. Len(s \o <<e>>) = Len(s) + 1
  BY <1>0
<1>2. (s \o <<e>>)[Len(s) + 1] = e
  BY <1>0
<1>3. SubSeq(s \o <<e>>, 1, Len(s)) = s
  BY <1>0
<1> QED
  BY <1>1, <1>2, <1>3

\* A row is an exposed id or its variant.
LEMMA RowIsExposedOrVariant ==
    ASSUME NEW c \in Config, Valid(c), NEW i \in DOMAIN c.models
    PROVE  LET E == ExposedID(c, c.models[i].id)
           IN  \/ RowID(c, i) = E /\ ~c.models[i].long
               \/ /\ c.models[i].long
                  /\ HasVariant(RowID(c, i)) /\ Long(RowID(c, i))
                  /\ Base(RowID(c, i)) = E
<1> DEFINE E == ExposedID(c, c.models[i].id)
<1>1. E \in Seq(STRING) /\ Len(E) \in Nat /\ Len(E) > 0
  BY ExposedIsName
<1> HIDE DEF E
<1>2. CASE ~c.models[i].long
  <2>1. RowID(c, i) = E \o <<>>
    BY <1>2 DEF RowID, E
  <2> QED
    BY <1>1, <1>2, <2>1 DEF E
<1>3. CASE c.models[i].long
  <2>1. RowID(c, i) = E \o <<Variant>>
    BY <1>3 DEF RowID, E
  <2>3. /\ Len(E \o <<Variant>>) = Len(E) + 1
        /\ (E \o <<Variant>>)[Len(E) + 1] = Variant
        /\ SubSeq(E \o <<Variant>>, 1, Len(E)) = E
    BY <1>1, AppendOne
  <2>4. HasVariant(RowID(c, i)) /\ Long(RowID(c, i)) /\ Base(RowID(c, i)) = E
    <3>1. Len(RowID(c, i)) = Len(E) + 1
      BY <2>1, <2>3
    <3>2. HasVariant(RowID(c, i)) /\ Long(RowID(c, i))
      BY <1>1, <2>1, <2>3, <3>1 DEF HasVariant, Bracketed, Long
    <3>3. Base(RowID(c, i)) = SubSeq(E \o <<Variant>>, 1, Len(E))
      BY <1>1, <2>1, <3>1 DEF Base
    <3> QED
      BY <2>3, <3>2, <3>3
  <2> QED
    BY <1>3, <2>4 DEF E
<1> QED
  BY <1>2, <1>3

\* A model of the catalogue is found by its row; it is that very model unless
\* another one claims a name the row is looked up by.
LEMMA RowResolves ==
    ASSUME NEW c \in Config, Valid(c), NEW i \in DOMAIN c.models
    PROVE  /\ Resolve(c, RowID(c, i)) # Anthropic
           /\ Unclaimed(c, i) => Resolve(c, RowID(c, i)) = i
<1> DEFINE E == ExposedID(c, c.models[i].id)
           row == RowID(c, i)
<1>1. ByID(c, E) # {}
  BY ExposedIsName, NameHasOwner
<1>2. ASSUME NEW name \in {row, E}, Unclaimed(c, i), NEW j \in ByID(c, name)
      PROVE  j = i
  BY <1>2, OwnerHasName DEF Unclaimed
<1>3. PICK name \in {row, E} : /\ ByID(c, name) # {}
                               /\ Resolve(c, row) \in ByID(c, name)
  <2>1. CASE ByID(c, row) # {}
    BY <2>1 DEF Resolve
  <2>2. CASE ByID(c, row) = {}
    <3>1. HasVariant(row) /\ Base(row) = E
      BY <1>1, <2>2, RowIsExposedOrVariant
    <3> QED
      BY <1>1, <2>2, <3>1 DEF Resolve
  <2> QED
    BY <2>1, <2>2
<1> QED
  BY <1>2, <1>3, OwnerHasName, ModelIsNotAnthropic

-----------------------------------------------------------------------------
(* Windows                                                                 *)

\* The smallest window is one that is declared, and no larger than any.
LEMMA SmallestIsLeast ==
    ASSUME NEW c \in Config, Declaring(c) # {}
    PROVE  /\ Smallest(c) \in Nat /\ Smallest(c) > 0
           /\ \A i \in Declaring(c) : Smallest(c) <= c.models[i].window
<1> DEFINE W(i) == c.models[i].window
           T == {W(i) : i \in Declaring(c)}
           Least(i) == \A j \in Declaring(c) : W(i) <= W(j)
<1>1. \A i \in Declaring(c) : i \in DOMAIN c.models /\ W(i) \in Nat /\ W(i) > 0
  BY ModelsOf DEF Declaring
<1>2. PICK x \in T : \A y \in T : x <= y
  BY <1>1, LeastExists
<1>3. \E i \in Declaring(c) : Least(i)
  BY <1>2
<1>4. (CHOOSE i \in Declaring(c) : Least(i)) \in Declaring(c)
      /\ Least(CHOOSE i \in Declaring(c) : Least(i))
  BY <1>3
<1>5. Smallest(c) = W(CHOOSE i \in Declaring(c) : Least(i))
  BY DEF Smallest
<1> QED
  BY <1>1, <1>4, <1>5

\* A window that can be expressed is at least 100 and at most 1000, and above the
\* one asked for only where that is below 100.
LEMMA ExpressibleBounds ==
    ASSUME NEW n \in Nat
    PROVE  /\ Expressible(n) \in 100 .. 1000
           /\ n >= 100 => Expressible(n) <= n
           /\ n \in 100 .. 1000 => Expressible(n) = n
           /\ n > 1000 => Expressible(n) = 1000
BY DEF Expressible, MinAutoCompactWindow, MaxAutoCompactWindow

\* What the variable of a config is worth, as long as a shell has it.
Sized(c, maxContext, autoCompact) ==
    Declaring(c) # {} =>
        IF LongDeclared(c) THEN autoCompact = Expressible(Smallest(c))
        ELSE maxContext = Smallest(c)

\* Whatever the other variable still is, no window of a config is overstated in
\* a shell that has the variable of this config.
LEMMA NoWindowOverstated ==
    ASSUME NEW c \in Config, Valid(c), NEW i \in DOMAIN c.models, Sizable(c, i),
           NEW maxContext \in Nat, NEW autoCompact \in Nat,
           Sized(c, maxContext, autoCompact)
    PROVE  WindowTaken(RowID(c, i), maxContext, autoCompact) <= c.models[i].window
<1> DEFINE row == RowID(c, i)
           window == c.models[i].window
           E == ExposedID(c, c.models[i].id)
           S == Smallest(c)
           ceiling == Ceiling(row, maxContext)
           auto == Expressible(autoCompact)
           taken == WindowTaken(row, maxContext, autoCompact)
<1>1. i \in Declaring(c) /\ window \in Nat
  BY ModelsOf DEF Sizable, Declaring
<1>2. S \in Nat /\ S > 0 /\ S <= window
  BY <1>1, SmallestIsLeast
<1>3. \/ row = E /\ ~c.models[i].long
      \/ c.models[i].long /\ Long(row)
  BY RowIsExposedOrVariant
<1>4. ceiling \in Nat
  BY DEF Ceiling
<1>5. taken = ceiling \/ (taken = auto /\ auto < ceiling)
  BY DEF WindowTaken
<1>6. autoCompact > 0 /\ auto < ceiling => taken = auto
  BY DEF WindowTaken
<1>7. auto \in Nat
  <2>1. auto \in 100 .. 1000
    BY ExpressibleBounds
  <2>2. auto \in Int /\ 100 <= auto
    BY <2>1
  <2> QED
    BY <2>2
<1> SUFFICES taken <= window
  OBVIOUS
<1> HIDE DEF row, window, S, ceiling, auto, taken
<1>8. CASE LongDeclared(c)
  <2>1. autoCompact = Expressible(S) /\ S >= 100
    BY <1>1, <1>8 DEF Sized, Sizable, MinAutoCompactWindow, S
  <2>2. autoCompact > 0 /\ autoCompact <= S /\ auto = autoCompact
    BY <1>2, <2>1, ExpressibleBounds DEF auto
  <2> QED
    BY <1>1, <1>2, <1>4, <1>5, <1>6, <1>7, <2>2
<1>9. CASE ~LongDeclared(c)
  <2>1. maxContext = S
    BY <1>1, <1>9 DEF Sized, S
  <2>2. ~c.models[i].long
    BY <1>1, <1>9 DEF LongDeclared
  <2>3. row = E /\ ~Long(row) /\ row[1] # "claude-"
    BY <1>3, <1>9, <2>2 DEF Sizable
  <2>4. ceiling = S
    BY <1>2, <2>1, <2>3 DEF Ceiling, ceiling
  <2> QED
    BY <1>1, <1>2, <1>5, <1>7, <2>4
<1> QED
  BY <1>8, <1>9

-----------------------------------------------------------------------------
(* The inductive invariant                                                 *)

\* What Claude Code started with is a file that was whole.
FileWhole(f) == f \in {Absent} \cup {CacheOf(c) : c \in Configs}
                               \cup {SettingsOf(c) : c \in Configs}

\* A shell has what the output of its last eval sets, and the flag of first-party
\* mode whenever it has the alias.
ShellOf(e) ==
    /\ e.maxContext \in Nat /\ e.autoCompact \in Nat
    /\ e.alias => e.firstParty
    /\ \A c \in e.from : /\ c \in Configs
                         /\ e.base = baseURL(c)
                         /\ ~c.firstParty => e.discovery
                         /\ Sized(c, e.maxContext, e.autoCompact)

\* Nothing `ccgw models` looks at has changed since it found no drift.
SilenceHolds == silent => FindsNoDrift

CopiesHold ==
    /\ FileWhole(claude.file)
    /\ ShellOf(env)
    /\ ShellOf(claude.env)
    /\ SilenceHolds

PickerInv == TypeOK /\ CopiesHold

LEMMA ConfigsAreValid ==
    ASSUME NEW c \in Configs
    PROVE  c \in Config /\ Valid(c)
BY ModelPickerAssumption

LEMMA InitEstablishes == Init => PickerInv
<1> SUFFICES ASSUME Init PROVE PickerInv
  OBVIOUS
<1>1. TypeOK
  <2>1. edits \in 0 .. MaxEdits /\ streams \in 0 .. MaxStreams /\ drained \in 0 .. Deadline
    BY ModelPickerAssumption DEF Init
  <2>2. plan \in [Processes -> Configs] /\ silent \in BOOLEAN /\ streams = 0
    BY DEF Init
  <2>3. stage \in [Processes -> {"down", "loaded", "writing", "removing", "starting",
                                 "serving", "draining"}]
    BY DEF Init
  <2>4. config \in Configs /\ cache = Absent /\ settings = Absent
    BY DEF Init
  <2> QED
    BY <2>1, <2>2, <2>3, <2>4 DEF TypeOK
<1>2. FileWhole(claude.file)
  BY DEF Init, FileWhole
<1>3. ShellOf(NoShell)
  BY DEF ShellOf, NoShell
<1>4. SilenceHolds
  BY DEF Init, SilenceHolds
<1> QED
  BY <1>1, <1>2, <1>3, <1>4 DEF Init, PickerInv, CopiesHold

\* Every variable keeps its type.
LEMMA TypeInductive ==
    ASSUME TypeOK, [Next]_vars
    PROVE  TypeOK'
<1> USE ModelPickerAssumption
<1>1. CASE UNCHANGED vars
  BY <1>1 DEF vars, files, gateway, TypeOK
<1>2. ASSUME NEW c \in Configs, EditConfig(c)
      PROVE  TypeOK'
  <2>1. edits' \in 0 .. MaxEdits
    BY <1>2 DEF EditConfig, TypeOK
  <2> QED
    BY <1>2, <2>1 DEF EditConfig, files, gateway, TypeOK
<1>3. CASE EvalEnv \/ StartClaude
  BY <1>3 DEF EvalEnv, StartClaude, files, gateway, TypeOK
<1>4. CASE ReportDrift
  BY <1>4 DEF ReportDrift, FindsNoDrift, sameModelIDs, files, gateway, TypeOK
<1>5. ASSUME NEW p \in Processes, Load(p)
      PROVE  TypeOK'
  BY <1>5 DEF Load, At, Processes, files, gateway, TypeOK
<1>6. ASSUME NEW p \in Processes, Fail(p) \/ Compare(p)
      PROVE  TypeOK'
  BY <1>6 DEF Fail, Compare, At, After, Processes, files, gateway, TypeOK
<1>7. ASSUME NEW p \in Processes, Rename(p)
      PROVE  TypeOK'
  BY <1>7 DEF Rename, At, After, Processes, gateway, TypeOK
<1>8. CASE RemoveSettings \/ RemoveCache
  BY <1>8 DEF RemoveSettings, RemoveCache, At, Processes, gateway, TypeOK
<1>9. CASE Listen
  BY <1>9 DEF Listen, At, Processes, files, gateway, TypeOK
<1>10. CASE BeginStream \/ EndStream
  BY <1>10 DEF BeginStream, EndStream, Processes, files, TypeOK
<1>11. CASE Signal
  BY <1>11 DEF Signal, At, Processes, files, TypeOK
<1>12. CASE Drain
  BY <1>12 DEF Drain, files, TypeOK
<1>13. CASE Exit
  BY <1>13 DEF Exit, At, Processes, files, TypeOK
<1> QED
  BY <1>1, <1>2, <1>3, <1>4, <1>5, <1>6, <1>7, <1>8, <1>9, <1>10, <1>11, <1>12, <1>13
     DEF Next

\* The step of a process leaves files, shells and report alone unless it writes
\* a file, which ends the silence.
LEMMA CopiesInductive ==
    ASSUME PickerInv, [Next]_vars
    PROVE  CopiesHold'
<1> USE DEF PickerInv
<1>1. ASSUME UNCHANGED <<claude, env>>, silent' = FALSE
      PROVE  CopiesHold'
  BY <1>1 DEF CopiesHold, FileWhole, ShellOf, SilenceHolds
<1>2. ASSUME UNCHANGED <<claude, env, silent, config, cache, settings>>
      PROVE  CopiesHold'
  BY <1>2 DEF CopiesHold, FileWhole, ShellOf, SilenceHolds, FindsNoDrift
<1>3. CASE EvalEnv
  <2>1. ShellOf(env)'
    <3>1. config \in Config /\ config \in Configs
      BY ConfigsAreValid DEF TypeOK
    <3>2. Declaring(config) # {} => /\ Smallest(config) \in Nat
                                    /\ Expressible(Smallest(config)) \in Nat
      <4>1. Declaring(config) # {} => Smallest(config) \in Nat
        BY <3>1, SmallestIsLeast
      <4> QED
        BY <4>1 DEF Expressible, MinAutoCompactWindow, MaxAutoCompactWindow
    <3>3. env'.maxContext \in Nat /\ env'.autoCompact \in Nat
      BY <1>3, <3>2 DEF EvalEnv, CopiesHold, ShellOf, WindowDirective
    <3>4. env'.alias => env'.firstParty
      BY <1>3 DEF EvalEnv, CopiesHold, ShellOf
    <3>5. /\ env'.from = {config} /\ env'.base = baseURL(config)
          /\ ~config.firstParty => env'.discovery
      BY <1>3 DEF EvalEnv
    <3>6. Sized(config, env'.maxContext, env'.autoCompact)
      BY <1>3 DEF EvalEnv, WindowDirective, Sized, MaxContextTokens, AutoCompactWindow
    <3> QED
      BY <3>1, <3>3, <3>4, <3>5, <3>6 DEF ShellOf
  <2>2. FileWhole(claude.file)' /\ ShellOf(claude.env)' /\ SilenceHolds'
    BY <1>3 DEF EvalEnv, files, CopiesHold, FileWhole, ShellOf, SilenceHolds, FindsNoDrift
  <2> QED
    BY <2>1, <2>2 DEF CopiesHold
<1>4. CASE StartClaude
  <2>1. PickerFile \in {Absent, cache, settings}
    BY DEF PickerFile
  <2>2. FileWhole(PickerFile)
    BY <2>1 DEF TypeOK, FileWhole
  <2>3. claude'.file = PickerFile /\ claude'.env = env
    BY <1>4 DEF StartClaude
  <2>4. UNCHANGED <<env, silent, config, cache, settings>>
    BY <1>4 DEF StartClaude, files
  <2>5. FileWhole(claude.file)' /\ ShellOf(env)' /\ ShellOf(claude.env)'
    BY <2>2, <2>3, <2>4 DEF CopiesHold, FileWhole, ShellOf
  <2>6. SilenceHolds'
    BY <2>4 DEF CopiesHold, SilenceHolds, FindsNoDrift
  <2> QED
    BY <2>5, <2>6 DEF CopiesHold
<1>5. CASE ReportDrift
  BY <1>5 DEF ReportDrift, files, CopiesHold, FileWhole, ShellOf, SilenceHolds, FindsNoDrift
<1>6. CASE \E c \in Configs : EditConfig(c)
  BY <1>1, <1>6 DEF EditConfig
<1>7. CASE \E p \in Processes : Load(p) \/ Fail(p) \/ Compare(p)
  BY <1>2, <1>7 DEF Load, Fail, Compare, files
<1>8. CASE (\E p \in Processes : Rename(p)) \/ RemoveSettings \/ RemoveCache
  BY <1>1, <1>8 DEF Rename, RemoveSettings, RemoveCache
<1>9. CASE Listen \/ BeginStream \/ EndStream \/ Signal \/ Drain \/ Exit
  BY <1>2, <1>9 DEF Listen, BeginStream, EndStream, Signal, Drain, Exit, files
<1>10. CASE UNCHANGED vars
  BY <1>2, <1>10 DEF vars, files
<1> QED
  BY <1>3, <1>4, <1>5, <1>6, <1>7, <1>8, <1>9, <1>10 DEF Next

LEMMA Inductive == PickerInv /\ [Next]_vars => PickerInv'
BY TypeInductive, CopiesInductive DEF PickerInv

LEMMA AlwaysPickerInv == Spec => []PickerInv
BY InitEstablishes, Inductive, PTL DEF Spec

-----------------------------------------------------------------------------
(* Theorems                                                                *)

\* The files stay whole, and only a gateway that serves or drains has requests,
\* for any configs and bounds (writeAtomic, cmdServe).
THEOREM TypeCorrect == Spec => []TypeOK
<1>1. PickerInv => TypeOK
  BY DEF PickerInv
<1> QED
  BY <1>1, AlwaysPickerInv, PTL

\* A report without drift means that the next Claude Code shows the models of
\* the config, whoever wrote the cache and when (main.go:284-312).
THEOREM SilenceIsTrue == Spec => []SilentMeansCurrent
<1>1. ASSUME PickerInv, silent, ~config.firstParty, env.from = {config}, ~env.firstParty
      PROVE  PickerFile.rows = Catalogue(config)
  <2>1. ~env.alias /\ env.discovery /\ env.base = baseURL(config)
    BY <1>1 DEF PickerInv, CopiesHold, ShellOf
  <2>2. PickerFile = IF cache.base = env.base THEN cache ELSE Absent
    BY <1>1, <2>1 DEF PickerFile
  <2>3. FindsNoDrift
    BY <1>1 DEF PickerInv, CopiesHold, SilenceHolds
  <2>4. CASE cache = Absent
    <3>1. config.models = <<>>
      BY <1>1, <2>3, <2>4 DEF FindsNoDrift
    <3>2. Catalogue(config) = <<>>
      BY <3>1 DEF Catalogue
    <3>3. PickerFile.rows = <<>>
      BY <2>2, <2>4 DEF Absent
    <3> QED
      BY <3>2, <3>3
  <2>5. CASE cache # Absent
    BY <1>1, <2>1, <2>2, <2>3, <2>5 DEF FindsNoDrift, sameModelIDs
  <2> QED
    BY <2>4, <2>5
<1>2. PickerInv => SilentMeansCurrent
  BY <1>1 DEF SilentMeansCurrent
<1> QED
  BY <1>2, AlwaysPickerInv, PTL

\* What the two files have of a config.
LEMMA FilesOf ==
    ASSUME NEW c
    PROVE  /\ CacheOf(c).from = {c} /\ CacheOf(c).rows = Truncated(Catalogue(c))
           /\ SettingsOf(c).from = {c} /\ SettingsOf(c).rows = Catalogue(c)
BY DEF CacheOf, SettingsOf

\* The rows of a file from one config are rows of its catalogue, in their places.
LEMMA RowsAreOfCatalogue ==
    ASSUME NEW f, FileWhole(f), NEW c, f.from = {c}
    PROVE  /\ c \in Configs
           /\ \A i \in DOMAIN f.rows : i \in DOMAIN c.models /\ f.rows[i] = RowID(c, i)
<1>1. f # Absent
  <2>1. Absent.from = {}
    BY DEF Absent
  <2>2. f.from # {}
    OBVIOUS
  <2> QED
    BY <2>1, <2>2
<1>2. PICK d \in Configs : f = CacheOf(d) \/ f = SettingsOf(d)
  BY <1>1 DEF FileWhole
<1>3. c = d
  <2>1. f.from = {d}
    BY <1>2, FilesOf
  <2>2. d \in {c}
    BY <2>1
  <2> QED
    BY <2>2
<1>4. c \in Configs /\ c \in Config
  BY <1>2, <1>3, ConfigsAreValid
<1>5. Len(c.models) \in Nat /\ DOMAIN c.models = 1 .. Len(c.models)
  BY <1>4, ModelsOf
<1>6. /\ DOMAIN Catalogue(c) = 1 .. Len(c.models)
      /\ \A i \in 1 .. Len(c.models) : Catalogue(c)[i] = RowID(c, i)
  BY <1>5 DEF Catalogue
<1>7. Catalogue(c) \in Seq({RowID(c, i) : i \in 1 .. Len(c.models)})
      /\ Len(Catalogue(c)) = Len(c.models)
  BY <1>5, <1>6 DEF Catalogue
<1>8. \A i \in DOMAIN Truncated(Catalogue(c)) :
         i \in 1 .. Len(c.models) /\ Truncated(Catalogue(c))[i] = Catalogue(c)[i]
  BY <1>5, <1>7, ModelPickerAssumption DEF Truncated
<1>9. f.rows = Catalogue(c) \/ f.rows = Truncated(Catalogue(c))
  BY <1>2, <1>3, FilesOf
<1> QED
  <2>1. CASE f.rows = Catalogue(c)
    BY <1>4, <1>5, <1>6, <2>1
  <2>2. CASE f.rows = Truncated(Catalogue(c))
    BY <1>4, <1>5, <1>6, <1>8, <2>2
  <2> QED
    BY <1>9, <2>1, <2>2

\* Every row leads to a model of the config, its own unless another claims its
\* name, for any names, prefix and number of models (router.go).
THEOREM RowsLeadHome == Spec => []RowsReachTheirModel
<1>1. ASSUME PickerInv, claude.file.from = {plan["serve"]},
             NEW i \in DOMAIN claude.file.rows
      PROVE  /\ Resolve(plan["serve"], claude.file.rows[i]) # Anthropic
             /\ Unclaimed(plan["serve"], i) =>
                   Resolve(plan["serve"], claude.file.rows[i]) = i
  BY <1>1, RowsAreOfCatalogue, RowResolves, ConfigsAreValid DEF PickerInv, CopiesHold
<1>2. PickerInv => RowsReachTheirModel
  BY <1>1 DEF RowsReachTheirModel
<1> QED
  BY <1>2, AlwaysPickerInv, PTL

\* No declared window is overstated where the variables can express it, for any
\* windows and any number of models (window.go).
THEOREM WindowsFit == Spec => []WindowFits
<1>1. ASSUME PickerInv, NEW c \in claude.env.from, claude.file.from = {c},
             NEW i \in DOMAIN claude.file.rows, Sizable(c, i)
      PROVE  WindowTaken(claude.file.rows[i], claude.env.maxContext,
                         claude.env.autoCompact) <= c.models[i].window
  <2>1. c \in Config /\ Valid(c) /\ i \in DOMAIN c.models
        /\ claude.file.rows[i] = RowID(c, i)
    BY <1>1, RowsAreOfCatalogue, ConfigsAreValid DEF PickerInv, CopiesHold
  <2>2. /\ claude.env.maxContext \in Nat /\ claude.env.autoCompact \in Nat
        /\ Sized(c, claude.env.maxContext, claude.env.autoCompact)
    BY <1>1 DEF PickerInv, CopiesHold, ShellOf
  <2> QED
    BY <1>1, <2>1, <2>2, NoWindowOverstated
<1>2. PickerInv => WindowFits
  BY <1>1 DEF WindowFits
<1> QED
  BY <1>2, AlwaysPickerInv, PTL

=============================================================================
