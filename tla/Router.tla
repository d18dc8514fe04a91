------------------------------- MODULE Router -------------------------------
(***************************************************************************)
(* The names of the configured models: what each is advertised as, which   *)
(* model a request's name leads to, and what Claude Code is told of their  *)
(* context windows.                                                        *)
(*                                                                         *)
(* A name is a sequence of parts ("anthropic/", "gpt-5", "[1m]"), as fine  *)
(* as the comparisons the code makes of prefixes and suffixes. A model is  *)
(* known by its place in the config. Windows are in thousands of tokens.   *)
(***************************************************************************)
EXTENDS Integers, Sequences

\* "[1m]", the variant Claude Code knows, and the parts it treats as its own.
\* The gateway takes any bracketed part at the end of a name for a variant.
Variant   == "[1m]"
Bracketed == {Variant, "[beta]"}
Familiar  == {"claude-", "anthropic/"}

Model  == [id : Seq(STRING), window : Nat, long : BOOLEAN]
Config == [models : Seq(Model), prefix : Seq(STRING), listen : STRING,
           firstParty : BOOLEAN]

\* validate: no id is empty and none is used twice.
Valid(c) ==
    /\ \A i \in DOMAIN c.models : c.models[i].id # <<>>
    /\ \A i, j \in DOMAIN c.models : c.models[i].id = c.models[j].id => i = j

-----------------------------------------------------------------------------
(* Names                                                                   *)

containsClaudeOrAnthropic(id) == \E p \in DOMAIN id : id[p] \in Familiar

ExposedID(c, id) ==
    IF c.prefix = <<>> \/ containsClaudeOrAnthropic(id) THEN id ELSE c.prefix \o id

\* The two names the map has for a model.
Names(c, i) == {ExposedID(c, c.models[i].id), c.models[i].id}

\* New goes through the models in order, so a later one takes a name over.
Owns(c, i, name) ==
    /\ name \in Names(c, i)
    /\ \A j \in DOMAIN c.models : j > i => name \notin Names(c, j)

HasVariant(name) == Len(name) > 1 /\ name[Len(name)] \in Bracketed

Base(name) == SubSeq(name, 1, Len(name) - 1)

\* Where the map has nothing, the request is Anthropic's.
Anthropic == 0

ByID(c, name) == {i \in DOMAIN c.models : Owns(c, i, name)}

\* Mutant: the variant is not taken off.
Resolve_ExactOnly(c, name) ==
    IF ByID(c, name) # {} THEN CHOOSE i \in ByID(c, name) : TRUE ELSE Anthropic

Resolve(c, name) ==
    IF ByID(c, name) # {} THEN CHOOSE i \in ByID(c, name) : TRUE
    ELSE IF HasVariant(name) /\ ByID(c, Base(name)) # {}
    THEN CHOOSE i \in ByID(c, Base(name)) : TRUE
    ELSE Anthropic

\* The row a model has in the catalogue.
RowID(c, i) ==
    ExposedID(c, c.models[i].id) \o (IF c.models[i].long THEN <<Variant>> ELSE <<>>)

Catalogue(c) == [i \in DOMAIN c.models |-> RowID(c, i)]

-----------------------------------------------------------------------------
(* Context windows                                                         *)

MinAutoCompactWindow == 100
MaxAutoCompactWindow == 1000

MaxContextTokens  == "CLAUDE_CODE_MAX_CONTEXT_TOKENS"
AutoCompactWindow == "CLAUDE_CODE_AUTO_COMPACT_WINDOW"

Declaring(c) == {i \in DOMAIN c.models : c.models[i].window > 0}

\* The least window a model declares.
Smallest(c) ==
    LET least == CHOOSE i \in Declaring(c) :
                    \A j \in Declaring(c) : c.models[i].window <= c.models[j].window
    IN  c.models[least].window

Expressible(n) ==
    IF n < MinAutoCompactWindow THEN MinAutoCompactWindow
    ELSE IF n > MaxAutoCompactWindow THEN MaxAutoCompactWindow ELSE n

LongDeclared(c) == \E i \in Declaring(c) : c.models[i].long

\* Mutant: the variable is chosen by the first model.
WindowDirective_FirstModel(c) ==
    IF c.models[1].long
    THEN [name |-> AutoCompactWindow, value |-> Expressible(Smallest(c))]
    ELSE [name |-> MaxContextTokens, value |-> Smallest(c)]

\* The variable to export and its value; none when no model declares a window.
WindowDirective(c) ==
    IF LongDeclared(c)
    THEN [name |-> AutoCompactWindow, value |-> Expressible(Smallest(c))]
    ELSE [name |-> MaxContextTokens, value |-> Smallest(c)]

\* Claude Code: does it take a model of this name for one of a million tokens?
Long(name) == Len(name) > 1 /\ name[Len(name)] = Variant

\* Claude Code: the window it takes a model of this name to have, 0 being a
\* variable that is not set.
Ceiling(name, maxContext) ==
    IF Long(name) THEN 1000
    ELSE IF maxContext > 0 /\ name[1] # "claude-" THEN maxContext
    ELSE 200

WindowTaken(name, maxContext, autoCompact) ==
    LET ceiling == Ceiling(name, maxContext)
    IN  IF autoCompact > 0 /\ Expressible(autoCompact) < ceiling
        THEN Expressible(autoCompact) ELSE ceiling

=============================================================================
