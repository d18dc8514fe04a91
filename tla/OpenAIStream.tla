---------------------------- MODULE OpenAIStream ----------------------------
(***************************************************************************)
(* The OpenAI stream translator: StreamTranslator.Run turns a Chat         *)
(* Completions stream into the Anthropic Messages stream.                  *)
(*                                                                         *)
(* Upstream there are no blocks, only deltas of reasoning, of content and  *)
(* of tool calls, told apart by their tool_calls index; one chunk may      *)
(* carry several. Downstream one block is open at a time.                  *)
(*                                                                         *)
(* A chunk is the sequence of its parts in the order choice() handles      *)
(* them; todo holds the parts not handled yet. One action is one write to  *)
(* the client, which may fail. Block indices count from 1, as in           *)
(* CodexStream.                                                            *)
(***************************************************************************)
EXTENDS Integers, Sequences, FiniteSets

CONSTANTS
    Reasoning, Content,  \* the reasoning and the content of the response
    Tools,               \* its tool calls, by tool_calls index
    ReasoningMode,       \* "thinking" or "drop"
    FinishReasons,       \* what finish_reason may say
    ErrorTypes,          \* types an in-band error object may carry
    Usages,              \* usage records a chunk may carry
    EstimatedInput,      \* the estimate that seeds message_start
    MaxFragments,        \* bound: fragments, per source
    MaxParts             \* bound: parts per chunk

Sources == {Reasoning, Content} \cup Tools

ASSUME ConstantsOK ==
    /\ Reasoning # Content
    /\ Tools \cap {Reasoning, Content} = {}
    /\ ReasoningMode \in {"thinking", "drop"}
    /\ Usages \subseteq [input : Nat, cached : Nat]
    /\ EstimatedInput \in Nat
    /\ MaxFragments \in [Sources -> Nat]
    /\ MaxParts \in Nat

VARIABLES
    \* the backend
    upstream,    \* "live", "finished" (finish_reason sent) or "closed"
    sent,        \* per source: fragments read by the translator
    called,      \* the tool calls it has streamed something of
    callSkipped, \* history: was anything of them in a chunk that was skipped?
    \* the translator
    pc, todo, finish,
    started, curKind, curIndex, nextIndex, toolBlock,
    usage, stopReason, sawToolCalls, errKind,
    \* the client
    phase, blocks, stop, reported

backendVars == <<upstream, sent, called, callSkipped>>
blockVars   == <<started, curKind, curIndex, nextIndex, toolBlock>>
resultVars  == <<usage, stopReason, sawToolCalls, errKind>>
clientVars  == <<phase, blocks, stop, reported>>
vars == <<backendVars, pc, todo, finish, blockVars, resultVars, clientVars>>

\* What the client makes of the blocks: it has no use for the fragments of one
\* that come late, after its stop.
Timely ==
    [b \in DOMAIN blocks |->
        [src |-> blocks[b].src, kind |-> blocks[b].kind, open |-> blocks[b].open,
         frags |-> blocks[b].frags]]

Contract == INSTANCE AnthropicStream WITH Concurrent <- FALSE, blocks <- Timely

NoBlock == 0
NoUsage == [input |-> 0, cached |-> 0]

KindOf(s) == IF s = Reasoning THEN "thinking"
             ELSE IF s = Content THEN "text" ELSE "tool_use"

DeltaType(s) == IF s = Reasoning THEN "thinking_delta"
                ELSE IF s = Content THEN "text_delta" ELSE "input_json_delta"

Visible(s) == s # Reasoning \/ ReasoningMode = "thinking"

-----------------------------------------------------------------------------
(* Chunks                                                                  *)

\* A part without text is the first fragment of a tool call, which names the
\* function and may carry no arguments yet; an empty reasoning or content is
\* no part at all.
Parts == [src : Sources, text : BOOLEAN] \ [src : {Reasoning, Content}, text : {FALSE}]

Rank(p) == CASE p.src = Reasoning -> 1
             [] p.src = Content   -> 2
             [] p.src \in Tools   -> 3

\* choice() looks at the reasoning, then the content, then the tool calls.
Chunks == {c \in UNION {[1..n -> Parts] : n \in 0..MaxParts} :
              \A m, n \in DOMAIN c : m < n =>
                  Rank(c[m]) < Rank(c[n]) \/ (Rank(c[m]) = 3 /\ Rank(c[n]) = 3)}

FragmentsOf(c, s) == Cardinality({n \in DOMAIN c : c[n].src = s /\ c[n].text})

ToolsIn(c) == {c[n].src : n \in DOMAIN c} \cap Tools

\* A backend says "tool_calls" only when it has streamed some, and "stop" or
\* "content_filter" only when it has not; any other reason may come either way.
Truthful(reason, calls) ==
    /\ reason \in {"tool_calls", "function_call"} => calls # {}
    /\ reason \in {"stop", "content_filter"} => calls = {}

\* frags came while the block was open, late after its stop.
Block == [src : Sources, kind : Contract!BlockKinds, open : BOOLEAN,
          frags : Seq(Contract!Fragment), late : Seq(Contract!Fragment)]

Working == {"chunk", "finish", "stop", "fail"}

TypeOK ==
    /\ upstream \in {"live", "finished", "closed"}
    /\ sent \in [Sources -> Nat]
    /\ called \subseteq Tools
    /\ callSkipped \in BOOLEAN
    /\ pc \in Working \cup {"reading", "returned"}
    /\ todo \in Seq(Parts)
    /\ finish \in FinishReasons \cup {""}
    /\ started \in BOOLEAN
    /\ curKind \in Contract!BlockKinds \cup {"none"}
    /\ curIndex \in Nat
    /\ nextIndex \in Nat
    /\ toolBlock \in [Tools -> Nat]
    /\ usage \in [input : Nat, cached : Nat]
    /\ stopReason \in Contract!StopReasons \cup {"none"}
    /\ sawToolCalls \in BOOLEAN
    /\ errKind \in ErrorTypes \cup {"", "api_error"}
    /\ phase \in Contract!Phases
    /\ blocks \in Seq(Block)
    /\ stop \in Contract!StopReasons \cup {"none"}
    /\ reported \in [input : Nat, cached : Nat]

Init ==
    /\ upstream = "live"
    /\ sent = [s \in Sources |-> 0]
    /\ called = {}
    /\ callSkipped = FALSE
    /\ pc = "reading"
    /\ todo = <<>>
    /\ finish = ""
    /\ started = FALSE
    /\ curKind = "none"
    /\ curIndex = 0
    /\ nextIndex = 1
    /\ toolBlock = [t \in Tools |-> NoBlock]
    /\ usage = NoUsage
    /\ stopReason = "none"
    /\ sawToolCalls = FALSE
    /\ errKind = ""
    /\ phase = "waiting"
    /\ blocks = <<>>
    /\ stop = "none"
    /\ reported = NoUsage

-----------------------------------------------------------------------------
(* Reading a frame.                                                        *)

Reading == pc = "reading"

\* Mutant: a chunk with reasoning is taken to hold nothing else.
Handled_OneOf(c) ==
    CASE c = <<>> \/ c[1].src # Reasoning -> c
      [] c # <<>> /\ c[1].src = Reasoning -> IF Visible(Reasoning) THEN <<c[1]>> ELSE <<>>

\* The parts of a chunk that lead to output: reasoning comes first, if at all.
Handled(c) == IF c # <<>> /\ ~Visible(c[1].src) THEN Tail(c) ELSE c

\* translateUsage: cached tokens are counted apart from the input.
TranslateUsage(u) ==
    [input  |-> IF u.cached = 0 THEN u.input
                ELSE IF u.input > u.cached THEN u.input - u.cached ELSE 0,
     cached |-> u.cached]

\* A chunk: run to its end by the actions below, unless a write fails. What it
\* says of usage and of tool calls is recorded before anything is written.
ReadChunk(c, reason) ==
    /\ Reading
    /\ upstream = "live"
    /\ Truthful(reason, called \cup ToolsIn(c))
    /\ sent' = [s \in Sources |-> sent[s] + FragmentsOf(c, s)]
    /\ \A s \in Sources : sent'[s] <= MaxFragments[s]
    /\ called' = called \cup ToolsIn(c)
    /\ upstream' = IF reason # "" THEN "finished" ELSE "live"
    /\ pc' = "chunk"
    /\ todo' = Handled(c)
    /\ finish' = reason
    /\ sawToolCalls' = (sawToolCalls \/ ToolsIn(c) # {})
    /\ UNCHANGED <<callSkipped, blockVars, usage, stopReason, errKind, clientVars>>

\* A chunk that does not parse, with something of these tool calls in it: it is
\* skipped, and the loop goes on ("not worth killing the turn over").
SkipChunk(tools, reason) ==
    /\ Reading
    /\ upstream = "live"
    /\ Truthful(reason, called \cup tools)
    /\ called' = called \cup tools
    /\ callSkipped' = (callSkipped \/ tools # {})
    /\ upstream' = IF reason # "" THEN "finished" ELSE "live"
    /\ UNCHANGED <<sent, pc, todo, finish, blockVars, resultVars, clientVars>>

\* The chunk without choices that carries the usage, last of all.
ReadUsage(u) ==
    /\ Reading
    /\ upstream = "finished"
    /\ usage' = TranslateUsage(u)
    /\ pc' = "chunk"
    /\ todo' = <<>>
    /\ finish' = ""
    /\ UNCHANGED <<backendVars, blockVars, stopReason, sawToolCalls, errKind,
                   clientVars>>

\* Mutant: the sentinel ends the loop and the function with it.
ReadEnd_Returns ==
    /\ Reading
    /\ upstream' = "closed"
    /\ pc' = "returned"
    /\ UNCHANGED <<sent, called, callSkipped, todo, finish, blockVars, resultVars,
                   clientVars>>

\* [DONE], or the end of the body without it.
ReadEnd ==
    /\ Reading
    /\ upstream' = "closed"
    /\ pc' = "finish"
    /\ UNCHANGED <<sent, called, callSkipped, todo, finish, blockVars, resultVars,
                   clientVars>>

\* An error object in place of a chunk, or a body that breaks ("").
ReadFailure(type) ==
    /\ Reading
    /\ upstream' = "closed"
    /\ errKind' = IF type = "" THEN "api_error" ELSE type
    /\ pc' = "fail"
    /\ UNCHANGED <<sent, called, callSkipped, todo, finish, blockVars, usage,
                   stopReason, sawToolCalls, clientVars>>

-----------------------------------------------------------------------------
(* Writing                                                                 *)

\* ensureStarted
WriteMessageStart ==
    /\ pc \in {"chunk", "finish", "fail"}
    /\ ~started
    /\ started' = TRUE
    /\ phase' = "streaming"
    /\ UNCHANGED <<backendVars, pc, todo, finish, curKind, curIndex, nextIndex,
                   toolBlock, resultVars, blocks, stop, reported>>

\* The part of a chunk to handle next.
Part == Head(todo)

InPart == pc = "chunk" /\ started /\ todo # <<>>

\* openBlock and toolCall: a tool call needs a block of its own, reasoning and
\* content one of their kind.
NeedsBlock(s) ==
    IF s \in Tools THEN toolBlock[s] = NoBlock ELSE curKind # KindOf(s)

CloseAtClient(b) == blocks' = [blocks EXCEPT ![b].open = FALSE]

\* closeBlock: on behalf of the next part, of finish or of fail.
WriteBlockStop ==
    /\ \/ InPart /\ NeedsBlock(Part.src)
       \/ pc \in {"finish", "fail"} /\ started
    /\ curKind # "none"
    /\ curKind' = "none"
    /\ CloseAtClient(curIndex)
    /\ UNCHANGED <<backendVars, pc, todo, finish, started, curIndex, nextIndex,
                   toolBlock, resultVars, phase, stop, reported>>

OpenAtClientFor(s) ==
    blocks' = Append(blocks, [src |-> s, kind |-> KindOf(s),
                              open |-> TRUE, frags |-> <<>>, late |-> <<>>])

\* Mutant: openBlock does not close the block that is open.
WriteBlockStart_LeavesOpen ==
    /\ InPart
    /\ NeedsBlock(Part.src)
    /\ curKind' = KindOf(Part.src)
    /\ curIndex' = nextIndex
    /\ nextIndex' = nextIndex + 1
    /\ toolBlock' = [t \in Tools |-> IF t = Part.src THEN nextIndex ELSE toolBlock[t]]
    /\ OpenAtClientFor(Part.src)
    /\ UNCHANGED <<backendVars, pc, todo, finish, started, resultVars, phase, stop,
                   reported>>

\* Mutant: the block of a tool call is forgotten once another one is opened.
WriteBlockStart_ForgetsTools ==
    /\ InPart
    /\ NeedsBlock(Part.src)
    /\ curKind = "none"
    /\ curKind' = KindOf(Part.src)
    /\ curIndex' = nextIndex
    /\ nextIndex' = nextIndex + 1
    /\ toolBlock' = [t \in Tools |-> IF t = Part.src THEN nextIndex ELSE NoBlock]
    /\ OpenAtClientFor(Part.src)
    /\ UNCHANGED <<backendVars, pc, todo, finish, started, resultVars, phase, stop,
                   reported>>

\* openBlock, with the entry of toolCall for a tool call.
WriteBlockStart ==
    /\ InPart
    /\ NeedsBlock(Part.src)
    /\ curKind = "none"
    /\ curKind' = KindOf(Part.src)
    /\ curIndex' = nextIndex
    /\ nextIndex' = nextIndex + 1
    /\ toolBlock' = [t \in Tools |-> IF t = Part.src THEN nextIndex ELSE toolBlock[t]]
    /\ OpenAtClientFor(Part.src)
    /\ UNCHANGED <<backendVars, pc, todo, finish, started, resultVars, phase, stop,
                   reported>>

\* Mutant: every delta goes to the open block.
Target_Current(s) == curIndex

\* Arguments go to the recorded block of their tool call.
Target(s) == IF s \in Tools THEN toolBlock[s] ELSE curIndex

\* The client finds the block by its index.
ReceiveAtClient(b, f) ==
    blocks' = IF blocks[b].open THEN [blocks EXCEPT ![b].frags = Append(@, f)]
              ELSE [blocks EXCEPT ![b].late = Append(@, f)]

WriteDelta ==
    /\ InPart
    /\ ~NeedsBlock(Part.src)
    /\ Part.text
    /\ ReceiveAtClient(Target(Part.src),
                       [src |-> Part.src, type |-> DeltaType(Part.src)])
    /\ todo' = Tail(todo)
    /\ UNCHANGED <<backendVars, pc, finish, blockVars, resultVars, phase, stop,
                   reported>>

\* toolCall returns early when the fragment carries no arguments.
SkipEmptyArguments ==
    /\ InPart
    /\ ~NeedsBlock(Part.src)
    /\ ~Part.text
    /\ todo' = Tail(todo)
    /\ UNCHANGED <<backendVars, pc, finish, blockVars, resultVars, clientVars>>

\* Mutant: the upstream reason is passed on as it is.
TranslateStopReason_Verbatim(reason, hasToolCalls) == reason

TranslateStopReason(reason, hasToolCalls) ==
    CASE reason \in {"stop", "content_filter"} -> "end_turn"
      [] reason = "length" -> "max_tokens"
      [] reason \in {"tool_calls", "function_call"} -> "tool_use"
      [] reason \notin {"stop", "content_filter", "length", "tool_calls",
                        "function_call"} ->
            IF hasToolCalls THEN "tool_use" ELSE "end_turn"

\* The end of chunk().
ChunkDone ==
    /\ pc = "chunk"
    /\ started
    /\ todo = <<>>
    /\ pc' = "reading"
    /\ stopReason' = IF finish = "" THEN stopReason
                     ELSE TranslateStopReason(finish, sawToolCalls)
    /\ UNCHANGED <<backendVars, todo, finish, blockVars, usage, sawToolCalls,
                   errKind, clientVars>>

\* Mutant: no estimate stands in for a total of zero.
FinalUsage_NoFallback(u) == u

\* finish: the estimate stands in for a total of zero.
FinalUsage(u) ==
    [u EXCEPT !.input = IF u.input + u.cached = 0 THEN EstimatedInput ELSE @]

WriteMessageDelta ==
    /\ pc = "finish"
    /\ started
    /\ curKind = "none"
    /\ pc' = "stop"
    /\ stop' = IF stopReason = "none" THEN "end_turn" ELSE stopReason
    /\ reported' = FinalUsage(usage)
    /\ phase' = "settled"
    /\ UNCHANGED <<backendVars, todo, finish, blockVars, resultVars, blocks>>

WriteMessageStop ==
    /\ pc = "stop"
    /\ pc' = "returned"
    /\ phase' = "stopped"
    /\ UNCHANGED <<backendVars, todo, finish, blockVars, resultVars, blocks, stop,
                   reported>>

\* fail
WriteError ==
    /\ pc = "fail"
    /\ started
    /\ curKind = "none"
    /\ pc' = "returned"
    /\ phase' = "errored"
    /\ UNCHANGED <<backendVars, todo, finish, blockVars, resultVars, blocks, stop,
                   reported>>

\* A write fails: the error is sticky, and the loop returns it. What the code sets
\* before it writes is left as it was: nothing reads it any more.
WriteFails ==
    /\ pc \in Working
    /\ pc' = "returned"
    /\ phase' = "cut"
    /\ UNCHANGED <<backendVars, todo, finish, blockVars, resultVars, blocks, stop,
                   reported>>

\* The request is over.
Done ==
    /\ pc = "returned"
    /\ UNCHANGED vars

-----------------------------------------------------------------------------
Read ==
    \/ \E c \in Chunks, reason \in FinishReasons \cup {""} : ReadChunk(c, reason)
    \/ \E tools \in SUBSET Tools, reason \in FinishReasons \cup {""} :
          SkipChunk(tools, reason)
    \/ \E u \in Usages : ReadUsage(u)
    \/ ReadEnd
    \/ \E type \in ErrorTypes \cup {""} : ReadFailure(type)

Write ==
    \/ WriteMessageStart
    \/ WriteBlockStop
    \/ WriteBlockStart
    \/ WriteDelta
    \/ SkipEmptyArguments
    \/ ChunkDone
    \/ WriteMessageDelta
    \/ WriteMessageStop
    \/ WriteError
    \/ WriteFails

Next == Read \/ Write \/ Done

Spec == Init /\ [][Next]_vars

\* The translator's goroutine is scheduled; the backend may fall silent.
FairSpec == Spec /\ WF_vars(Write)

-----------------------------------------------------------------------------
(* Properties                                                              *)

\* Every fragment is addressed to the block of its own source and fits its
\* kind, in whatever order the tool calls' arguments arrive (toolCall: "Arguments
\* for an earlier tool call can interleave").
FragmentsInOwnBlock ==
    \A b \in DOMAIN blocks :
        \A frags \in {blocks[b].frags, blocks[b].late} : \A n \in DOMAIN frags :
            /\ frags[n].src = blocks[b].src
            /\ frags[n].type \in Contract!DeltasOf(blocks[b].kind)

\* A tool call never appears twice: the client would run it twice, under one id.
OneBlockPerToolCall ==
    \A b, c \in DOMAIN blocks :
        blocks[b].src \in Tools /\ blocks[b].src = blocks[c].src => b = c

\* The places of the fragments of s at the client.
Received(s) ==
    UNION {{<<b, "frags", n>> : n \in {m \in DOMAIN blocks[b].frags :
                                          blocks[b].frags[m].src = s}} \cup
           {<<b, "late", n>> : n \in {m \in DOMAIN blocks[b].late :
                                         blocks[b].late[m].src = s}} :
           b \in DOMAIN blocks}

\* Whenever the translator waits for a frame, the client holds every visible
\* fragment read so far.
NothingLost ==
    pc = "reading" =>
        \A s \in Sources : Visible(s) => Cardinality(Received(s)) = sent[s]

\* Given a finish_reason, stop_reason tells the client to run tools exactly when
\* the response holds a tool call, unless it was cut short by its length or by a
\* chunk of a tool call that did not parse.
StopReasonMatchesContent ==
    /\ phase \in {"settled", "stopped"}
    /\ stopReason \notin {"none", "max_tokens"}
    /\ ~callSkipped
    => (stop = "tool_use") <=> \E b \in DOMAIN blocks : blocks[b].kind = "tool_use"

\* The client is never told that no context is in use when an estimate exists,
\* and is told the total the backend reports when it is consistent.
UsageIsReal ==
    phase \in {"settled", "stopped"} =>
        /\ EstimatedInput > 0 => reported.input + reported.cached > 0
        /\ \E u \in Usages \cup {NoUsage} :
              /\ usage = TranslateUsage(u)
              /\ u.input > 0 /\ u.cached <= u.input =>
                    reported.input + reported.cached = u.input

\* What the client is told at the end is what it was sent.
ReportIsTrue == StopReasonMatchesContent /\ UsageIsReal

\* Late fragments apart, the translator implements the contract of a streamed
\* response, with one block open at a time.
ImplementsContract == Contract!Spec

\* Once the upstream stream has ended or broken, the client is told, unless it
\* has gone.
EveryResponseEnds ==
    upstream = "closed" ~> phase \in {"stopped", "errored", "cut"}

=============================================================================
