----------------------------- MODULE ChatRequest -----------------------------
(***************************************************************************)
(* What TranslateRequest makes of a conversation for an OpenAI-compatible  *)
(* backend: chat messages, the tools it is offered and its output cap; and *)
(* what TranslateResponse makes of a completion that is not streamed.      *)
(*                                                                         *)
(* A chat message has the ids of its text and image parts, or of the       *)
(* result it holds, and the ids of its calls.                              *)
(***************************************************************************)
EXTENDS ThinkingHistory, FiniteSets

CONSTANTS
    DropPlanTools,    \* are Claude Code's plan-mode tools withheld?
    MaxTokensCap      \* the provider's output cap; 0 means no clamp

PlanTools == {"EnterPlanMode", "ExitPlanMode"}

ChatMsg == [role : {"user", "assistant", "tool"}, ids : Seq(Nat), calls : Seq(Nat)]

\* A tool message per result, ahead of the rest of the message.
ToolMessages(content) ==
    LET results == Of("tool_result", content)
    IN  [i \in DOMAIN results |->
            [role |-> "tool", ids |-> <<results[i].id>>, calls |-> <<>>]]

\* Thinking of any kind stays behind; a message left empty is not sent.
assistantMessage(content) ==
    LET msg == [role  |-> "assistant", ids |-> Ids(Of("text", content)),
                calls |-> Ids(Of("tool_use", content))]
    IN  IF msg.ids = <<>> /\ msg.calls = <<>> THEN <<>> ELSE <<msg>>

\* Text and images; a document is no case of the switch.
userMessage(content) ==
    LET parts == Select(content, LAMBDA b : b.type \in {"text", "image"})
    IN  IF parts = <<>> THEN <<>>
        ELSE <<[role |-> "user", ids |-> Ids(parts), calls |-> <<>>]>>

\* Mutant: the rest of the message goes ahead of its results.
translateMessage_ResultsLast(m) ==
    (IF m.role = "assistant" THEN assistantMessage(m.content) ELSE userMessage(m.content))
    \o ToolMessages(m.content)

translateMessage(m) ==
    ToolMessages(m.content)
    \o (IF m.role = "assistant" THEN assistantMessage(m.content) ELSE userMessage(m.content))

\* A request with no cap of its own gets the provider's.
Clamp(maxTokens, cap) ==
    IF cap > 0 /\ (maxTokens = 0 \/ maxTokens > cap) THEN cap ELSE maxTokens

OfferedTools(tools) ==
    {t \in tools : t.schema /\ ~(DropPlanTools /\ t.name \in PlanTools)}

TranslateRequest(messages, tools, maxTokens) ==
    [messages  |-> FlattenSeq([i \in DOMAIN messages |-> translateMessage(messages[i])]),
     tools     |-> OfferedTools(tools),
     maxTokens |-> Clamp(maxTokens, MaxTokensCap)]

-----------------------------------------------------------------------------
(* And back. The choice of a completion has or has not reasoning and text, *)
(* and some calls; its blocks are numbered from first.                     *)

Choice == [reasoning : BOOLEAN, text : BOOLEAN, calls : Nat]

TranslateResponse(choice, first) ==
    LET types == (IF choice.reasoning THEN <<"thinking">> ELSE <<>>)
                 \o (IF choice.text THEN <<"text">> ELSE <<>>)
                 \o [c \in 1 .. choice.calls |-> "tool_use"]
    IN  [i \in DOMAIN types |->
            [type |-> types[i], id |-> first + i - 1, signature |-> NoSignature]]

=============================================================================
