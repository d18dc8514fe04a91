---------------------------- MODULE CodexRequest ----------------------------
(***************************************************************************)
(* What TranslateRequest makes of a conversation for the Codex backend: a  *)
(* flat list of items, and the tools it is offered.                        *)
(*                                                                         *)
(* An item has the ids of the blocks it was made of, one except for a      *)
(* message.                                                                *)
(***************************************************************************)
EXTENDS ThinkingHistory, FiniteSets

CONSTANT DropPlanTools    \* are Claude Code's plan-mode tools withheld?

PlanTools == {"EnterPlanMode", "ExitPlanMode"}

ItemTypes == {"reasoning", "message", "function_call", "function_call_output"}
Item == [type : ItemTypes, role : Roles \cup {""}, ids : Seq(Nat)]

ItemFor(type, b) == [type |-> type, role |-> "", ids |-> <<b.id>>]

\* toolResultText keeps the text of a result; its images are lost.
ToolResults(content) ==
    LET results == Of("tool_result", content)
    IN  [i \in DOMAIN results |-> ItemFor("function_call_output", results[i])]

\* All the reasoning first, then the texts in one message, then the calls.
assistantItems(content) ==
    LET replayed == Select(content, LAMBDA b : /\ b.type = "thinking"
                                               /\ DecodeReasoning(b.signature))
        texts == Of("text", content)
        calls == Of("tool_use", content)
    IN  [i \in DOMAIN replayed |-> ItemFor("reasoning", replayed[i])]
        \o (IF texts = <<>> THEN <<>>
            ELSE <<[type |-> "message", role |-> "assistant", ids |-> Ids(texts)]>>)
        \o [i \in DOMAIN calls |-> ItemFor("function_call", calls[i])]

\* Text and images; a document is no case of the switch.
userMessage(content) ==
    LET parts == Select(content, LAMBDA b : b.type \in {"text", "image"})
    IN  IF parts = <<>> THEN <<>>
        ELSE <<[type |-> "message", role |-> "user", ids |-> Ids(parts)]>>

\* Mutant: a user message with results has nothing else.
translateMessage_ResultsOnly(m) ==
    IF Of("tool_result", m.content) # <<>> THEN ToolResults(m.content)
    ELSE IF m.role = "assistant" THEN assistantItems(m.content) ELSE userMessage(m.content)

translateMessage(m) ==
    ToolResults(m.content)
    \o (IF m.role = "assistant" THEN assistantItems(m.content) ELSE userMessage(m.content))

OfferedTools(tools) ==
    {t \in tools : ~(DropPlanTools /\ t.name \in PlanTools) /\ t.schema}

\* The Responses request has no field for the output cap.
TranslateRequest(messages, tools, maxTokens) ==
    [messages  |-> FlattenSeq([i \in DOMAIN messages |-> translateMessage(messages[i])]),
     tools     |-> OfferedTools(tools),
     maxTokens |-> 0]

-----------------------------------------------------------------------------
(* And back: the blocks the stream translator makes of a response's items  *)
(* (CodexStream has its events). An answer is a sequence of items, of      *)
(* which a reasoning item may come with encrypted content ("minted").      *)

BlockOf(kind, id) ==
    CASE kind = "minted"    -> [type |-> "thinking", id |-> id,
                                signature |-> EncodeReasoning(TRUE)]
      [] kind = "reasoning" -> [type |-> "thinking", id |-> id,
                                signature |-> EncodeReasoning(FALSE)]
      [] kind = "text"      -> [type |-> "text", id |-> id, signature |-> NoSignature]
      [] kind = "call"      -> [type |-> "tool_use", id |-> id, signature |-> NoSignature]

=============================================================================
