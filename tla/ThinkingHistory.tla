--------------------------- MODULE ThinkingHistory ---------------------------
(***************************************************************************)
(* The content of a conversation as Claude Code keeps and replays it, the  *)
(* signature of a thinking block, and StripUnsignedThinking.               *)
(*                                                                         *)
(* A block is told apart by its id, a number no other block of the         *)
(* conversation has; a tool_result has the id of the call it answers. Text *)
(* and arguments are left out.                                             *)
(***************************************************************************)
EXTENDS Naturals, Sequences, SequencesExt

Roles == {"user", "assistant"}

BlockTypes == {"text", "image", "document", "tool_use", "tool_result",
               "thinking", "redacted_thinking"}

\* The signatures a thinking block may carry: none, Anthropic's own, a third
\* party's, and a gateway's, which holds the encrypted reasoning of a Codex item;
\* nothing in it says which gateway.
NoSignature       == ""
AnthropicSigned   == "anthropic"
ForeignSigned     == "foreign"
CodexSigned       == "ccgw:codex:v1"
GatewaySignatures == {CodexSigned}
Signatures        == {NoSignature, AnthropicSigned, ForeignSigned} \cup GatewaySignatures

Block   == [type : BlockTypes, id : Nat, signature : Signatures]
Message == [role : Roles, content : Seq(Block)]

\* SelectSeq, in a form that theorems can be proved about.
Select(s, Test(_)) ==
    FlattenSeq([i \in DOMAIN s |-> IF Test(s[i]) THEN <<s[i]>> ELSE <<>>])

Of(type, content) == Select(content, LAMBDA b : b.type = type)

Ids(blocks) == [i \in DOMAIN blocks |-> blocks[i].id]

\* All the blocks of a history, in order.
Blocks(messages) == FlattenSeq([i \in DOMAIN messages |-> messages[i].content])

IsReasoning(b) == b.type \in {"thinking", "redacted_thinking"}

-----------------------------------------------------------------------------
(* Signatures                                                              *)

\* A Codex item without encrypted content gets no signature.
EncodeReasoning(encrypted) == IF encrypted THEN CodexSigned ELSE NoSignature

\* Mutant: any signature is taken for the gateway's own.
DecodeReasoning_AnySignature(signature) == signature # NoSignature

\* Whether a signature is one EncodeReasoning wrote, here or in another gateway.
DecodeReasoning(signature) == signature = CodexSigned

-----------------------------------------------------------------------------
(* On the way to Anthropic                                                 *)

\* Mutant: a signature of the gateway's passes for Anthropic's.
isUnsignedThinking_NoSignatureOnly(b) ==
    b.type = "thinking" /\ b.signature = NoSignature

isUnsignedThinking(b) ==
    /\ b.type = "thinking"
    /\ b.signature \in {NoSignature} \cup GatewaySignatures

\* "(thinking omitted)", the text that stands in for a message stripped bare.
Placeholder == [type |-> "text", id |-> 0, signature |-> NoSignature]

StripMessage(m) ==
    LET kept == Select(m.content, LAMBDA b : ~isUnsignedThinking(b))
    IN  [m EXCEPT !.content = IF kept = <<>> /\ m.content # <<>>
                              THEN <<Placeholder>> ELSE kept]

StripUnsignedThinking(messages) ==
    [i \in DOMAIN messages |-> StripMessage(messages[i])]

=============================================================================
