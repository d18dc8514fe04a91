---------------------------- MODULE Conversation ----------------------------
(***************************************************************************)
(* One conversation through the gateway: Claude Code replays its whole     *)
(* history with every request, the user may change model between any two   *)
(* turns, and handleMessages and handleCountTokens decide what of the      *)
(* history each backend is sent.                                           *)
(*                                                                         *)
(* There is one model behind each backend: "anthropic", "codex", "chat"    *)
(* (an openai provider) and "compat" (an anthropic-compatible one). The    *)
(* router's choice among models is modelled in ModelPicker, the streaming  *)
(* of an answer in CodexStream and OpenAIStream; here an answer is the     *)
(* content it leaves in the history.                                       *)
(***************************************************************************)
EXTENDS ThinkingHistory, ErrorRelay, FiniteSets

CONSTANTS
    Shapes,           \* what a user message may hold, in order
    Answers,          \* what each backend may answer
    Tools,            \* the tools of every request: [name, schema]
    DropPlanTools,    \* keep_plan_tools is false
    AskedTokens,      \* the max_tokens Claude Code may ask for
    ModelMaxTokens,   \* the model's max_tokens; 0 means no clamp
    MaxTokensCap,     \* the chat provider's max_tokens_cap; 0 means no clamp
    OAuth,            \* is Claude Code's credential a subscription token?
    AddBetas,         \* anthropic.add_betas
    Failures,         \* what an upstream may fail with: [status, retryAfter]
    MaxTurns          \* bound on the answers in a history

Backends == {"anthropic", "codex", "chat", "compat"}

Codex == INSTANCE CodexRequest
Chat  == INSTANCE ChatRequest

\* What a user message is made of, and an answer of each backend but "chat".
\* Anthropic seals its thinking, a gateway mints a signature for Codex's, and a
\* compatible endpoint relays whatever there is behind it: Anthropic's, Codex's by
\* way of another gateway, a third party's with or without a signature.
PartKinds == {"results", "text", "image", "document"}
Kinds == [anthropic |-> {"sealed", "redacted", "text", "call"},
          codex     |-> {"minted", "reasoning", "text", "call"},
          compat    |-> {"sealed", "redacted", "minted", "foreign", "reasoning",
                         "text", "call"}]

ASSUME ConversationAssumption ==
    /\ Shapes \subseteq Seq(PartKinds) \ {<<>>}
    /\ \A shape \in Shapes : \A i, j \in DOMAIN shape :
          shape[i] = "results" /\ shape[j] = "results" => i = j
    /\ \A b \in DOMAIN Kinds : Answers[b] \subseteq Seq(Kinds[b])
    /\ Answers["chat"] \subseteq Chat!Choice
    /\ AskedTokens \subseteq Nat /\ ModelMaxTokens \in Nat /\ MaxTokensCap \in Nat
    /\ \A f \in Failures : /\ f.status \in Nat
                            /\ f.retryAfter.form \in HeaderForms
                            /\ f.retryAfter.secs \in Int
    /\ MaxTurns \in Nat

VARIABLES
    history,   \* the messages Claude Code replays
    minted,    \* per answer in the history: the reasoning in it that each of
               \* Anthropic and Codex has signed
    request,   \* the request being served
    wire,      \* what its upstream was sent
    reply      \* the error the last request got, if it got one

vars == <<history, minted, request, wire, reply>>

None == [to |-> "none"]

Operations == {"messages", "count_tokens"}

Init ==
    /\ history = <<>> /\ minted = <<>>
    /\ request = None /\ wire = None /\ reply = None

-----------------------------------------------------------------------------
(* Claude Code                                                             *)

Fresh == Len(Blocks(history)) + 1

Pending == IF history = <<>> THEN <<>>
           ELSE Of("tool_use", history[Len(history)].content)

UserPart(kind, id) == [type |-> kind, id |-> id, signature |-> NoSignature]

\* The parts of a user message; "results" answers every call of the last answer.
UserContent(shape) ==
    FlattenSeq([i \in DOMAIN shape |->
        IF shape[i] = "results"
        THEN [c \in DOMAIN Pending |-> UserPart("tool_result", Pending[c].id)]
        ELSE <<UserPart(shape[i], Fresh + i - 1)>>])

AwaitsUser == Len(history) % 2 = 0

Prompt(shape) ==
    /\ request = None /\ AwaitsUser /\ Len(minted) < MaxTurns
    /\ Pending # <<>> <=> \E i \in DOMAIN shape : shape[i] = "results"
    /\ history' = Append(history, [role |-> "user", content |-> UserContent(shape)])
    /\ reply' = None
    /\ UNCHANGED <<minted, request, wire>>

\* A first request, a retry after an error, or the same history to another model.
Send(to, op, maxTokens) ==
    /\ request = None /\ ~AwaitsUser
    /\ request' = [to |-> to, op |-> op, maxTokens |-> maxTokens]
    /\ reply' = None
    /\ UNCHANGED <<history, minted, wire>>

\* Mutant: the last answer of the history kept is counted as gone.
Rewind_OneTooMany(k) ==
    /\ request = None
    /\ history' = SubSeq(history, 1, 2 * k)
    /\ minted' = SubSeq(minted, 1, k - 1)
    /\ reply' = None
    /\ UNCHANGED <<request, wire>>

\* Back to just after the answer of turn k.
Rewind(k) ==
    /\ request = None
    /\ history' = SubSeq(history, 1, 2 * k)
    /\ minted' = SubSeq(minted, 1, k)
    /\ reply' = None
    /\ UNCHANGED <<request, wire>>

\* The request's context ends, and the upstream request with it.
HangUp ==
    /\ request # None
    /\ request' = None /\ wire' = None
    /\ UNCHANGED <<history, minted, reply>>

-----------------------------------------------------------------------------
(* The gateway                                                             *)

OAuthBeta == "oauth-2025-04-20"

\* The pass-through's rewrite: the caller's credential is left in place.
rewrite == AddBetas \cup (IF OAuth THEN {OAuthBeta} ELSE {})

Forward(body, betas) ==
    wire' = [to        |-> request.to,
             op        |-> request.op,
             messages  |-> body.messages,
             tools     |-> body.tools,
             maxTokens |-> body.maxTokens,
             betas     |-> betas]

Raw == [messages |-> history, tools |-> Tools, maxTokens |-> request.maxTokens]

filterPlanTools(tools) ==
    {t \in tools : ~(DropPlanTools /\ t.name \in Chat!PlanTools)}

\* An anthropic-compatible backend gets the body as it came, but for the tools.
rewriteBody(body) == [body EXCEPT !.tools = filterPlanTools(@)]

\* The model's cap is applied to the decoded request, not to the raw body.
ModelCapped == Chat!Clamp(request.maxTokens, ModelMaxTokens)

Idle(op) == request # None /\ request.op = op /\ wire = None

MessagesToAnthropic ==
    /\ Idle("messages") /\ request.to = "anthropic"
    /\ Forward([Raw EXCEPT !.messages = StripUnsignedThinking(@)], rewrite)
    /\ UNCHANGED <<history, minted, request, reply>>

MessagesToCodex ==
    /\ Idle("messages") /\ request.to = "codex"
    /\ Forward(Codex!TranslateRequest(history, Tools, ModelCapped), {})
    /\ UNCHANGED <<history, minted, request, reply>>

MessagesToChat ==
    /\ Idle("messages") /\ request.to = "chat"
    /\ Forward(Chat!TranslateRequest(history, Tools, ModelCapped), {})
    /\ UNCHANGED <<history, minted, request, reply>>

MessagesToCompat ==
    /\ Idle("messages") /\ request.to = "compat"
    /\ Forward(rewriteBody(Raw), {})
    /\ UNCHANGED <<history, minted, request, reply>>

\* An endpoint that speaks the protocol counts for itself, on the body as it came.
CountUpstream ==
    /\ Idle("count_tokens") /\ request.to \in {"anthropic", "compat"}
    /\ IF request.to = "compat" THEN Forward(rewriteBody(Raw), {})
                                ELSE Forward(Raw, rewrite)
    /\ UNCHANGED <<history, minted, request, reply>>

EstimateTokens ==
    /\ Idle("count_tokens") /\ request.to \in {"codex", "chat"}
    /\ request' = None
    /\ UNCHANGED <<history, minted, wire, reply>>

Finish(error) ==
    /\ request' = None /\ wire' = None
    /\ reply' = [to |-> request.to, error |-> error]
    /\ UNCHANGED <<history, minted>>

\* The Codex credential could not be had (CodexAuth).
NoToken ==
    /\ Idle("messages") /\ request.to = "codex"
    /\ Finish(ErrorReply(401, "authentication_error", NoRetryAfter))

\* The upstream cannot be reached, or its completion does not decode.
Unreachable ==
    /\ wire # None
    /\ Finish(ErrorReply(502, "api_error", NoRetryAfter))

\* Two backends translate an upstream's error; the proxies copy it.
Refused(f) ==
    /\ wire # None
    /\ Finish(CASE request.to = "codex" -> CodexRelayError(f.status, f.retryAfter)
                [] request.to = "chat"  -> ChatRelayError(f.status, f.retryAfter)
                [] OTHER -> ErrorReply(f.status, anthropicErrorKind(f.status),
                                       f.retryAfter.secs))

-----------------------------------------------------------------------------
(* The upstreams' answers                                                  *)

ProxiedBlock(kind, id) ==
    CASE kind = "sealed" ->
           [type |-> "thinking", id |-> id, signature |-> AnthropicSigned]
      [] kind = "redacted" ->
           [type |-> "redacted_thinking", id |-> id, signature |-> NoSignature]
      [] kind = "minted" ->
           [type |-> "thinking", id |-> id, signature |-> CodexSigned]
      [] kind = "foreign" ->
           [type |-> "thinking", id |-> id, signature |-> ForeignSigned]
      [] kind = "reasoning" ->
           [type |-> "thinking", id |-> id, signature |-> NoSignature]
      [] kind = "text" -> [type |-> "text", id |-> id, signature |-> NoSignature]
      [] kind = "call" -> [type |-> "tool_use", id |-> id, signature |-> NoSignature]

ContentOf(b, answer) ==
    CASE b = "chat"  -> Chat!TranslateResponse(answer, Fresh)
      [] b = "codex" -> [i \in DOMAIN answer |-> Codex!BlockOf(answer[i], Fresh + i - 1)]
      [] OTHER       -> [i \in DOMAIN answer |-> ProxiedBlock(answer[i], Fresh + i - 1)]

\* The reasoning of an answer that Anthropic and Codex can use again, each its own;
\* a chat completion has none.
Reusable == [anthropic |-> {"sealed", "redacted"}, codex |-> {"minted"}]

Keepers == DOMAIN Reusable

SignedBy(k, answer) ==
    Ids(Select([i \in DOMAIN answer |-> [kind |-> answer[i], id |-> Fresh + i - 1]],
               LAMBDA x : x.kind \in Reusable[k]))

Gave(b, answer) ==
    [k \in Keepers |-> IF b = "chat" THEN <<>> ELSE SignedBy(k, answer)]

Answer(answer) ==
    /\ wire # None /\ wire.op = "messages"
    /\ history' = Append(history, [role    |-> "assistant",
                                   content |-> ContentOf(wire.to, answer)])
    /\ minted' = Append(minted, Gave(wire.to, answer))
    /\ request' = None /\ wire' = None
    /\ UNCHANGED reply

Counted ==
    /\ wire # None /\ wire.op = "count_tokens"
    /\ request' = None /\ wire' = None
    /\ UNCHANGED <<history, minted, reply>>

Next ==
    \/ \E shape \in Shapes : Prompt(shape)
    \/ \E to \in Backends, n \in AskedTokens : Send(to, "messages", n)
    \/ \E to \in Backends : Send(to, "count_tokens", 0)
    \/ \E k \in 0 .. Len(minted) - 1 : Rewind(k)
    \/ HangUp
    \/ MessagesToAnthropic \/ MessagesToCodex \/ MessagesToChat \/ MessagesToCompat
    \/ CountUpstream \/ EstimateTokens
    \/ NoToken \/ Unreachable \/ \E f \in Failures : Refused(f)
    \/ \E b \in Backends : \E answer \in Answers[b] : request.to = b /\ Answer(answer)
    \/ Counted

Spec == Init /\ [][Next]_vars

-----------------------------------------------------------------------------
(* Type correctness                                                        *)

\* The history alternates between user and assistant and is made of blocks, a
\* request is one of the endpoints', and an upstream has only been sent
\* something while its request is being served (server.go's handlers).
TypeOK ==
    /\ \A i \in DOMAIN history :
          /\ history[i].role = IF i % 2 = 1 THEN "user" ELSE "assistant"
          /\ \A j \in DOMAIN history[i].content : history[i].content[j] \in Block
    /\ Len(minted) = Len(history) \div 2
    /\ request # None => /\ request.to \in Backends
                         /\ request.op \in Operations
                         /\ request.maxTokens \in AskedTokens \cup {0}
    /\ wire # None => /\ wire.to = request.to /\ wire.op = request.op
                      /\ wire.tools \subseteq Tools
    /\ reply # None => reply.to \in Backends

-----------------------------------------------------------------------------
(* Reasoning                                                               *)

Asked(b) == wire # None /\ wire.op = "messages" /\ wire.to = b

\* Reasoning no third party has signed.
NotForeign(b) == IsReasoning(b) /\ b.signature # ForeignSigned

\* The reasoning a request shows its upstream, but for third parties' on its way to
\* Anthropic: the gateway cannot tell their signatures from Anthropic's.
Shown ==
    CASE Asked("anthropic") ->
           [to |-> "anthropic",
            reasoning |-> Ids(Select(Blocks(wire.messages), NotForeign))]
      [] Asked("codex") ->
           LET items == Of("reasoning", wire.messages)
           IN  [to |-> "codex",
                reasoning |-> FlattenSeq([i \in DOMAIN items |-> items[i].ids])]
      [] OTHER -> [to |-> "", reasoning |-> <<>>]

Store == INSTANCE SessionStore WITH turns <- minted, shown <- Shown

\* Whatever models answered in between, retries and rewinds included, Anthropic
\* and Codex are each shown all the reasoning of the conversation that bears their
\* signature, in order and whoever relayed it, and neither is shown the other's or
\* any without a signature: the stateless gateway implements a session store. Codex
\* is shown nothing else, but what another gateway minted counts as its own;
\* Anthropic gets third parties' signed thinking besides (the signature Codex
\* reasoning travels in, reasoning.go and request.go; the strip, thinking.go).
ImplementsSessionStore == Store!Spec

-----------------------------------------------------------------------------
(* What upstreams are sent                                                 *)

\* On its way to Anthropic a messages request has no thinking without a signature
\* and none that a gateway signed, wherever it came from, for Anthropic would answer
\* with a 400; the strip has emptied no message, which Anthropic refuses too; and a
\* subscription token comes with the beta it is only accepted with
\* (thinking.go:16-50, anthropicpass.go:79-85). A third party's signature passes.
CleanForAnthropic ==
    Asked("anthropic") =>
        /\ \A i \in DOMAIN wire.messages :
              /\ history[i].content # <<>> => wire.messages[i].content # <<>>
              /\ \A j \in DOMAIN wire.messages[i].content :
                    LET b == wire.messages[i].content[j]
                    IN  b.type = "thinking" =>
                           b.signature \in {AnthropicSigned, ForeignSigned}
        /\ OAuth => OAuthBeta \in wire.betas

IdsOf(type, messages) == Ids(Of(type, Blocks(messages)))

\* Nothing the user or a model said goes missing on the way: a translated request
\* has every text, image, call and result of the history in its order (documents
\* are left behind), and a forwarded one differs from the history by unsigned and
\* minted thinking and the placeholder alone, not at all without any, so that
\* the prompt cache still fits (request.go's translateMessage in both
\* translators, StripUnsignedThinking, rewriteBody).
ContentKept ==
    /\ Asked("codex") =>
          LET Type(types) == FlattenSeq([i \in DOMAIN wire.messages |->
                                 IF wire.messages[i].type \in types
                                 THEN wire.messages[i].ids ELSE <<>>])
          IN  /\ Type({"message"}) =
                    Ids(Select(Blocks(history), LAMBDA b : b.type \in {"text", "image"}))
              /\ Type({"function_call"}) = IdsOf("tool_use", history)
              /\ Type({"function_call_output"}) = IdsOf("tool_result", history)
    /\ Asked("chat") =>
          LET Role(roles) == FlattenSeq([i \in DOMAIN wire.messages |->
                                 IF wire.messages[i].role \in roles
                                 THEN wire.messages[i].ids ELSE <<>>])
          IN  /\ Role({"user", "assistant"}) =
                    Ids(Select(Blocks(history), LAMBDA b : b.type \in {"text", "image"}))
              /\ Role({"tool"}) = IdsOf("tool_result", history)
              /\ FlattenSeq([i \in DOMAIN wire.messages |-> wire.messages[i].calls])
                    = IdsOf("tool_use", history)
    /\ Asked("anthropic") =>
          LET native(messages) == Select(Blocks(messages),
                                         LAMBDA b : /\ b # Placeholder
                                                    /\ ~isUnsignedThinking(b))
          IN  /\ Len(wire.messages) = Len(history)
              /\ native(wire.messages) = native(history)
              /\ Select(Blocks(history), isUnsignedThinking) = <<>> =>
                    wire.messages = history
    /\ Asked("compat") => wire.messages = history

\* A protocol Claude Code does not speak still gets its calls answered: each
\* result comes after its call, each call has exactly one result and no user
\* message comes between the two; for a chat backend the results follow the
\* message with the calls directly (request.go:176-177, codex/request.go:144).
CallsAnswered ==
    /\ Asked("codex") =>
          \A i \in DOMAIN wire.messages :
             LET it == wire.messages[i]
                 Answering(j) == /\ wire.messages[j].type = "function_call_output"
                                 /\ wire.messages[j].ids = it.ids
             IN  /\ it.type = "function_call" =>
                       \E j \in i + 1 .. Len(wire.messages) :
                          /\ Answering(j)
                          /\ \A n \in DOMAIN wire.messages : Answering(n) => n = j
                          /\ \A n \in i .. j : wire.messages[n].role # "user"
                 /\ it.type = "function_call_output" =>
                       \E j \in 1 .. i - 1 : /\ wire.messages[j].type = "function_call"
                                             /\ wire.messages[j].ids = it.ids
    /\ Asked("chat") =>
          LET msgs == wire.messages
              Tool(j) == j \in DOMAIN msgs /\ msgs[j].role = "tool"
          IN  /\ \A i \in DOMAIN msgs : \A n \in DOMAIN msgs[i].calls :
                    Tool(i + n) /\ msgs[i + n].ids = <<msgs[i].calls[n]>>
              /\ \A j \in DOMAIN msgs : Tool(j) =>
                    \E i \in 1 .. j - 1 : j - i \in DOMAIN msgs[i].calls
    /\ Asked("anthropic") \/ Asked("compat") =>
          \A i \in DOMAIN wire.messages :
             Of("tool_use", wire.messages[i].content) # <<>> =>
                /\ i < Len(wire.messages)
                /\ Ids(Of("tool_result", wire.messages[i + 1].content))
                      = Ids(Of("tool_use", wire.messages[i].content))

-----------------------------------------------------------------------------
(* What Claude Code is told                                                *)

ErrorTypes == {"invalid_request_error", "authentication_error", "permission_error",
               "not_found_error", "request_too_large", "rate_limit_error",
               "overloaded_error", "api_error"}

\* An error the gateway made or translated has a type of Anthropic's vocabulary,
\* one that can pass when the status is one that can, and asks for a wait of at
\* most a minute, beyond which Claude Code gives up the turn (relayError and
\* clampRetryAfter in both clients).
ErrorsUnderstood ==
    reply # None /\ reply.to \in {"codex", "chat"} =>
        LET e == reply.error
        IN  /\ e.kind \in ErrorTypes
            /\ e.status = 429 \/ e.status >= 500 =>
                  e.kind \in {"rate_limit_error", "overloaded_error", "api_error"}
            /\ e.retryAfter \in {NoRetryAfter} \cup 0 .. 60

=============================================================================
