-------------------------- MODULE ConversationProofs --------------------------
(***************************************************************************)
(* Theorems about Conversation, for any messages, answers, models and      *)
(* number of turns.                                                        *)
(***************************************************************************)
EXTENDS Conversation, FlatMaps

-----------------------------------------------------------------------------
(* Errors                                                                  *)

\* An error Claude Code can classify and wait for.
Understood(e) ==
    /\ e.kind \in ErrorTypes
    /\ e.status = 429 \/ e.status >= 500 =>
          e.kind \in {"rate_limit_error", "overloaded_error", "api_error"}
    /\ e.retryAfter \in {NoRetryAfter} \cup 0 .. 60

\* Every status has a type of the vocabulary, one that can pass if it can.
LEMMA KindFits ==
    ASSUME NEW status \in Nat
    PROVE  /\ anthropicErrorKind(status) \in ErrorTypes
           /\ status = 429 \/ status >= 500 =>
                 anthropicErrorKind(status)
                    \in {"rate_limit_error", "overloaded_error", "api_error"}
<1>1. CASE status \in {400, 401, 403, 404, 413, 429, 529}
  BY <1>1 DEF anthropicErrorKind, ErrorTypes
<1>2. CASE status \notin {400, 401, 403, 404, 413, 429, 529}
  <2>1. anthropicErrorKind(status) = "api_error"
    BY <1>2 DEF anthropicErrorKind
  <2> QED
    BY <2>1 DEF ErrorTypes
<1> QED
  BY <1>1, <1>2

\* No wait is negative or longer than a minute.
LEMMA WaitsAreBounded ==
    ASSUME NEW secs \in Int
    PROVE  Capped(secs) \in {NoRetryAfter} \cup 0 .. 60
BY DEF Capped, NoRetryAfter, MaxRetryAfterSeconds

\* Both relays make an error Claude Code understands of whatever came.
LEMMA RelaysUnderstood ==
    ASSUME NEW f \in Failures
    PROVE  /\ Understood(CodexRelayError(f.status, f.retryAfter))
           /\ Understood(ChatRelayError(f.status, f.retryAfter))
<1>1. f.status \in Nat /\ f.retryAfter.secs \in Int
  BY ConversationAssumption
<1>2. /\ CodexRetryAfter(f.retryAfter) \in {NoRetryAfter} \cup 0 .. 60
      /\ ChatRetryAfter(f.retryAfter) \in {NoRetryAfter} \cup 0 .. 60
  BY <1>1, WaitsAreBounded DEF CodexRetryAfter, ChatRetryAfter
<1>3. ASSUME NEW wait \in {NoRetryAfter} \cup 0 .. 60
      PROVE  Understood(ErrorReply(f.status, anthropicErrorKind(f.status), wait))
  BY <1>1, <1>3, KindFits DEF Understood, ErrorReply
<1> QED
  BY <1>2, <1>3 DEF CodexRelayError, ChatRelayError

\* The error replied with, if the gateway made or translated it.
RepliesUnderstood ==
    reply # None /\ reply.to \in {"codex", "chat"} => Understood(reply.error)

LEMMA FinishUnderstood ==
    ASSUME NEW e, Finish(e), request.to \in {"codex", "chat"} => Understood(e)
    PROVE  RepliesUnderstood'
BY DEF Finish, RepliesUnderstood

LEMMA RepliesInductive ==
    ASSUME RepliesUnderstood, [Next]_vars
    PROVE  RepliesUnderstood'
<1>1. ASSUME reply' = reply \/ reply' = None
      PROVE  RepliesUnderstood'
  BY <1>1 DEF RepliesUnderstood
<1>2. CASE NoToken
  <2>1. Understood(ErrorReply(401, "authentication_error", NoRetryAfter))
    BY DEF Understood, ErrorReply, ErrorTypes, NoRetryAfter
  <2> QED
    BY <1>2, <2>1, FinishUnderstood DEF NoToken
<1>3. CASE Unreachable
  <2>1. Understood(ErrorReply(502, "api_error", NoRetryAfter))
    BY DEF Understood, ErrorReply, ErrorTypes, NoRetryAfter
  <2> QED
    BY <1>3, <2>1, FinishUnderstood DEF Unreachable
<1>4. ASSUME NEW f \in Failures, Refused(f)
      PROVE  RepliesUnderstood'
  <2>1. CASE request.to = "codex"
    BY <1>4, <2>1, RelaysUnderstood, FinishUnderstood DEF Refused
  <2>2. CASE request.to = "chat"
    BY <1>4, <2>2, RelaysUnderstood, FinishUnderstood DEF Refused
  <2>3. CASE request.to \notin {"codex", "chat"}
    BY <1>4, <2>3, FinishUnderstood DEF Refused
  <2> QED
    BY <2>1, <2>2, <2>3
<1>5. CASE \E shape \in Shapes : Prompt(shape)
  BY <1>1, <1>5 DEF Prompt
<1>6. CASE (\E k \in 0 .. Len(minted) - 1 : Rewind(k)) \/ HangUp
  BY <1>1, <1>6 DEF Rewind, HangUp
<1>7. CASE \/ MessagesToAnthropic \/ MessagesToCodex \/ MessagesToChat \/ MessagesToCompat
           \/ CountUpstream \/ EstimateTokens
  BY <1>1, <1>7 DEF MessagesToAnthropic, MessagesToCodex, MessagesToChat, MessagesToCompat,
                    CountUpstream, EstimateTokens
<1>8. CASE (\E b \in Backends : \E answer \in Answers[b] : request.to = b /\ Answer(answer))
           \/ Counted
  BY <1>1, <1>8 DEF Answer, Counted
<1>9. CASE UNCHANGED vars
  BY <1>1, <1>9 DEF vars
<1>10. CASE \/ \E to \in Backends, n \in AskedTokens : Send(to, "messages", n)
            \/ \E to \in Backends : Send(to, "count_tokens", 0)
  BY <1>1, <1>10 DEF Send
<1> QED
  BY <1>2, <1>3, <1>4, <1>5, <1>6, <1>7, <1>8, <1>9, <1>10 DEF Next

\* Whatever an upstream fails with, Claude Code is told a type it knows, one that
\* lets it retry what can be retried, and a wait of at most a minute (relayError
\* and clampRetryAfter in both clients).
THEOREM ErrorsAlwaysUnderstood == Spec => []ErrorsUnderstood
<1>1. Init => RepliesUnderstood
  BY DEF Init, RepliesUnderstood, None
<1>2. RepliesUnderstood => ErrorsUnderstood
  BY DEF RepliesUnderstood, ErrorsUnderstood, Understood
<1> QED
  BY <1>1, <1>2, RepliesInductive, PTL DEF Spec

-----------------------------------------------------------------------------
(* The instances of CodexRequest, ChatRequest and SessionStore have the    *)
(* same operators under other names.                                       *)

LEMMA SameFlattening ==
    ASSUME NEW ss
    PROVE  /\ Codex!FlattenSeq(ss) = FlattenSeq(ss)
           /\ Chat!FlattenSeq(ss) = FlattenSeq(ss)
           /\ Store!FlattenSeq(ss) = FlattenSeq(ss)
BY DEF FlattenSeq, Codex!FlattenSeq, Chat!FlattenSeq, Store!FlattenSeq

LEMMA SameSelection ==
    ASSUME NEW type, NEW s
    PROVE  /\ Codex!Of(type, s) = Of(type, s) /\ Codex!Ids(s) = Ids(s)
           /\ Chat!Of(type, s) = Of(type, s) /\ Chat!Ids(s) = Ids(s)
BY SameFlattening DEF Of, Select, Ids, Codex!Of, Codex!Select, Codex!Ids,
                      Chat!Of, Chat!Select, Chat!Ids

-----------------------------------------------------------------------------
(* Blocks selected from a content, as flat maps                            *)

\* The blocks of T, and their ids.
Chosen(A, T) == [b \in A |-> IF b \in T THEN <<b>> ELSE <<>>]
IdsIn(A, T) == [b \in A |-> IF b \in T THEN <<b.id>> ELSE <<>>]

Typed(types) == {b \in Block : b.type \in types}

LEMMA ChosenMaps ==
    ASSUME NEW A, NEW T
    PROVE  Chosen(A, T) \in Mappers(A, A)
<1>1. ASSUME NEW b \in A
      PROVE  (IF b \in T THEN <<b>> ELSE <<>>) \in Seq(A)
  OBVIOUS
<1> QED
  BY <1>1 DEF Chosen, Mappers

LEMMA IdsInMaps ==
    ASSUME NEW A, \A a \in A : a.id \in Nat, NEW T
    PROVE  IdsIn(A, T) \in Mappers(A, Nat)
<1>1. ASSUME NEW b \in A
      PROVE  (IF b \in T THEN <<b.id>> ELSE <<>>) \in Seq(Nat)
  BY <1>1
<1> QED
  BY <1>1 DEF IdsIn, Mappers

LEMMA ChosenIds ==
    ASSUME NEW A, \A a \in A : a.id \in Nat, NEW T, NEW s \in Seq(A)
    PROVE  Ids(FlatMap(Chosen(A, T), s)) = FlatMap(IdsIn(A, T), s)
<1> DEFINE id == [a \in A |-> a.id]
           one == [a \in A |-> <<a.id>>]
           t == FlatMap(Chosen(A, T), s)
<1>1. id \in [A -> Nat] /\ one \in [A -> Seq(Nat)] /\ \A a \in A : one[a] = <<id[a]>>
  OBVIOUS
<1>2. t \in Seq(A) /\ Chosen(A, T) \in Mappers(A, A) /\ IdsIn(A, T) \in Mappers(A, Nat)
  BY ChosenMaps, IdsInMaps, FlatMapType
<1>3. ASSUME NEW a \in A
      PROVE  FlatMap(one, Chosen(A, T)[a]) = IdsIn(A, T)[a]
  <2>1. FlatMap(one, <<a>>) = <<a.id>>
    <3>1. one \in Mappers(A, Nat) /\ one[a] = <<a.id>>
      BY <1>1 DEF Mappers
    <3> HIDE DEF one
    <3> QED
      BY <3>1, FlatMapSingle
  <2>2. FlatMap(one, <<>>) = <<>>
    BY FlatMapEmpty
  <2> HIDE DEF one
  <2> QED
    BY <2>1, <2>2 DEF Chosen, IdsIn
<1>4. Ids(t) = MapSeq(id, t)
  <2>1. \A i \in DOMAIN t : t[i] \in A
    BY <1>2
  <2> HIDE DEF t
  <2> QED
    BY <2>1 DEF Ids, MapSeq
<1> HIDE DEF id, one
<1>5. one \in Mappers(A, Nat)
  BY <1>1 DEF Mappers
<1>6. MapSeq(id, t) = FlatMap(one, t)
  <2>1. t \in Seq(A) /\ id \in [A -> Nat]
    BY <1>1, <1>2
  <2>2. \A a \in A : one[a] = <<id[a]>>
    BY <1>1
  <2> HIDE DEF t
  <2> QED
    BY <1>5, <2>1, <2>2, MapIsFlat
<1>7. FlatMap(one, FlatMap(Chosen(A, T), s)) = FlatMap(IdsIn(A, T), s)
  BY <1>2, <1>3, <1>5, FlatMapTwice
<1> QED
  BY <1>4, <1>6, <1>7

LEMMA OfIsFlat ==
    ASSUME NEW A \in SUBSET Block, NEW s \in Seq(A), NEW type
    PROVE  /\ Of(type, s) = FlatMap(Chosen(A, Typed({type})), s)
           /\ Of(type, s) \in Seq(A)
<1> DEFINE g == Chosen(A, Typed({type}))
<1>1. \A i \in DOMAIN s : s[i] \in A /\ s[i] \in Block
  OBVIOUS
<1>2. \A b \in A : g[b] = IF b.type = type THEN <<b>> ELSE <<>>
  BY DEF Chosen, Typed
<1> HIDE DEF g
<1>3. MapSeq(g, s) = [i \in DOMAIN s |-> IF s[i].type = type THEN <<s[i]>> ELSE <<>>]
  BY <1>1, <1>2 DEF MapSeq
<1>4. Of(type, s) = FlatMap(g, s)
  BY <1>3 DEF Of, Select, FlatMap
<1>5. FlatMap(g, s) \in Seq(A)
  BY ChosenMaps, FlatMapType DEF g
<1> QED
  BY <1>4, <1>5 DEF g

-----------------------------------------------------------------------------
(* Histories                                                               *)

UserTypes   == {"text", "image", "document", "tool_result"}
AnswerTypes == {"text", "tool_use", "thinking", "redacted_thinking"}

UserBlock   == [type : UserTypes, id : Nat \ {0}, signature : {NoSignature}]
AnswerBlock == [type : AnswerTypes, id : Nat \ {0}, signature : Signatures]

Prompted == [role : {"user"}, content : Seq(UserBlock)]
Answered == [role : {"assistant"}, content : Seq(AnswerBlock)]
Turn     == Prompted \cup Answered

\* A history alternates between what the user and what a model may say.
Histories ==
    {h \in Seq(Turn) : \A i \in 1 .. Len(h) :
        h[i] \in IF i % 2 = 1 THEN Prompted ELSE Answered}

LEMMA HistoryTypes ==
    ASSUME NEW h \in Histories
    PROVE  /\ h \in Seq(Turn) /\ Len(h) \in Nat
           /\ \A i \in 1 .. Len(h) : h[i] \in IF i % 2 = 1 THEN Prompted ELSE Answered
BY DEF Histories

LEMMA BlockSets ==
    /\ UserBlock \subseteq Block /\ AnswerBlock \subseteq Block
    /\ \A b \in UserBlock \cup AnswerBlock : b.id \in Nat \ {0}
BY DEF UserBlock, AnswerBlock, Block, UserTypes, AnswerTypes, BlockTypes, Signatures

LEMMA TurnContent ==
    ASSUME NEW m \in Turn
    PROVE  /\ m.content \in Seq(UserBlock \cup AnswerBlock)
           /\ m.content \in Seq(Block)
<1>1. m.content \in Seq(UserBlock) \/ m.content \in Seq(AnswerBlock)
  BY DEF Turn, Prompted, Answered
<1>2. m.content \in Seq(UserBlock \cup AnswerBlock)
  BY <1>1, SeqMonotonic
<1> QED
  BY <1>2, BlockSets, SeqMonotonic

\* The content of a message, and the blocks of a history.
Content == [m \in Turn |-> m.content]

LEMMA BlocksAreFlat ==
    ASSUME NEW h \in Seq(Turn)
    PROVE  /\ Blocks(h) = FlatMap(Content, h)
           /\ Content \in Mappers(Turn, Block)
           /\ Blocks(h) \in Seq(Block)
<1>1. Content \in Mappers(Turn, Block)
  BY TurnContent DEF Content, Mappers
<1>2. \A i \in DOMAIN h : h[i] \in Turn
  OBVIOUS
<1>3. MapSeq(Content, h) = [i \in DOMAIN h |-> h[i].content]
  BY <1>2 DEF MapSeq, Content
<1>4. Blocks(h) = FlatMap(Content, h)
  BY <1>3 DEF Blocks, FlatMap
<1> QED
  BY <1>1, <1>4, FlatMapType

LEMMA PendingType ==
    ASSUME history \in Histories
    PROVE  Pending \in Seq(UserBlock \cup AnswerBlock)
<1>1. CASE history = <<>>
  BY <1>1 DEF Pending
<1>2. CASE history # <<>>
  <2>1. history[Len(history)] \in Turn
    BY <1>2 DEF Histories
  <2>2. UserBlock \cup AnswerBlock \in SUBSET Block
    BY BlockSets
  <2> QED
    BY <1>2, <2>1, <2>2, TurnContent, OfIsFlat DEF Pending
<1> QED
  BY <1>1, <1>2

LEMMA FreshType ==
    ASSUME history \in Histories
    PROVE  Fresh \in Nat \ {0}
<1>1. Blocks(history) \in Seq(Block)
  BY BlocksAreFlat DEF Histories
<1> QED
  BY <1>1 DEF Fresh

\* The parts of a user message, each a sequence of blocks.
Parts(shape) ==
    [i \in DOMAIN shape |->
        IF shape[i] = "results"
        THEN [c \in DOMAIN Pending |-> UserPart("tool_result", Pending[c].id)]
        ELSE <<UserPart(shape[i], Fresh + i - 1)>>]

LEMMA ResultsType ==
    ASSUME history \in Histories
    PROVE  /\ [c \in DOMAIN Pending |-> UserPart("tool_result", Pending[c].id)]
                 \in Seq(UserBlock)
           /\ Len([c \in DOMAIN Pending |-> UserPart("tool_result", Pending[c].id)])
                 = Len(Pending)
<1>1. ASSUME NEW c \in 1 .. Len(Pending)
      PROVE  UserPart("tool_result", Pending[c].id) \in UserBlock
  <2>1. Pending[c].id \in Nat \ {0}
    BY PendingType, BlockSets, ElementOfSeq
  <2> QED
    BY <2>1 DEF UserPart, UserBlock, UserTypes
<1>2. DOMAIN Pending = 1 .. Len(Pending) /\ Len(Pending) \in Nat
  BY PendingType
<1>3. /\ [c \in 1 .. Len(Pending) |-> UserPart("tool_result", Pending[c].id)]
            \in Seq(UserBlock)
      /\ Len([c \in 1 .. Len(Pending) |-> UserPart("tool_result", Pending[c].id)])
            = Len(Pending)
  BY <1>1, <1>2
<1> QED
  BY <1>2, <1>3

LEMMA PartsType ==
    ASSUME history \in Histories, NEW shape \in Shapes
    PROVE  /\ Parts(shape) \in Seq(Seq(UserBlock))
           /\ shape \in Seq(PartKinds) /\ shape # <<>> /\ DOMAIN shape = 1 .. Len(shape)
           /\ Len(Parts(shape)) = Len(shape) /\ Len(shape) \in Nat \ {0}
           /\ UserContent(shape) = FlattenSeq(Parts(shape))
<1>1. shape \in Seq(PartKinds) /\ shape # <<>>
  BY ConversationAssumption
<1>2. DOMAIN shape = 1 .. Len(shape) /\ Len(shape) \in Nat \ {0}
  BY <1>1, EmptySeq
<1>3. ASSUME NEW i \in 1 .. Len(shape)
      PROVE  Parts(shape)[i] \in Seq(UserBlock)
  <2>1. CASE shape[i] = "results"
    BY <1>2, <2>1, ResultsType DEF Parts
  <2>2. CASE shape[i] # "results"
    <3>1. shape[i] \in UserTypes
      BY <1>1, <2>2 DEF PartKinds, UserTypes
    <3>2. Fresh + i - 1 \in Nat \ {0}
      BY <1>2, FreshType
    <3>3. UserPart(shape[i], Fresh + i - 1) \in UserBlock
      BY <3>1, <3>2 DEF UserPart, UserBlock
    <3>4. Parts(shape)[i] = <<UserPart(shape[i], Fresh + i - 1)>>
      BY <1>2, <2>2 DEF Parts
    <3> QED
      BY <3>3, <3>4
  <2> QED
    BY <2>1, <2>2
<1>4. Parts(shape) = [i \in 1 .. Len(shape) |-> Parts(shape)[i]]
  BY <1>2 DEF Parts
<1>5. Parts(shape) \in Seq(Seq(UserBlock)) /\ Len(Parts(shape)) = Len(shape)
  BY <1>2, <1>3, <1>4
<1> QED
  BY <1>1, <1>2, <1>5 DEF UserContent, Parts

LEMMA UserContentType ==
    ASSUME history \in Histories, NEW shape \in Shapes
    PROVE  UserContent(shape) \in Seq(UserBlock)
BY PartsType, FlattenType

\* Results are only due when there are calls, so every part has a block.
LEMMA UserContentLength ==
    ASSUME history \in Histories, NEW shape \in Shapes,
           (\E i \in DOMAIN shape : shape[i] = "results") => Pending # <<>>
    PROVE  Len(UserContent(shape)) >= Len(shape) /\ UserContent(shape) # <<>>
<1> DEFINE P == Seq(UserBlock) \ {<<>>}
<1>1. ASSUME NEW i \in 1 .. Len(shape)
      PROVE  Parts(shape)[i] \in P
  <2>1. Parts(shape)[i] \in Seq(UserBlock) /\ i \in DOMAIN shape
    BY PartsType
  <2>2. CASE shape[i] = "results"
    <3>1. Pending # <<>> /\ Pending \in Seq(UserBlock \cup AnswerBlock)
      BY <2>1, <2>2, PendingType
    <3>2. Len(Pending) # 0
      BY <3>1
    <3>3. Len(Parts(shape)[i]) = Len(Pending)
      BY <2>1, <2>2, ResultsType DEF Parts
    <3> QED
      BY <2>1, <3>2, <3>3
  <2>3. CASE shape[i] # "results"
    <3>1. Parts(shape)[i] = <<UserPart(shape[i], Fresh + i - 1)>>
      BY <2>1, <2>3 DEF Parts
    <3> QED
      BY <2>1, <3>1
  <2> QED
    BY <2>2, <2>3
<1>2. Parts(shape) \in Seq(P) /\ Len(Parts(shape)) = Len(shape) /\ Len(shape) \in Nat \ {0}
  <2>1. /\ Parts(shape) \in Seq(Seq(UserBlock)) /\ Len(Parts(shape)) = Len(shape)
        /\ Len(shape) \in Nat \ {0}
    BY PartsType
  <2> HIDE DEF P
  <2> QED
    BY <1>1, <2>1
<1>3. /\ FlattenSeq(Parts(shape)) \in Seq(UserBlock)
      /\ Len(FlattenSeq(Parts(shape))) >= Len(Parts(shape))
  BY <1>2, FlattenLength
<1>4. UserContent(shape) = FlattenSeq(Parts(shape))
  BY PartsType
<1> QED
  BY <1>2, <1>3, <1>4

\* Positions after the last block of the history are numbers.
LEMMA NextIds ==
    ASSUME history \in Histories, NEW n \in Nat
    PROVE  \A i \in 1 .. n : Fresh + i - 1 \in Nat \ {0}
BY FreshType

LEMMA ContentType ==
    ASSUME history \in Histories, NEW b \in Backends, NEW answer \in Answers[b]
    PROVE  ContentOf(b, answer) \in Seq(AnswerBlock)
<1>1. CASE b = "chat"
  <2>1. answer \in Chat!Choice
    BY <1>1, ConversationAssumption
  <2> DEFINE types == (IF answer.reasoning THEN <<"thinking">> ELSE <<>>)
                      \o (IF answer.text THEN <<"text">> ELSE <<>>)
                      \o [c \in 1 .. answer.calls |-> "tool_use"]
  <2>2. types \in Seq(AnswerTypes)
    <3>0. /\ "thinking" \in AnswerTypes /\ "text" \in AnswerTypes
          /\ \A t \in AnswerTypes : <<t>> \in Seq(AnswerTypes)
          /\ <<>> \in Seq(AnswerTypes)
      BY DEF AnswerTypes
    <3>1. (IF answer.reasoning THEN <<"thinking">> ELSE <<>>) \in Seq(AnswerTypes)
      BY <3>0
    <3>2. (IF answer.text THEN <<"text">> ELSE <<>>) \in Seq(AnswerTypes)
      BY <3>0
    <3>3. [c \in 1 .. answer.calls |-> "tool_use"] \in Seq(AnswerTypes)
      BY <2>1 DEF AnswerTypes, Chat!Choice
    <3> QED
      BY <3>1, <3>2, <3>3, ConcatProperties
  <2> HIDE DEF types
  <2>3. ContentOf(b, answer) = [i \in DOMAIN types |->
           [type |-> types[i], id |-> Fresh + i - 1, signature |-> NoSignature]]
    BY <1>1 DEF ContentOf, Chat!TranslateResponse, types, Chat!NoSignature, NoSignature
  <2>4. DOMAIN types = 1 .. Len(types) /\ Len(types) \in Nat
        /\ \A i \in 1 .. Len(types) : types[i] \in AnswerTypes
    BY <2>2
  <2>5. \A i \in 1 .. Len(types) :
           [type |-> types[i], id |-> Fresh + i - 1, signature |-> NoSignature] \in AnswerBlock
    BY <2>4, NextIds DEF AnswerBlock, Signatures
  <2> QED
    BY <2>3, <2>4, <2>5
<1>2. CASE b = "codex"
  <2>1. answer \in Seq(Kinds["codex"])
    BY <1>2, ConversationAssumption DEF Kinds
  <2>2. DOMAIN answer = 1 .. Len(answer) /\ Len(answer) \in Nat
        /\ \A i \in 1 .. Len(answer) : answer[i] \in {"minted", "reasoning", "text", "call"}
    BY <2>1 DEF Kinds
  <2>3. ASSUME NEW kind \in {"minted", "reasoning", "text", "call"}, NEW id \in Nat \ {0}
        PROVE  Codex!BlockOf(kind, id) \in AnswerBlock
    BY DEF Codex!BlockOf, Codex!EncodeReasoning, Codex!NoSignature, Codex!CodexSigned,
           AnswerBlock, AnswerTypes, Signatures, NoSignature, CodexSigned, GatewaySignatures
  <2>4. \A i \in 1 .. Len(answer) : Codex!BlockOf(answer[i], Fresh + i - 1) \in AnswerBlock
    BY <2>2, <2>3, NextIds
  <2>5. ContentOf(b, answer)
           = [i \in DOMAIN answer |-> Codex!BlockOf(answer[i], Fresh + i - 1)]
    BY <1>2 DEF ContentOf
  <2> QED
    BY <2>2, <2>4, <2>5
<1>3. CASE b \in {"anthropic", "compat"}
  <2>1. answer \in Seq(Kinds["anthropic"]) \/ answer \in Seq(Kinds["compat"])
    BY <1>3, ConversationAssumption DEF Kinds
  <2> DEFINE kinds == {"sealed", "redacted", "minted", "foreign", "reasoning", "text", "call"}
  <2>2. DOMAIN answer = 1 .. Len(answer) /\ Len(answer) \in Nat
        /\ \A i \in 1 .. Len(answer) : answer[i] \in kinds
    BY <2>1 DEF Kinds
  <2>3. ASSUME NEW kind \in kinds, NEW id \in Nat \ {0}
        PROVE  ProxiedBlock(kind, id) \in AnswerBlock
    BY DEF ProxiedBlock, AnswerBlock, AnswerTypes, Signatures, NoSignature, AnthropicSigned,
           ForeignSigned, CodexSigned, GatewaySignatures
  <2>4. \A i \in 1 .. Len(answer) : ProxiedBlock(answer[i], Fresh + i - 1) \in AnswerBlock
    BY <2>2, <2>3, NextIds
  <2>5. ContentOf(b, answer)
           = [i \in DOMAIN answer |-> ProxiedBlock(answer[i], Fresh + i - 1)]
    BY <1>3 DEF ContentOf
  <2> QED
    BY <2>2, <2>4, <2>5
<1> QED
  BY <1>1, <1>2, <1>3 DEF Backends

-----------------------------------------------------------------------------
(* What a backend gave                                                     *)

AllKinds == {"sealed", "redacted", "minted", "foreign", "reasoning", "text", "call"}
Offers   == [kind : AllKinds, id : Nat \ {0}]

\* The parts of an answer, with the ids of the blocks they become.
Offered(answer) ==
    [i \in DOMAIN answer |-> [kind |-> answer[i], id |-> Fresh + i - 1]]

OfKind(kinds) == {x \in Offers : x.kind \in kinds}

LEMMA OfferedType ==
    ASSUME history \in Histories, NEW b \in DOMAIN Kinds, NEW answer \in Answers[b]
    PROVE  /\ Offered(answer) \in Seq(Offers)
           /\ DOMAIN Offered(answer) = DOMAIN answer
           /\ \A i \in DOMAIN answer : answer[i] \in Kinds[b]
<1>1. answer \in Seq(Kinds[b])
  BY ConversationAssumption
<1>2. /\ DOMAIN answer = 1 .. Len(answer) /\ Len(answer) \in Nat
      /\ \A i \in 1 .. Len(answer) : answer[i] \in Kinds[b]
  BY <1>1
<1>3. Kinds[b] \subseteq AllKinds
  BY DEF Kinds, AllKinds
<1>4. \A i \in 1 .. Len(answer) : [kind |-> answer[i], id |-> Fresh + i - 1] \in Offers
  BY <1>2, <1>3, NextIds DEF Offers
<1> QED
  BY <1>2, <1>4 DEF Offered

LEMMA SignedIsFlat ==
    ASSUME history \in Histories, NEW b \in DOMAIN Kinds, NEW answer \in Answers[b],
           NEW keeper \in Keepers
    PROVE  SignedBy(keeper, answer)
              = FlatMap(IdsIn(Offers, OfKind(Reusable[keeper])), Offered(answer))
<1> DEFINE x == Offered(answer)
           T == OfKind(Reusable[keeper])
<1>1. x \in Seq(Offers)
  BY OfferedType
<1>2. SignedBy(keeper, answer)
         = Ids(FlattenSeq([i \in DOMAIN x |->
                  IF x[i].kind \in Reusable[keeper] THEN <<x[i]>> ELSE <<>>]))
  BY DEF SignedBy, Select, Offered
<1> HIDE DEF x
<1>3. \A i \in DOMAIN x : x[i] \in Offers
  BY <1>1
<1>4. MapSeq(Chosen(Offers, T), x)
         = [i \in DOMAIN x |-> IF x[i].kind \in Reusable[keeper] THEN <<x[i]>> ELSE <<>>]
  BY <1>3 DEF MapSeq, Chosen, OfKind
<1>5. \A a \in Offers : a.id \in Nat
  BY DEF Offers
<1>6. Ids(FlatMap(Chosen(Offers, T), x)) = FlatMap(IdsIn(Offers, T), x)
  BY <1>1, <1>5, ChosenIds
<1> QED
  BY <1>2, <1>4, <1>6 DEF FlatMap, x

\* What the keepers have signed of an answer.
GivenTurn == [Keepers -> Seq(Nat)]

LEMMA GaveType ==
    ASSUME history \in Histories, NEW b \in Backends, NEW answer \in Answers[b]
    PROVE  Gave(b, answer) \in GivenTurn
<1>1. ASSUME NEW keeper \in Keepers
      PROVE  (IF b = "chat" THEN <<>> ELSE SignedBy(keeper, answer)) \in Seq(Nat)
  <2>1. CASE b = "chat"
    BY <2>1
  <2>2. CASE b # "chat"
    <3>1. b \in DOMAIN Kinds
      BY <2>2 DEF Backends, Kinds
    <3>2. IdsIn(Offers, OfKind(Reusable[keeper])) \in Mappers(Offers, Nat)
      <4>1. \A a \in Offers : a.id \in Nat
        BY DEF Offers
      <4> QED
        BY <4>1, IdsInMaps
    <3> QED
      BY <2>2, <3>1, <3>2, SignedIsFlat, OfferedType, FlatMapType
  <2> QED
    BY <2>1, <2>2
<1> QED
  BY <1>1 DEF Gave, GivenTurn

-----------------------------------------------------------------------------
(* Type correctness                                                        *)

Turns == Seq(GivenTurn)

\* An answer is recorded for every two messages.
HistoryOK ==
    /\ history \in Histories /\ minted \in Turns
    /\ Len(history) = 2 * Len(minted) \/ Len(history) = 2 * Len(minted) + 1

\* A request is made when it is not the user's turn.
RequestOK ==
    request # None => /\ request.to \in Backends /\ request.op \in Operations
                      /\ request.maxTokens \in AskedTokens \cup {0}
                      /\ Len(history) = 2 * Len(minted) + 1

\* The messages of a translated request.
CodexMessages(h) == FlattenSeq([i \in DOMAIN h |-> Codex!translateMessage(h[i])])
ChatMessages(h)  == FlattenSeq([i \in DOMAIN h |-> Chat!translateMessage(h[i])])

\* What an upstream has been sent is the translation of the history as it still is.
WireOK ==
    wire # None =>
        /\ request # None /\ wire.to = request.to /\ wire.op = request.op
        /\ wire.tools \subseteq Tools
        /\ wire.op = "messages" =>
              /\ wire.to = "anthropic" => /\ wire.messages = StripUnsignedThinking(history)
                                          /\ wire.betas = rewrite
              /\ wire.to = "codex" => wire.messages = CodexMessages(history)
              /\ wire.to = "chat" => wire.messages = ChatMessages(history)
              /\ wire.to = "compat" => wire.messages = history

ReplyOK == reply # None => reply.to \in Backends

IInv == HistoryOK /\ RequestOK /\ WireOK /\ ReplyOK

LEMMA Lengths ==
    ASSUME HistoryOK
    PROVE  Len(history) \in Nat /\ Len(minted) \in Nat
<1>1. history \in Histories /\ minted \in Turns
  BY DEF HistoryOK
<1> QED
  BY <1>1, HistoryTypes DEF Turns

LEMMA InitInvariant == Init => IInv
<1> SUFFICES ASSUME Init PROVE IInv
  OBVIOUS
<1>1. history \in Histories /\ minted \in Turns
  BY DEF Init, Histories, Turns
<1>2. Len(history) = 2 * Len(minted)
  BY DEF Init
<1> QED
  BY <1>1, <1>2 DEF Init, IInv, HistoryOK, RequestOK, WireOK, ReplyOK

LEMMA LongerHistory ==
    ASSUME NEW h \in Histories,
           NEW m \in IF (Len(h) + 1) % 2 = 1 THEN Prompted ELSE Answered
    PROVE  Append(h, m) \in Histories /\ Len(Append(h, m)) = Len(h) + 1
<1>1. h \in Seq(Turn) /\ m \in Turn /\ Len(h) \in Nat
  BY DEF Histories, Turn
<1>2. /\ Append(h, m) \in Seq(Turn) /\ Len(Append(h, m)) = Len(h) + 1
      /\ \A i \in 1 .. Len(h) : Append(h, m)[i] = h[i]
      /\ Append(h, m)[Len(h) + 1] = m
  BY <1>1, AppendProperties
<1>3. ASSUME NEW i \in 1 .. Len(h) + 1
      PROVE  Append(h, m)[i] \in IF i % 2 = 1 THEN Prompted ELSE Answered
  <2>1. CASE i = Len(h) + 1
    BY <1>2, <2>1
  <2>2. CASE i # Len(h) + 1
    <3>1. i \in 1 .. Len(h)
      BY <1>1, <2>2
    <3> QED
      BY <1>2, <3>1 DEF Histories
  <2> QED
    BY <2>1, <2>2
<1> QED
  BY <1>2, <1>3 DEF Histories

LEMMA ShorterHistory ==
    ASSUME NEW h \in Histories, NEW n \in 0 .. Len(h)
    PROVE  SubSeq(h, 1, n) \in Histories /\ Len(SubSeq(h, 1, n)) = n
<1>1. h \in Seq(Turn) /\ Len(h) \in Nat /\ \A i \in 1 .. n : h[i] \in Turn
  BY DEF Histories
<1>2. /\ SubSeq(h, 1, n) \in Seq(Turn) /\ Len(SubSeq(h, 1, n)) = n
      /\ \A i \in 1 .. n : SubSeq(h, 1, n)[i] = h[i]
  BY <1>1, SubSeqProperties
<1>3. ASSUME NEW i \in 1 .. n
      PROVE  h[i] \in IF i % 2 = 1 THEN Prompted ELSE Answered
  BY <1>1, HistoryTypes
<1> DEFINE t == SubSeq(h, 1, n)
<1> HIDE DEF t
<1>4. /\ t \in Seq(Turn) /\ Len(t) = n
      /\ \A i \in 1 .. Len(t) : t[i] \in IF i % 2 = 1 THEN Prompted ELSE Answered
  BY <1>2, <1>3 DEF t
<1>5. t \in Histories
  BY <1>4 DEF Histories
<1> QED
  BY <1>4, <1>5 DEF t

LEMMA PromptStep ==
    ASSUME IInv, NEW shape \in Shapes, Prompt(shape)
    PROVE  IInv'
<1>1. HistoryOK /\ WireOK
  BY DEF IInv
<1> DEFINE m == [role |-> "user", content |-> UserContent(shape)]
<1>2. m \in Prompted
  BY <1>1, UserContentType DEF HistoryOK, Prompted
<1>3. Len(history) % 2 = 0 /\ Len(history) \in Nat /\ Len(minted) \in Nat
  BY <1>1, Lengths DEF Prompt, AwaitsUser
<1>4. history' = Append(history, m) /\ minted' = minted /\ request' = request
      /\ wire' = wire /\ reply' = None /\ request = None
  BY DEF Prompt
<1> HIDE DEF m
<1>5. Append(history, m) \in Histories /\ Len(Append(history, m)) = Len(history) + 1
  <2>1. (Len(history) + 1) % 2 = 1
    BY <1>3
  <2> QED
    BY <1>1, <1>2, <2>1, LongerHistory DEF HistoryOK
<1>6. HistoryOK'
  <2>1. Len(history) = 2 * Len(minted)
    BY <1>1, <1>3 DEF HistoryOK
  <2> QED
    BY <1>1, <1>3, <1>4, <1>5, <2>1 DEF HistoryOK
<1>7. wire = None
  BY <1>1, <1>4 DEF WireOK
<1> QED
  BY <1>4, <1>6, <1>7 DEF IInv, RequestOK, WireOK, ReplyOK

LEMMA RewindStep ==
    ASSUME IInv, NEW k \in 0 .. Len(minted) - 1, Rewind(k)
    PROVE  IInv'
<1>1. HistoryOK /\ WireOK
  BY DEF IInv
<1>2. /\ history' = SubSeq(history, 1, 2 * k) /\ minted' = SubSeq(minted, 1, k)
      /\ request' = request /\ wire' = wire /\ reply' = None /\ request = None
  BY DEF Rewind
<1>3. Len(minted) \in Nat /\ k \in 0 .. Len(minted) /\ 2 * k \in 0 .. Len(history)
  BY <1>1, Lengths DEF HistoryOK
<1>4. history' \in Histories /\ Len(history') = 2 * k
  BY <1>1, <1>2, <1>3, ShorterHistory DEF HistoryOK
<1>5. minted' \in Turns /\ Len(minted') = k
  <2> DEFINE T == GivenTurn
  <2>1. minted \in Seq(T)
    BY <1>1 DEF HistoryOK, Turns
  <2> HIDE DEF T
  <2>2. \A i \in 1 .. k : minted[i] \in T
    BY <1>3, <2>1
  <2>3. SubSeq(minted, 1, k) \in Seq(T) /\ Len(SubSeq(minted, 1, k)) = k
    BY <1>3, <2>2, SubSeqProperties
  <2> QED
    BY <1>2, <2>3 DEF T, Turns
<1>6. HistoryOK'
  BY <1>4, <1>5 DEF HistoryOK
<1>7. wire = None
  BY <1>1, <1>2 DEF WireOK
<1> QED
  BY <1>2, <1>6, <1>7 DEF IInv, RequestOK, WireOK, ReplyOK

LEMMA AnswerStep ==
    ASSUME IInv, NEW b \in Backends, NEW answer \in Answers[b], request.to = b, Answer(answer)
    PROVE  IInv'
<1>1. HistoryOK /\ WireOK /\ ReplyOK
  BY DEF IInv
<1>2. wire # None /\ wire.to = b
  BY <1>1 DEF Answer, WireOK
<1> DEFINE m == [role |-> "assistant", content |-> ContentOf(b, answer)]
           g == Gave(b, answer)
<1>3. m \in Answered /\ g \in GivenTurn
  BY <1>1, ContentType, GaveType DEF HistoryOK, Answered
<1>4. /\ history' = Append(history, m) /\ minted' = Append(minted, g)
      /\ request' = None /\ wire' = None /\ reply' = reply
  BY <1>2 DEF Answer
<1> HIDE DEF m, g
<1>5. /\ Len(history) \in Nat /\ Len(minted) \in Nat
      /\ Len(history) = 2 * Len(minted) + 1
  BY <1>1, <1>2, Lengths DEF IInv, WireOK, RequestOK
<1>6. Append(history, m) \in Histories /\ Len(Append(history, m)) = Len(history) + 1
  <2>1. (Len(history) + 1) % 2 # 1
    BY <1>5
  <2> QED
    BY <1>1, <1>3, <2>1, LongerHistory DEF HistoryOK
<1>7. Append(minted, g) \in Turns /\ Len(Append(minted, g)) = Len(minted) + 1
  BY <1>1, <1>3, AppendProperties DEF HistoryOK, Turns
<1>8. HistoryOK'
  BY <1>4, <1>5, <1>6, <1>7 DEF HistoryOK
<1> QED
  BY <1>1, <1>4, <1>8 DEF IInv, RequestOK, WireOK, ReplyOK

\* The gateway's steps leave the history alone.
LEMMA ForwardStep ==
    ASSUME IInv, MessagesToAnthropic \/ MessagesToCodex \/ MessagesToChat
                 \/ MessagesToCompat \/ CountUpstream
    PROVE  IInv'
<1>1. HistoryOK /\ RequestOK /\ ReplyOK
  BY DEF IInv
<1>2. UNCHANGED <<history, minted, request, reply>> /\ request # None
  BY DEF MessagesToAnthropic, MessagesToCodex, MessagesToChat, MessagesToCompat,
         CountUpstream, Idle
<1>3. HistoryOK' /\ RequestOK' /\ ReplyOK'
  BY <1>1, <1>2 DEF HistoryOK, RequestOK, ReplyOK
<1>4. filterPlanTools(Tools) \subseteq Tools
  BY DEF filterPlanTools
<1>5. CASE MessagesToAnthropic
  <2>1. /\ wire'.to = "anthropic" /\ wire'.op = "messages" /\ wire'.tools = Tools
        /\ wire'.messages = StripUnsignedThinking(history) /\ wire'.betas = rewrite
        /\ request.to = "anthropic" /\ request.op = "messages"
    BY <1>5 DEF MessagesToAnthropic, Forward, Raw, Idle
  <2> QED
    BY <1>2, <1>3, <2>1 DEF IInv, WireOK, rewrite
<1>6. CASE MessagesToCodex
  <2>1. /\ wire'.to = "codex" /\ wire'.op = "messages"
        /\ wire'.tools = Codex!OfferedTools(Tools)
        /\ wire'.messages = CodexMessages(history)
        /\ request.to = "codex" /\ request.op = "messages"
    BY <1>6, SameFlattening DEF MessagesToCodex, Forward, Idle, Codex!TranslateRequest, CodexMessages
  <2>2. Codex!OfferedTools(Tools) \subseteq Tools
    BY DEF Codex!OfferedTools
  <2> QED
    BY <1>2, <1>3, <2>1, <2>2 DEF IInv, WireOK
<1>7. CASE MessagesToChat
  <2>1. /\ wire'.to = "chat" /\ wire'.op = "messages"
        /\ wire'.tools = Chat!OfferedTools(Tools)
        /\ wire'.messages = ChatMessages(history)
        /\ request.to = "chat" /\ request.op = "messages"
    BY <1>7, SameFlattening DEF MessagesToChat, Forward, Idle, Chat!TranslateRequest, ChatMessages
  <2>2. Chat!OfferedTools(Tools) \subseteq Tools
    BY DEF Chat!OfferedTools
  <2> QED
    BY <1>2, <1>3, <2>1, <2>2 DEF IInv, WireOK
<1>8. CASE MessagesToCompat
  <2>1. /\ wire'.to = "compat" /\ wire'.op = "messages"
        /\ wire'.tools = filterPlanTools(Tools) /\ wire'.messages = history
        /\ request.to = "compat" /\ request.op = "messages"
    BY <1>8 DEF MessagesToCompat, Forward, Idle, rewriteBody, Raw
  <2> QED
    BY <1>2, <1>3, <1>4, <2>1 DEF IInv, WireOK
<1>9. CASE CountUpstream
  <2>1. /\ wire'.to = request.to /\ wire'.op = "count_tokens" /\ request.op = "count_tokens"
        /\ wire'.tools = filterPlanTools(Tools) \/ wire'.tools = Tools
    BY <1>9 DEF CountUpstream, Forward, Idle, rewriteBody, Raw
  <2> QED
    BY <1>2, <1>3, <1>4, <2>1 DEF IInv, WireOK
<1> QED
  BY <1>5, <1>6, <1>7, <1>8, <1>9

\* So do those that end a request, and Claude Code's sending one.
LEMMA EndStep ==
    ASSUME IInv, UNCHANGED <<history, minted>>, request' = None, wire' = None,
           reply' = reply \/ (reply'.to = request.to /\ request # None)
    PROVE  IInv'
BY Zenon DEF IInv, HistoryOK, RequestOK, WireOK, ReplyOK

LEMMA SendStep ==
    ASSUME IInv, NEW to \in Backends, NEW op \in Operations,
           NEW n \in AskedTokens \cup {0}, Send(to, op, n)
    PROVE  IInv'
<1>1. HistoryOK /\ WireOK
  BY DEF IInv
<1>2. /\ request = None /\ ~AwaitsUser /\ reply' = None
      /\ request'.to = to /\ request'.op = op /\ request'.maxTokens = n
      /\ UNCHANGED <<history, minted, wire>>
  BY DEF Send
<1>3. Len(history) = 2 * Len(minted) + 1
  BY <1>1, <1>2, Lengths DEF AwaitsUser, HistoryOK
<1>4. wire = None
  BY <1>1, <1>2 DEF WireOK
<1> QED
  BY <1>1, <1>2, <1>3, <1>4 DEF IInv, HistoryOK, RequestOK, WireOK, ReplyOK

LEMMA NextStep == IInv /\ [Next]_vars => IInv'
<1> SUFFICES ASSUME IInv, [Next]_vars PROVE IInv'
  OBVIOUS
<1>1. WireOK
  BY DEF IInv
<1>2. CASE \E shape \in Shapes : Prompt(shape)
  BY <1>2, PromptStep
<1>3. CASE (\E to \in Backends, n \in AskedTokens : Send(to, "messages", n))
           \/ \E to \in Backends : Send(to, "count_tokens", 0)
  BY <1>3, SendStep DEF Operations
<1>4. CASE \E k \in 0 .. Len(minted) - 1 : Rewind(k)
  BY <1>4, RewindStep
<1>5. CASE HangUp \/ EstimateTokens \/ Counted
  <2>1. wire' = None
    BY <1>5 DEF HangUp, EstimateTokens, Counted, Idle
  <2> QED
    BY <1>5, <2>1, EndStep DEF HangUp, EstimateTokens, Counted
<1>6. CASE \/ MessagesToAnthropic \/ MessagesToCodex \/ MessagesToChat
           \/ MessagesToCompat \/ CountUpstream
  BY <1>6, ForwardStep
<1>7. CASE NoToken \/ Unreachable \/ \E f \in Failures : Refused(f)
  <2>1. request # None /\ \E e : Finish(e)
    BY <1>1, <1>7 DEF NoToken, Idle, Unreachable, Refused, WireOK
  <2> QED
    BY <2>1, EndStep DEF Finish
<1>8. CASE \E b \in Backends : \E answer \in Answers[b] : request.to = b /\ Answer(answer)
  BY <1>8, AnswerStep
<1>9. CASE UNCHANGED vars
  BY <1>9, Zenon DEF vars, IInv, HistoryOK, RequestOK, WireOK, ReplyOK
<1> QED
  BY <1>2, <1>3, <1>4, <1>5, <1>6, <1>7, <1>8, <1>9 DEF Next

LEMMA InvariantHolds == Spec => []IInv
BY InitInvariant, NextStep, PTL DEF Spec

\* A history is made of blocks and alternates, a request is one of the endpoints',
\* and an upstream has only been sent something for the request being served.
THEOREM TypeCorrect == Spec => []TypeOK
<1>1. ASSUME IInv PROVE TypeOK
  <2>1. HistoryOK /\ RequestOK /\ WireOK /\ ReplyOK
    BY <1>1 DEF IInv
  <2>2. ASSUME NEW i \in DOMAIN history
        PROVE  /\ history[i].role = IF i % 2 = 1 THEN "user" ELSE "assistant"
               /\ \A j \in DOMAIN history[i].content : history[i].content[j] \in Block
    <3>1. /\ i \in 1 .. Len(history) /\ history[i] \in Turn
          /\ history[i] \in IF i % 2 = 1 THEN Prompted ELSE Answered
      BY <2>1, HistoryTypes DEF HistoryOK
    <3>2. history[i].content \in Seq(Block)
      BY <3>1, TurnContent
    <3> QED
      BY <3>1, <3>2 DEF Prompted, Answered
  <2>3. Len(minted) = Len(history) \div 2
    BY <2>1, Lengths DEF HistoryOK
  <2> QED
    BY <2>1, <2>2, <2>3 DEF TypeOK, RequestOK, WireOK, ReplyOK
<1> QED
  BY <1>1, InvariantHolds, PTL

-----------------------------------------------------------------------------
(* What Anthropic is sent                                                  *)

Native == {b \in Block : ~isUnsignedThinking(b)}

LEMMA ChosenType ==
    ASSUME NEW A, NEW T, NEW s \in Seq(A)
    PROVE  FlatMap(Chosen(A, T), s) \in Seq(A \cap T)
<1>1. ASSUME NEW b \in A
      PROVE  (IF b \in T THEN <<b>> ELSE <<>>) \in Seq(A \cap T)
  <2>1. CASE b \in T
    BY <2>1
  <2>2. CASE b \notin T
    BY <2>2
  <2> QED
    BY <2>1, <2>2
<1>2. Chosen(A, T) \in Mappers(A, A \cap T)
  BY <1>1 DEF Chosen, Mappers
<1> QED
  BY <1>2, FlatMapType

\* What the strip keeps of a content.
Kept(content) == FlatMap(Chosen(Block, Native), content)

LEMMA KeptIsFlat ==
    ASSUME NEW s \in Seq(Block)
    PROVE  /\ Select(s, LAMBDA b : ~isUnsignedThinking(b)) = Kept(s)
           /\ Kept(s) \in Seq(Native)
<1> DEFINE g == Chosen(Block, Native)
<1>1. \A i \in DOMAIN s : s[i] \in Block
  OBVIOUS
<1>2. \A b \in Block : g[b] = IF ~isUnsignedThinking(b) THEN <<b>> ELSE <<>>
  BY DEF Chosen, Native
<1>3. Block \cap Native = Native
  BY DEF Native
<1>4. Kept(s) \in Seq(Native)
  BY <1>3, ChosenType DEF Kept
<1> HIDE DEF g
<1>5. MapSeq(g, s)
         = [i \in DOMAIN s |-> IF ~isUnsignedThinking(s[i]) THEN <<s[i]>> ELSE <<>>]
  BY <1>1, <1>2 DEF MapSeq
<1> QED
  BY <1>4, <1>5 DEF Select, Kept, FlatMap, g

LEMMA StripKeeps ==
    ASSUME NEW m \in Turn
    PROVE  /\ StripMessage(m).content = IF Kept(m.content) = <<>> /\ m.content # <<>>
                                        THEN <<Placeholder>> ELSE Kept(m.content)
           /\ StripMessage(m) = [m EXCEPT !.content = StripMessage(m).content]
<1>1. m.content \in Seq(Block)
  BY TurnContent
<1>2. DOMAIN m = {"role", "content"}
  BY DEF Turn, Prompted, Answered
<1>3. Select(m.content, LAMBDA b : ~isUnsignedThinking(b)) = Kept(m.content)
  BY <1>1, KeptIsFlat
<1>4. StripMessage(m)
         = [m EXCEPT !.content = IF Kept(m.content) = <<>> /\ m.content # <<>>
                                 THEN <<Placeholder>> ELSE Kept(m.content)]
  BY <1>3 DEF StripMessage
<1> QED
  BY <1>2, <1>4

LEMMA StrippedIsSigned ==
    ASSUME NEW m \in Turn
    PROVE  /\ m.content # <<>> => StripMessage(m).content # <<>>
           /\ StripMessage(m).content \in Seq(Native)
<1>1. m.content \in Seq(Block)
  BY TurnContent
<1>2. Placeholder \in Native
  BY DEF Placeholder, Native, Block, BlockTypes, Signatures, NoSignature, isUnsignedThinking
<1>3. <<Placeholder>> \in Seq(Native) /\ <<Placeholder>> # <<>>
  BY <1>2
<1>4. Kept(m.content) \in Seq(Native)
  BY <1>1, KeptIsFlat
<1>5. CASE Kept(m.content) = <<>> /\ m.content # <<>>
  <2>1. StripMessage(m).content = <<Placeholder>>
    BY <1>5, StripKeeps, Zenon
  <2> QED
    BY <1>3, <2>1, Zenon
<1>7. CASE m.content = <<>>
  <2>1. StripMessage(m).content = Kept(m.content)
    BY <1>7, StripKeeps, Zenon
  <2> QED
    BY <1>4, <1>7, <2>1, Zenon
<1>6. CASE Kept(m.content) # <<>>
  <2>1. StripMessage(m).content = Kept(m.content)
    BY <1>6, StripKeeps, Zenon
  <2> QED
    BY <1>4, <1>6, <2>1, Zenon
<1> QED
  BY <1>5, <1>6, <1>7

LEMMA NativeIsSigned ==
    ASSUME NEW b \in Native, b.type = "thinking"
    PROVE  b.signature \in {AnthropicSigned, ForeignSigned}
BY DEF Native, Block, Signatures, isUnsignedThinking

\* Only Prompt, Answer and Rewind touch the history.
LEMMA HistorySteps ==
    ASSUME [Next]_vars
    PROVE  \/ UNCHANGED <<history, minted>>
           \/ \E shape \in Shapes : Prompt(shape)
           \/ \E b \in Backends : \E answer \in Answers[b] : request.to = b /\ Answer(answer)
           \/ \E k \in 0 .. Len(minted) - 1 : Rewind(k)
<1>1. CASE UNCHANGED vars
  BY <1>1 DEF vars
<1>2. CASE \/ MessagesToAnthropic \/ MessagesToCodex \/ MessagesToChat \/ MessagesToCompat
           \/ CountUpstream \/ EstimateTokens
  BY <1>2 DEF MessagesToAnthropic, MessagesToCodex, MessagesToChat, MessagesToCompat,
              CountUpstream, EstimateTokens
<1>3. CASE HangUp \/ Counted \/ NoToken \/ Unreachable \/ \E f \in Failures : Refused(f)
  BY <1>3 DEF HangUp, Counted, NoToken, Unreachable, Refused, Finish
<1>4. CASE \/ \E to \in Backends, n \in AskedTokens : Send(to, "messages", n)
           \/ \E to \in Backends : Send(to, "count_tokens", 0)
  BY <1>4 DEF Send
<1> QED
  BY <1>1, <1>2, <1>3, <1>4 DEF Next

\* Whatever models answered before, and through whatever endpoints, Anthropic is sent
\* no thinking that is unsigned or that a gateway signed, no message the strip has
\* emptied, and always the beta a subscription token needs (StripUnsignedThinking).
THEOREM AlwaysCleanForAnthropic == Spec => []CleanForAnthropic
<1>1. ASSUME IInv, Asked("anthropic")
      PROVE  CleanForAnthropic
  <2>1. /\ wire.messages = StripUnsignedThinking(history) /\ wire.betas = rewrite
        /\ history \in Histories
    BY <1>1 DEF IInv, HistoryOK, WireOK, Asked
  <2>2. DOMAIN wire.messages = 1 .. Len(history)
        /\ \A i \in 1 .. Len(history) : wire.messages[i] = StripMessage(history[i])
    BY <2>1, HistoryTypes DEF StripUnsignedThinking
  <2>3. ASSUME NEW i \in DOMAIN wire.messages
        PROVE  /\ history[i].content # <<>> => wire.messages[i].content # <<>>
               /\ \A j \in DOMAIN wire.messages[i].content :
                     wire.messages[i].content[j] \in Native
    <3>1. history[i] \in Turn
      BY <2>1, <2>2, HistoryTypes
    <3> QED
      BY <2>2, <3>1, StrippedIsSigned
  <2>4. OAuth => OAuthBeta \in wire.betas
    BY <2>1 DEF rewrite
  <2> QED
    BY <2>3, <2>4, NativeIsSigned DEF CleanForAnthropic
<1>2. IInv => CleanForAnthropic
  BY <1>1 DEF CleanForAnthropic
<1> QED
  BY <1>2, InvariantHolds, PTL

-----------------------------------------------------------------------------
(* Content kept: what a translation keeps of each message, by FlatMapTwice *)
(* it keeps of the history.                                                *)

LEMMA BlockIds ==
    ASSUME NEW T
    PROVE  /\ \A b \in Block : b.id \in Nat
           /\ IdsIn(Block, T) \in Mappers(Block, Nat)
           /\ Chosen(Block, T) \in Mappers(Block, Block)
<1>1. \A b \in Block : b.id \in Nat
  BY DEF Block
<1> QED
  BY <1>1, IdsInMaps, ChosenMaps

LEMMA OfIds ==
    ASSUME NEW s \in Seq(Block), NEW type
    PROVE  /\ Of(type, s) \in Seq(Block)
           /\ Ids(Of(type, s)) = FlatMap(IdsIn(Block, Typed({type})), s)
           /\ Ids(Of(type, s)) \in Seq(Nat)
<1>1. Of(type, s) = FlatMap(Chosen(Block, Typed({type})), s) /\ Of(type, s) \in Seq(Block)
  BY OfIsFlat
<1>2. Ids(FlatMap(Chosen(Block, Typed({type})), s))
         = FlatMap(IdsIn(Block, Typed({type})), s)
  BY BlockIds, ChosenIds
<1>3. FlatMap(IdsIn(Block, Typed({type})), s) \in Seq(Nat)
  BY BlockIds, FlatMapType
<1> QED
  BY <1>1, <1>2, <1>3

\* Text and images, which the translations take together.
Sayable == {"text", "image"}

LEMMA TextAndImages ==
    ASSUME NEW s \in Seq(Block)
    PROVE  LET chosen == Select(s, LAMBDA b : b.type \in {"text", "image"})
           IN  /\ chosen \in Seq(Block)
               /\ Ids(chosen) = FlatMap(IdsIn(Block, Typed(Sayable)), s)
               /\ Ids(chosen) \in Seq(Nat)
<1> DEFINE g == Chosen(Block, Typed(Sayable))
           chosen == Select(s, LAMBDA b : b.type \in {"text", "image"})
<1>1. \A i \in DOMAIN s : s[i] \in Block
  OBVIOUS
<1>2. \A b \in Block : g[b] = IF b.type \in {"text", "image"} THEN <<b>> ELSE <<>>
  BY DEF Chosen, Typed, Sayable
<1>3. Ids(FlatMap(g, s)) = FlatMap(IdsIn(Block, Typed(Sayable)), s)
  BY BlockIds, ChosenIds
<1>4. FlatMap(g, s) \in Seq(Block) /\ FlatMap(IdsIn(Block, Typed(Sayable)), s) \in Seq(Nat)
  BY BlockIds, FlatMapType
<1> HIDE DEF g
<1>5. MapSeq(g, s)
         = [i \in DOMAIN s |-> IF s[i].type \in {"text", "image"} THEN <<s[i]>> ELSE <<>>]
  BY <1>1, <1>2 DEF MapSeq
<1>6. chosen = FlatMap(g, s)
  BY <1>5 DEF Select, FlatMap
<1> QED
  BY <1>3, <1>4, <1>6

\* The ids, in a history, of the blocks in T, from those in each message.
IdsOfTurn(T) == [m \in Turn |-> FlatMap(IdsIn(Block, T), m.content)]

LEMMA HistoryIds ==
    ASSUME NEW h \in Seq(Turn), NEW T
    PROVE  /\ IdsOfTurn(T) \in Mappers(Turn, Nat)
           /\ FlatMap(IdsIn(Block, T), Blocks(h)) = FlatMap(IdsOfTurn(T), h)
<1>1. Content \in Mappers(Turn, Block) /\ Blocks(h) = FlatMap(Content, h)
  BY BlocksAreFlat
<1>2. IdsIn(Block, T) \in Mappers(Block, Nat)
  BY BlockIds
<1>3. ASSUME NEW m \in Turn
      PROVE  /\ FlatMap(IdsIn(Block, T), m.content) \in Seq(Nat)
             /\ FlatMap(IdsIn(Block, T), Content[m]) = FlatMap(IdsIn(Block, T), m.content)
  BY <1>2, TurnContent, FlatMapType DEF Content
<1>4. IdsOfTurn(T) \in Mappers(Turn, Nat)
  BY <1>3 DEF IdsOfTurn, Mappers
<1>5. \A m \in Turn : FlatMap(IdsIn(Block, T), Content[m]) = IdsOfTurn(T)[m]
  BY <1>3 DEF IdsOfTurn
<1> QED
  BY <1>1, <1>2, <1>4, <1>5, FlatMapTwice

\* Texts, images and so on are the blocks they are in a wider set of blocks too.
LEMMA SameIds ==
    ASSUME NEW A \in SUBSET Block, NEW s \in Seq(A), NEW T, NEW U, A \cap T = A \cap U
    PROVE  FlatMap(IdsIn(Block, T), s) = FlatMap(IdsIn(Block, U), s)
<1>1. \A i \in DOMAIN s : s[i] \in A
  OBVIOUS
<1>2. \A i \in DOMAIN s : IdsIn(Block, T)[s[i]] = IdsIn(Block, U)[s[i]]
  BY <1>1 DEF IdsIn
<1> QED
  BY <1>2, FlatMapAgree

\* A sequence made of one thing per block of s, each with that block's id, has
\* the ids of s; what an upstream's format makes of other things, it leaves out.
LEMMA OnePerBlock ==
    ASSUME NEW M, NEW s \in Seq(Block), NEW make \in [Block -> M],
           NEW ids \in Mappers(M, Nat)
    PROVE  /\ (\A b \in Block : ids[make[b]] = <<b.id>>)
                 => FlatMap(ids, MapSeq(make, s)) = Ids(s)
           /\ (\A b \in Block : ids[make[b]] = <<>>)
                 => FlatMap(ids, MapSeq(make, s)) = <<>>
           /\ MapSeq(make, s) \in Seq(M)
<1> DEFINE one == [b \in Block |-> <<make[b]>>]
           through == [b \in Block |-> ids[make[b]]]
           id == [b \in Block |-> b.id]
<1>1. /\ one \in Mappers(Block, M) /\ through \in Mappers(Block, Nat)
      /\ \A b \in Block : one[b] = <<make[b]>> /\ through[b] = ids[make[b]]
      /\ id \in [Block -> Nat] /\ \A b \in Block : id[b] = b.id
  <2>1. one \in Mappers(Block, M)
    <3>1. \A b \in Block : <<make[b]>> \in Seq(M)
      OBVIOUS
    <3> QED
      BY <3>1 DEF Mappers
  <2>2. through \in Mappers(Block, Nat)
    <3>1. \A b \in Block : ids[make[b]] \in Seq(Nat)
      BY DEF Mappers
    <3> QED
      BY <3>1 DEF Mappers
  <2>3. id \in [Block -> Nat]
    BY BlockIds
  <2> QED
    BY <2>1, <2>2, <2>3
<1>2. Ids(s) = MapSeq(id, s)
  <2>1. \A i \in DOMAIN s : s[i] \in Block
    OBVIOUS
  <2> QED
    BY <2>1 DEF Ids, MapSeq
<1> HIDE DEF one, through, id
<1>3. MapSeq(make, s) = FlatMap(one, s) /\ MapSeq(make, s) \in Seq(M)
  <2>1. MapSeq(make, s) = FlatMap(one, s)
    BY <1>1, MapIsFlat
  <2>2. MapSeq(make, s) \in Seq(M)
    BY MapType
  <2> QED
    BY <2>1, <2>2
<1>4. FlatMap(ids, FlatMap(one, s)) = FlatMap(through, s)
  <2>1. ASSUME NEW b \in Block
        PROVE  FlatMap(ids, one[b]) = through[b]
    <3>1. make[b] \in M
      OBVIOUS
    <3>2. FlatMap(ids, <<make[b]>>) = ids[make[b]]
      BY <3>1, FlatMapSingle
    <3> QED
      BY <1>1, <3>2
  <2> QED
    BY <1>1, <2>1, FlatMapTwice
<1>5. ASSUME \A b \in Block : ids[make[b]] = <<b.id>>
      PROVE  FlatMap(through, s) = Ids(s)
  <2>1. \A b \in Block : through[b] = <<id[b]>>
    BY <1>1, <1>5
  <2>2. MapSeq(id, s) = FlatMap(through, s)
    BY <1>1, <2>1, MapIsFlat
  <2> QED
    BY <1>2, <2>2
<1>6. ASSUME \A b \in Block : ids[make[b]] = <<>>
      PROVE  FlatMap(through, s) = <<>>
  BY <1>1, <1>6, FlatMapNothing
<1> QED
  BY <1>3, <1>4, <1>5, <1>6

\* Nothing in T, nothing to take.
LEMMA NoIds ==
    ASSUME NEW A \in SUBSET Block, NEW s \in Seq(A), NEW T, A \cap T = {}
    PROVE  FlatMap(IdsIn(Block, T), s) = <<>>
<1>1. \A i \in DOMAIN s : s[i] \in A
  OBVIOUS
<1>2. \A i \in DOMAIN s : IdsIn(Block, T)[s[i]] = IdsIn(A, {})[s[i]]
  BY <1>1 DEF IdsIn
<1>3. FlatMap(IdsIn(Block, T), s) = FlatMap(IdsIn(A, {}), s)
  BY <1>2, FlatMapAgree
<1>4. IdsIn(A, {}) \in Mappers(A, Nat) /\ \A a \in A : IdsIn(A, {})[a] = <<>>
  <2>1. \A a \in A : a.id \in Nat
    BY BlockIds
  <2> QED
    BY <2>1, IdsInMaps DEF IdsIn
<1> HIDE DEF IdsIn
<1> QED
  BY <1>3, <1>4, FlatMapNothing

\* The ids of the items of a Codex request that have one of these types.
ItemIds(types) == [x \in Codex!Item |-> IF x.type \in types THEN x.ids ELSE <<>>]

LEMMA ItemIdsMaps ==
    ASSUME NEW types
    PROVE  ItemIds(types) \in Mappers(Codex!Item, Nat)
<1>1. ASSUME NEW x \in Codex!Item
      PROVE  (IF x.type \in types THEN x.ids ELSE <<>>) \in Seq(Nat)
  <2>1. x.ids \in Seq(Nat)
    BY DEF Codex!Item
  <2> QED
    BY <2>1
<1> QED
  BY <1>1 DEF ItemIds, Mappers

LEMMA CodexItemsOf ==
    ASSUME NEW s \in Seq(Block), NEW type \in Codex!ItemTypes, NEW types
    PROVE  LET items == [i \in DOMAIN s |-> Codex!ItemFor(type, s[i])]
           IN  /\ items \in Seq(Codex!Item)
               /\ FlatMap(ItemIds(types), items) = IF type \in types THEN Ids(s) ELSE <<>>
<1> DEFINE make == [b \in Block |-> Codex!ItemFor(type, b)]
           ids == ItemIds(types)
<1>1. ASSUME NEW b \in Block
      PROVE  /\ make[b] \in Codex!Item
             /\ make[b] = Codex!ItemFor(type, b)
             /\ ids[make[b]] = IF type \in types THEN <<b.id>> ELSE <<>>
  <2>1. <<b.id>> \in Seq(Nat)
    BY BlockIds
  <2>2. Codex!ItemFor(type, b) \in Codex!Item
    BY <2>1 DEF Codex!ItemFor, Codex!Item
  <2>3. Codex!ItemFor(type, b).type = type /\ Codex!ItemFor(type, b).ids = <<b.id>>
    BY DEF Codex!ItemFor
  <2> QED
    BY <2>2, <2>3 DEF ItemIds
<1>2. make \in [Block -> Codex!Item]
  BY <1>1
<1>3. ids \in Mappers(Codex!Item, Nat)
  BY ItemIdsMaps
<1> HIDE DEF make, ids
<1>4. MapSeq(make, s) = [i \in DOMAIN s |-> Codex!ItemFor(type, s[i])]
  <2>1. \A i \in DOMAIN s : s[i] \in Block
    OBVIOUS
  <2>2. \A i \in DOMAIN s : make[s[i]] = Codex!ItemFor(type, s[i])
    BY <1>1, <2>1
  <2> QED
    BY <2>2 DEF MapSeq
<1>5. /\ MapSeq(make, s) \in Seq(Codex!Item)
      /\ (\A b \in Block : ids[make[b]] = <<b.id>>) => FlatMap(ids, MapSeq(make, s)) = Ids(s)
      /\ (\A b \in Block : ids[make[b]] = <<>>) => FlatMap(ids, MapSeq(make, s)) = <<>>
  BY <1>2, <1>3, OnePerBlock
<1>6. FlatMap(ids, MapSeq(make, s)) = IF type \in types THEN Ids(s) ELSE <<>>
  BY <1>1, <1>5
<1> QED
  BY <1>4, <1>5, <1>6 DEF ids

\* The blocks whose reasoning the Codex backend is shown again.
CodexSealed == {b \in Block : b.type = "thinking" /\ b.signature = CodexSigned}

LEMMA ReplayedIsFlat ==
    ASSUME NEW s \in Seq(Block)
    PROVE  LET replayed == Codex!Select(s, LAMBDA b : /\ b.type = "thinking"
                                                      /\ Codex!DecodeReasoning(b.signature))
           IN  /\ replayed \in Seq(Block)
               /\ Ids(replayed) = FlatMap(IdsIn(Block, CodexSealed), s)
<1> DEFINE g == Chosen(Block, CodexSealed)
           replayed == Codex!Select(s, LAMBDA b : /\ b.type = "thinking"
                                                  /\ Codex!DecodeReasoning(b.signature))
<1>1. \A i \in DOMAIN s : s[i] \in Block
  OBVIOUS
<1>2. \A b \in Block :
         g[b] = IF b.type = "thinking" /\ Codex!DecodeReasoning(b.signature)
                THEN <<b>> ELSE <<>>
  BY DEF Chosen, CodexSealed, Codex!DecodeReasoning, Codex!CodexSigned, CodexSigned
<1>3. Ids(FlatMap(g, s)) = FlatMap(IdsIn(Block, CodexSealed), s)
  BY BlockIds, ChosenIds
<1>4. FlatMap(g, s) \in Seq(Block)
  BY BlockIds, FlatMapType
<1> HIDE DEF g
<1>5. MapSeq(g, s)
         = [i \in DOMAIN s |-> IF s[i].type = "thinking"
                                  /\ Codex!DecodeReasoning(s[i].signature)
                               THEN <<s[i]>> ELSE <<>>]
  BY <1>1, <1>2 DEF MapSeq
<1>6. replayed = FlatMap(g, s)
  BY <1>5, SameFlattening DEF Codex!Select, FlatMap
<1> QED
  BY <1>3, <1>4, <1>6

\* At most one message, of the blocks given, if there are any.
LEMMA CodexMessageOf ==
    ASSUME NEW s \in Seq(Block), NEW role \in {"user", "assistant"}, NEW types
    PROVE  LET items == IF s = <<>> THEN <<>>
                        ELSE <<[type |-> "message", role |-> role, ids |-> Ids(s)]>>
           IN  /\ items \in Seq(Codex!Item)
               /\ FlatMap(ItemIds(types), items)
                     = IF "message" \in types THEN Ids(s) ELSE <<>>
<1> DEFINE x == [type |-> "message", role |-> role, ids |-> Ids(s)]
<1>1. Ids(s) \in Seq(Nat) /\ (s = <<>> => Ids(s) = <<>>)
  <2>1. DOMAIN s = 1 .. Len(s) /\ Len(s) \in Nat /\ \A i \in 1 .. Len(s) : s[i].id \in Nat
    BY BlockIds, ElementOfSeq
  <2>2. Ids(s) = [i \in 1 .. Len(s) |-> s[i].id]
    BY <2>1 DEF Ids
  <2>3. Ids(s) \in Seq(Nat)
    BY <2>1, <2>2
  <2>4. s = <<>> => Ids(s) = <<>>
    BY DEF Ids
  <2> QED
    BY <2>3, <2>4
<1>2. x \in Codex!Item
  BY <1>1 DEF Codex!Item, Codex!ItemTypes, Codex!Roles
<1>3. ItemIds(types)[x] = IF "message" \in types THEN Ids(s) ELSE <<>>
  BY <1>2 DEF ItemIds
<1> HIDE DEF x
<1>4. FlatMap(ItemIds(types), <<x>>) = ItemIds(types)[x]
  BY <1>2, ItemIdsMaps, FlatMapSingle
<1>5. <<x>> \in Seq(Codex!Item) /\ <<>> \in Seq(Codex!Item)
  BY <1>2
<1>6. CASE s = <<>>
  BY <1>1, <1>5, <1>6, FlatMapEmpty, Zenon
<1>7. CASE s # <<>>
  BY <1>3, <1>4, <1>5, <1>7, Zenon DEF x
<1> QED
  BY <1>6, <1>7

\* What becomes of an assistant's message: reasoning, its text, its calls.
LEMMA CodexAssistant ==
    ASSUME NEW s \in Seq(Block), NEW types
    PROVE  LET sealed == FlatMap(IdsIn(Block, CodexSealed), s)
               texts  == Ids(Of("text", s))
               calls  == Ids(Of("tool_use", s))
           IN  /\ Codex!assistantItems(s) \in Seq(Codex!Item)
               /\ FlatMap(ItemIds(types), Codex!assistantItems(s))
                     = ((IF "reasoning" \in types THEN sealed ELSE <<>>)
                        \o (IF "message" \in types THEN texts ELSE <<>>))
                       \o (IF "function_call" \in types THEN calls ELSE <<>>)
<1> DEFINE replayed == Codex!Select(s, LAMBDA b : /\ b.type = "thinking"
                                                  /\ Codex!DecodeReasoning(b.signature))
           texts == Of("text", s)
           calls == Of("tool_use", s)
           r == [i \in DOMAIN replayed |-> Codex!ItemFor("reasoning", replayed[i])]
           t == IF texts = <<>> THEN <<>>
                ELSE <<[type |-> "message", role |-> "assistant", ids |-> Ids(texts)]>>
           c == [i \in DOMAIN calls |-> Codex!ItemFor("function_call", calls[i])]
           g == ItemIds(types)
<1>1. replayed \in Seq(Block) /\ texts \in Seq(Block) /\ calls \in Seq(Block)
      /\ Ids(replayed) = FlatMap(IdsIn(Block, CodexSealed), s)
  BY ReplayedIsFlat, OfIds
<1>2. Codex!assistantItems(s) = (r \o t) \o c
  BY SameSelection DEF Codex!assistantItems
<1> HIDE DEF replayed, texts, calls
<1>3. /\ r \in Seq(Codex!Item)
      /\ FlatMap(g, r) = IF "reasoning" \in types THEN Ids(replayed) ELSE <<>>
  BY <1>1, CodexItemsOf DEF Codex!ItemTypes
<1>4. /\ t \in Seq(Codex!Item)
      /\ FlatMap(g, t) = IF "message" \in types THEN Ids(texts) ELSE <<>>
  BY <1>1, CodexMessageOf
<1>5. /\ c \in Seq(Codex!Item)
      /\ FlatMap(g, c) = IF "function_call" \in types THEN Ids(calls) ELSE <<>>
  BY <1>1, CodexItemsOf DEF Codex!ItemTypes
<1>6. g \in Mappers(Codex!Item, Nat)
  BY ItemIdsMaps
<1> HIDE DEF r, t, c, g
<1>7. /\ \A x, y \in Seq(Codex!Item) : FlatMap(g, x \o y) = FlatMap(g, x) \o FlatMap(g, y)
      /\ \A x, y \in Seq(Codex!Item) : x \o y \in Seq(Codex!Item)
  BY <1>6, FlatMapConcat, ConcatProperties
<1>8. r \o t \in Seq(Codex!Item) /\ (r \o t) \o c \in Seq(Codex!Item)
  BY <1>3, <1>4, <1>5, <1>7, Zenon
<1>9. FlatMap(g, (r \o t) \o c) = (FlatMap(g, r) \o FlatMap(g, t)) \o FlatMap(g, c)
  <2>1. FlatMap(g, (r \o t) \o c) = FlatMap(g, r \o t) \o FlatMap(g, c)
    BY <1>5, <1>7, <1>8, Zenon
  <2>2. FlatMap(g, r \o t) = FlatMap(g, r) \o FlatMap(g, t)
    BY <1>3, <1>4, <1>7, Zenon
  <2> QED
    BY <2>1, <2>2, Zenon
<1>10. FlatMap(g, Codex!assistantItems(s))
          = (FlatMap(g, r) \o FlatMap(g, t)) \o FlatMap(g, c)
  BY <1>2, <1>9, Zenon
<1>11. Codex!assistantItems(s) \in Seq(Codex!Item)
  BY <1>2, <1>8, Zenon
<1>12. FlatMap(g, r) = IF "reasoning" \in types THEN FlatMap(IdsIn(Block, CodexSealed), s)
                                                 ELSE <<>>
  BY <1>1, <1>3, Zenon
<1> QED
  BY <1>4, <1>5, <1>10, <1>11, <1>12, Zenon DEF g, texts, calls

LEMMA CodexUser ==
    ASSUME NEW s \in Seq(Block), NEW types
    PROVE  /\ Codex!userMessage(s) \in Seq(Codex!Item)
           /\ FlatMap(ItemIds(types), Codex!userMessage(s))
                 = IF "message" \in types THEN FlatMap(IdsIn(Block, Typed(Sayable)), s)
                   ELSE <<>>
<1> DEFINE parts == Select(s, LAMBDA b : b.type \in {"text", "image"})
           items == IF parts = <<>> THEN <<>>
                    ELSE <<[type |-> "message", role |-> "user", ids |-> Ids(parts)]>>
<1>1. parts \in Seq(Block) /\ Ids(parts) = FlatMap(IdsIn(Block, Typed(Sayable)), s)
  BY TextAndImages
<1>2. Codex!userMessage(s) = items
  BY SameFlattening DEF Codex!userMessage, Codex!Select, Codex!Ids, Select, Ids
<1> HIDE DEF parts
<1>3. /\ items \in Seq(Codex!Item)
      /\ FlatMap(ItemIds(types), items) = IF "message" \in types THEN Ids(parts) ELSE <<>>
  BY <1>1, CodexMessageOf
<1> QED
  BY <1>1, <1>2, <1>3, Zenon

\* The blocks that items of a type are made of.
CodexSource(type) ==
    CASE type = "reasoning"            -> CodexSealed
      [] type = "message"              -> Typed(Sayable)
      [] type = "function_call"        -> Typed({"tool_use"})
      [] type = "function_call_output" -> Typed({"tool_result"})

LEMMA CodexResults ==
    ASSUME NEW s \in Seq(Block), NEW types
    PROVE  /\ Codex!ToolResults(s) \in Seq(Codex!Item)
           /\ FlatMap(ItemIds(types), Codex!ToolResults(s))
                 = IF "function_call_output" \in types
                   THEN FlatMap(IdsIn(Block, Typed({"tool_result"})), s) ELSE <<>>
<1> DEFINE results == Of("tool_result", s)
           items == [i \in DOMAIN results |->
                        Codex!ItemFor("function_call_output", results[i])]
<1>1. results \in Seq(Block) /\ Ids(results) = FlatMap(IdsIn(Block, Typed({"tool_result"})), s)
  BY OfIds
<1>2. Codex!ToolResults(s) = items
  BY SameSelection DEF Codex!ToolResults
<1> HIDE DEF results
<1>3. /\ items \in Seq(Codex!Item)
      /\ FlatMap(ItemIds(types), items)
            = IF "function_call_output" \in types THEN Ids(results) ELSE <<>>
  BY <1>1, CodexItemsOf DEF Codex!ItemTypes
<1> QED
  BY <1>1, <1>2, <1>3, Zenon

\* A message's items of one type have the ids of its blocks they are made of.
LEMMA CodexKeepsMessage ==
    ASSUME NEW m \in Turn, NEW type \in Codex!ItemTypes
    PROVE  /\ Codex!translateMessage(m) \in Seq(Codex!Item)
           /\ FlatMap(ItemIds({type}), Codex!translateMessage(m))
                 = IdsOfTurn(CodexSource(type))[m]
<1> DEFINE s == m.content
           g == ItemIds({type})
           rest == IF m.role = "assistant" THEN Codex!assistantItems(s)
                   ELSE Codex!userMessage(s)
           results == Codex!ToolResults(s)
           took == FlatMap(IdsIn(Block, CodexSource(type)), s)
<1>1. s \in Seq(Block) /\ Codex!translateMessage(m) = results \o rest
  BY TurnContent DEF Codex!translateMessage
<1>2. IdsOfTurn(CodexSource(type))[m] = took
  BY DEF IdsOfTurn
<1>3. results \in Seq(Codex!Item) /\ rest \in Seq(Codex!Item)
  BY <1>1, CodexResults, CodexAssistant, CodexUser
<1>4. /\ FlatMap(g, results \o rest) = FlatMap(g, results) \o FlatMap(g, rest)
      /\ results \o rest \in Seq(Codex!Item)
  <2> HIDE DEF results, rest, g
  <2>1. g \in Mappers(Codex!Item, Nat)
    BY ItemIdsMaps DEF g
  <2>2. /\ \A x, y \in Seq(Codex!Item) :
              FlatMap(g, x \o y) = FlatMap(g, x) \o FlatMap(g, y)
        /\ \A x, y \in Seq(Codex!Item) : x \o y \in Seq(Codex!Item)
    BY <2>1, FlatMapConcat, ConcatProperties
  <2> QED
    BY <1>3, <2>2, Zenon
<1>5. \A T : FlatMap(IdsIn(Block, T), s) \in Seq(Nat)
  BY <1>1, BlockIds, FlatMapType
<1>6. \A x \in Seq(Nat) : x \o <<>> = x /\ <<>> \o x = x
  BY ConcatEmptySeq
<1>7. <<>> \in Seq(Nat)
  OBVIOUS
<1>8. FlatMap(g, results) = IF type = "function_call_output" THEN took ELSE <<>>
  <2>1. FlatMap(g, results) = IF "function_call_output" \in {type}
                              THEN FlatMap(IdsIn(Block, Typed({"tool_result"})), s) ELSE <<>>
    BY <1>1, CodexResults
  <2> QED
    BY <2>1 DEF CodexSource
<1>9. FlatMap(g, rest) = IF type = "function_call_output" THEN <<>> ELSE took
  <2>1. CASE m.role = "assistant"
    <3>1. s \in Seq(AnswerBlock) /\ AnswerBlock \in SUBSET Block
      BY <2>1, BlockSets DEF Turn, Prompted, Answered
    <3>2. FlatMap(g, rest)
             = ((IF "reasoning" \in {type} THEN FlatMap(IdsIn(Block, CodexSealed), s) ELSE <<>>)
                \o (IF "message" \in {type} THEN Ids(Of("text", s)) ELSE <<>>))
               \o (IF "function_call" \in {type} THEN Ids(Of("tool_use", s)) ELSE <<>>)
      BY <1>1, <2>1, CodexAssistant
    <3>3. Ids(Of("text", s)) = FlatMap(IdsIn(Block, Typed(Sayable)), s)
      <4>1. AnswerBlock \cap Typed({"text"}) = AnswerBlock \cap Typed(Sayable)
        BY DEF AnswerBlock, AnswerTypes, Typed, Sayable
      <4>2. FlatMap(IdsIn(Block, Typed({"text"})), s) = FlatMap(IdsIn(Block, Typed(Sayable)), s)
        BY <3>1, <4>1, SameIds
      <4> QED
        BY <1>1, <4>2, OfIds
    <3>4. Ids(Of("tool_use", s)) = FlatMap(IdsIn(Block, Typed({"tool_use"})), s)
      BY <1>1, OfIds
    <3> HIDE DEF rest, g, s
    <3>5. CASE type = "reasoning"
      <4>1. FlatMap(g, rest) = (took \o <<>>) \o <<>>
        BY <3>2, <3>5 DEF CodexSource
      <4> QED
        BY <1>5, <1>6, <3>5, <4>1
    <3>6. CASE type = "message"
      <4>1. FlatMap(g, rest) = (<<>> \o took) \o <<>>
        BY <3>2, <3>3, <3>6 DEF CodexSource
      <4> QED
        BY <1>5, <1>6, <3>6, <4>1
    <3>7. CASE type = "function_call"
      <4>1. FlatMap(g, rest) = (<<>> \o <<>>) \o took
        BY <3>2, <3>4, <3>7 DEF CodexSource
      <4> QED
        BY <1>5, <1>6, <1>7, <3>7, <4>1
    <3>8. CASE type = "function_call_output"
      <4>1. FlatMap(g, rest) = (<<>> \o <<>>) \o <<>>
        BY <3>2, <3>8
      <4> QED
        BY <1>6, <1>7, <3>8, <4>1
    <3> QED
      BY <3>5, <3>6, <3>7, <3>8 DEF Codex!ItemTypes
  <2>2. CASE m.role # "assistant"
    <3>1. s \in Seq(UserBlock) /\ UserBlock \in SUBSET Block
      BY <2>2, BlockSets DEF Turn, Prompted, Answered
    <3>2. FlatMap(g, rest) = IF "message" \in {type}
                             THEN FlatMap(IdsIn(Block, Typed(Sayable)), s) ELSE <<>>
      BY <1>1, <2>2, CodexUser
    <3>3. FlatMap(IdsIn(Block, CodexSealed), s) = <<>>
      <4>1. UserBlock \cap CodexSealed = {}
        BY DEF UserBlock, UserTypes, CodexSealed
      <4> QED
        BY <3>1, <4>1, NoIds
    <3>4. FlatMap(IdsIn(Block, Typed({"tool_use"})), s) = <<>>
      <4>1. UserBlock \cap Typed({"tool_use"}) = {}
        BY DEF UserBlock, UserTypes, Typed
      <4> QED
        BY <3>1, <4>1, NoIds
    <3> QED
      BY <3>2, <3>3, <3>4 DEF CodexSource, Codex!ItemTypes
  <2> QED
    BY <2>1, <2>2
<1>10. took \in Seq(Nat)
  BY <1>5
<1> HIDE DEF results, rest, g, took
<1> QED
  BY <1>1, <1>2, <1>3, <1>4, <1>6, <1>8, <1>9, <1>10, Zenon DEF g

LEMMA CodexKeepsHistory ==
    ASSUME NEW h \in Seq(Turn), NEW type \in Codex!ItemTypes
    PROVE  /\ CodexMessages(h) \in Seq(Codex!Item)
           /\ FlatMap(ItemIds({type}), CodexMessages(h))
                 = FlatMap(IdsIn(Block, CodexSource(type)), Blocks(h))
<1> DEFINE turn == [m \in Turn |-> Codex!translateMessage(m)]
<1>1. turn \in Mappers(Turn, Codex!Item)
  BY CodexKeepsMessage DEF Mappers
<1>2. \A m \in Turn : FlatMap(ItemIds({type}), turn[m]) = IdsOfTurn(CodexSource(type))[m]
  BY CodexKeepsMessage
<1>3. CodexMessages(h) = FlatMap(turn, h)
  <2>1. \A i \in DOMAIN h : h[i] \in Turn
    OBVIOUS
  <2>2. MapSeq(turn, h) = [i \in DOMAIN h |-> Codex!translateMessage(h[i])]
    BY <2>1 DEF MapSeq
  <2> QED
    BY <2>2 DEF CodexMessages, FlatMap
<1> HIDE DEF turn
<1>4. /\ IdsOfTurn(CodexSource(type)) \in Mappers(Turn, Nat)
      /\ FlatMap(IdsIn(Block, CodexSource(type)), Blocks(h))
            = FlatMap(IdsOfTurn(CodexSource(type)), h)
  BY HistoryIds
<1>5. FlatMap(ItemIds({type}), FlatMap(turn, h)) = FlatMap(IdsOfTurn(CodexSource(type)), h)
  <2> DEFINE ids == ItemIds({type})
             took == IdsOfTurn(CodexSource(type))
  <2>1. ids \in Mappers(Codex!Item, Nat) /\ took \in Mappers(Turn, Nat)
    BY <1>4, ItemIdsMaps
  <2>2. \A m \in Turn : FlatMap(ids, turn[m]) = took[m]
    BY <1>2
  <2> HIDE DEF ids, took
  <2>3. FlatMap(ids, FlatMap(turn, h)) = FlatMap(took, h)
    BY <1>1, <2>1, <2>2, FlatMapTwice
  <2> QED
    BY <2>3 DEF ids, took
<1>6. FlatMap(turn, h) \in Seq(Codex!Item)
  BY <1>1, FlatMapType
<1> QED
  BY <1>3, <1>4, <1>5, <1>6

-----------------------------------------------------------------------------
(* The same for a chat backend.                                            *)

\* What a message holds that can be told apart: what was said, the results of
\* calls, and calls.
ChatParts == {"said", "results", "calls"}

ChatIds(part) ==
    [x \in Chat!ChatMsg |->
        CASE part = "said"    -> IF x.role # "tool" THEN x.ids ELSE <<>>
          [] part = "results" -> IF x.role = "tool" THEN x.ids ELSE <<>>
          [] part = "calls"   -> x.calls]

ChatSource(part) ==
    CASE part = "said"    -> Typed(Sayable)
      [] part = "results" -> Typed({"tool_result"})
      [] part = "calls"   -> Typed({"tool_use"})

LEMMA ChatIdsMaps ==
    ASSUME NEW part \in ChatParts
    PROVE  ChatIds(part) \in Mappers(Chat!ChatMsg, Nat)
<1>1. ASSUME NEW x \in Chat!ChatMsg
      PROVE  (CASE part = "said"    -> IF x.role # "tool" THEN x.ids ELSE <<>>
                [] part = "results" -> IF x.role = "tool" THEN x.ids ELSE <<>>
                [] part = "calls"   -> x.calls) \in Seq(Nat)
  <2>1. x.ids \in Seq(Nat) /\ x.calls \in Seq(Nat)
    BY DEF Chat!ChatMsg
  <2> QED
    BY <2>1 DEF ChatParts
<1> QED
  BY <1>1 DEF ChatIds, Mappers

LEMMA ChatResults ==
    ASSUME NEW s \in Seq(Block), NEW part \in ChatParts
    PROVE  /\ Chat!ToolMessages(s) \in Seq(Chat!ChatMsg)
           /\ FlatMap(ChatIds(part), Chat!ToolMessages(s))
                 = IF part = "results" THEN FlatMap(IdsIn(Block, Typed({"tool_result"})), s)
                   ELSE <<>>
<1> DEFINE Made(b) == [role |-> "tool", ids |-> <<b.id>>, calls |-> <<>>]
           make == [b \in Block |-> Made(b)]
           results == Of("tool_result", s)
           ids == ChatIds(part)
<1>1. results \in Seq(Block) /\ Ids(results) = FlatMap(IdsIn(Block, Typed({"tool_result"})), s)
  BY OfIds
<1>2. ASSUME NEW b \in Block
      PROVE  /\ make[b] \in Chat!ChatMsg
             /\ ids[make[b]] = IF part = "results" THEN <<b.id>> ELSE <<>>
  <2>1. <<b.id>> \in Seq(Nat)
    BY BlockIds
  <2>2. Made(b) \in Chat!ChatMsg
    BY <2>1 DEF Chat!ChatMsg
  <2>3. make[b] = Made(b)
    OBVIOUS
  <2> QED
    BY <2>2, <2>3 DEF ChatIds, ChatParts
<1>3. Chat!ToolMessages(s) = [i \in DOMAIN results |-> Made(results[i])]
  BY SameSelection DEF Chat!ToolMessages
<1>4. make \in [Block -> Chat!ChatMsg] /\ \A b \in Block : make[b] = Made(b)
  BY <1>2
<1>5. ids \in Mappers(Chat!ChatMsg, Nat)
  BY ChatIdsMaps
<1> HIDE DEF make, ids, results, Made
<1>6. MapSeq(make, results) = Chat!ToolMessages(s)
  <2>1. \A i \in DOMAIN results : results[i] \in Block
    BY <1>1
  <2>2. \A i \in DOMAIN results : make[results[i]] = Made(results[i])
    BY <1>4, <2>1
  <2> QED
    BY <1>3, <2>2 DEF MapSeq
<1>7. /\ MapSeq(make, results) \in Seq(Chat!ChatMsg)
      /\ (\A b \in Block : ids[make[b]] = <<b.id>>)
            => FlatMap(ids, MapSeq(make, results)) = Ids(results)
      /\ (\A b \in Block : ids[make[b]] = <<>>)
            => FlatMap(ids, MapSeq(make, results)) = <<>>
  BY <1>1, <1>4, <1>5, OnePerBlock
<1>8. FlatMap(ids, MapSeq(make, results)) = IF part = "results" THEN Ids(results) ELSE <<>>
  BY <1>2, <1>7
<1> QED
  BY <1>1, <1>6, <1>7, <1>8, Zenon DEF ids

LEMMA ChatAssistant ==
    ASSUME NEW s \in Seq(Block), NEW part \in ChatParts
    PROVE  /\ Chat!assistantMessage(s) \in Seq(Chat!ChatMsg)
           /\ FlatMap(ChatIds(part), Chat!assistantMessage(s))
                 = CASE part = "said"    -> Ids(Of("text", s))
                     [] part = "results" -> <<>>
                     [] part = "calls"   -> Ids(Of("tool_use", s))
<1> DEFINE texts == Ids(Of("text", s))
           calls == Ids(Of("tool_use", s))
           x == [role |-> "assistant", ids |-> texts, calls |-> calls]
<1>1. texts \in Seq(Nat) /\ calls \in Seq(Nat)
  BY OfIds
<1>2. Chat!assistantMessage(s) = IF texts = <<>> /\ calls = <<>> THEN <<>> ELSE <<x>>
  BY SameSelection DEF Chat!assistantMessage
<1> HIDE DEF texts, calls
<1>3. x \in Chat!ChatMsg
  BY <1>1 DEF Chat!ChatMsg
<1>4. ChatIds(part)[x] = CASE part = "said"    -> texts
                           [] part = "results" -> <<>>
                           [] part = "calls"   -> calls
  BY <1>3 DEF ChatIds, ChatParts
<1> HIDE DEF x
<1>5. FlatMap(ChatIds(part), <<x>>) = ChatIds(part)[x] /\ FlatMap(ChatIds(part), <<>>) = <<>>
  BY <1>3, ChatIdsMaps, FlatMapSingle, FlatMapEmpty
<1>6. <<x>> \in Seq(Chat!ChatMsg) /\ <<>> \in Seq(Chat!ChatMsg)
  BY <1>3
<1>7. CASE texts = <<>> /\ calls = <<>>
  <2>1. Chat!assistantMessage(s) = <<>>
    BY <1>2, <1>7
  <2>2. (CASE part = "said" -> texts [] part = "results" -> <<>> [] part = "calls" -> calls)
           = <<>>
    BY <1>7 DEF ChatParts
  <2> QED
    BY <1>5, <1>6, <2>1, <2>2, Zenon DEF texts, calls
<1>8. CASE ~(texts = <<>> /\ calls = <<>>)
  <2>1. Chat!assistantMessage(s) = <<x>>
    BY <1>2, <1>8
  <2> QED
    BY <1>4, <1>5, <1>6, <2>1, Zenon DEF texts, calls
<1> QED
  BY <1>7, <1>8

LEMMA ChatUser ==
    ASSUME NEW s \in Seq(Block), NEW part \in ChatParts
    PROVE  /\ Chat!userMessage(s) \in Seq(Chat!ChatMsg)
           /\ FlatMap(ChatIds(part), Chat!userMessage(s))
                 = IF part = "said" THEN FlatMap(IdsIn(Block, Typed(Sayable)), s) ELSE <<>>
<1> DEFINE parts == Select(s, LAMBDA b : b.type \in {"text", "image"})
           x == [role |-> "user", ids |-> Ids(parts), calls |-> <<>>]
<1>1. /\ Ids(parts) = FlatMap(IdsIn(Block, Typed(Sayable)), s) /\ Ids(parts) \in Seq(Nat)
      /\ parts = <<>> => Ids(parts) = <<>>
  BY TextAndImages DEF Ids
<1>2. Chat!userMessage(s) = IF parts = <<>> THEN <<>> ELSE <<x>>
  BY SameFlattening DEF Chat!userMessage, Chat!Select, Chat!Ids, Select, Ids
<1> HIDE DEF parts
<1>3. x \in Chat!ChatMsg
  BY <1>1 DEF Chat!ChatMsg
<1>4. ChatIds(part)[x] = IF part = "said" THEN Ids(parts) ELSE <<>>
  BY <1>3 DEF ChatIds, ChatParts
<1> HIDE DEF x
<1>5. FlatMap(ChatIds(part), <<x>>) = ChatIds(part)[x] /\ FlatMap(ChatIds(part), <<>>) = <<>>
  BY <1>3, ChatIdsMaps, FlatMapSingle, FlatMapEmpty
<1>6. <<x>> \in Seq(Chat!ChatMsg) /\ <<>> \in Seq(Chat!ChatMsg)
  BY <1>3
<1>7. CASE parts = <<>>
  BY <1>1, <1>2, <1>5, <1>6, <1>7, Zenon
<1>8. CASE parts # <<>>
  BY <1>1, <1>2, <1>4, <1>5, <1>6, <1>8, Zenon
<1> QED
  BY <1>7, <1>8

LEMMA ChatKeepsMessage ==
    ASSUME NEW m \in Turn, NEW part \in ChatParts
    PROVE  /\ Chat!translateMessage(m) \in Seq(Chat!ChatMsg)
           /\ FlatMap(ChatIds(part), Chat!translateMessage(m)) = IdsOfTurn(ChatSource(part))[m]
<1> DEFINE s == m.content
           g == ChatIds(part)
           rest == IF m.role = "assistant" THEN Chat!assistantMessage(s)
                   ELSE Chat!userMessage(s)
           results == Chat!ToolMessages(s)
           took == FlatMap(IdsIn(Block, ChatSource(part)), s)
<1>1. s \in Seq(Block) /\ Chat!translateMessage(m) = results \o rest
  BY TurnContent DEF Chat!translateMessage
<1>2. IdsOfTurn(ChatSource(part))[m] = took
  BY DEF IdsOfTurn
<1>3. results \in Seq(Chat!ChatMsg) /\ rest \in Seq(Chat!ChatMsg)
  BY <1>1, ChatResults, ChatAssistant, ChatUser
<1>4. /\ FlatMap(g, results \o rest) = FlatMap(g, results) \o FlatMap(g, rest)
      /\ results \o rest \in Seq(Chat!ChatMsg)
  <2> HIDE DEF results, rest, g
  <2>1. g \in Mappers(Chat!ChatMsg, Nat)
    BY ChatIdsMaps DEF g
  <2>2. /\ \A x, y \in Seq(Chat!ChatMsg) :
              FlatMap(g, x \o y) = FlatMap(g, x) \o FlatMap(g, y)
        /\ \A x, y \in Seq(Chat!ChatMsg) : x \o y \in Seq(Chat!ChatMsg)
    BY <2>1, FlatMapConcat, ConcatProperties
  <2> QED
    BY <1>3, <2>2, Zenon
<1>5. took \in Seq(Nat)
  BY <1>1, BlockIds, FlatMapType
<1>6. \A x \in Seq(Nat) : x \o <<>> = x /\ <<>> \o x = x
  BY ConcatEmptySeq
<1>7. FlatMap(g, results) = IF part = "results" THEN took ELSE <<>>
  BY <1>1, ChatResults DEF ChatSource
<1>8. FlatMap(g, rest) = IF part = "results" THEN <<>> ELSE took
  <2>1. CASE m.role = "assistant"
    <3>1. s \in Seq(AnswerBlock) /\ AnswerBlock \in SUBSET Block
      BY <2>1, BlockSets DEF Turn, Prompted, Answered
    <3>2. FlatMap(g, rest) = CASE part = "said"    -> Ids(Of("text", s))
                               [] part = "results" -> <<>>
                               [] part = "calls"   -> Ids(Of("tool_use", s))
      BY <1>1, <2>1, ChatAssistant
    <3>3. Ids(Of("text", s)) = FlatMap(IdsIn(Block, Typed(Sayable)), s)
      <4>1. AnswerBlock \cap Typed({"text"}) = AnswerBlock \cap Typed(Sayable)
        BY DEF AnswerBlock, AnswerTypes, Typed, Sayable
      <4>2. FlatMap(IdsIn(Block, Typed({"text"})), s) = FlatMap(IdsIn(Block, Typed(Sayable)), s)
        BY <3>1, <4>1, SameIds
      <4> QED
        BY <1>1, <4>2, OfIds
    <3>4. Ids(Of("tool_use", s)) = FlatMap(IdsIn(Block, Typed({"tool_use"})), s)
      BY <1>1, OfIds
    <3> QED
      BY <3>2, <3>3, <3>4 DEF ChatSource, ChatParts
  <2>2. CASE m.role # "assistant"
    <3>1. s \in Seq(UserBlock) /\ UserBlock \in SUBSET Block
      BY <2>2, BlockSets DEF Turn, Prompted, Answered
    <3>2. FlatMap(g, rest) = IF part = "said"
                             THEN FlatMap(IdsIn(Block, Typed(Sayable)), s) ELSE <<>>
      BY <1>1, <2>2, ChatUser
    <3>3. FlatMap(IdsIn(Block, Typed({"tool_use"})), s) = <<>>
      <4>1. UserBlock \cap Typed({"tool_use"}) = {}
        BY DEF UserBlock, UserTypes, Typed
      <4> QED
        BY <3>1, <4>1, NoIds
    <3> QED
      BY <3>2, <3>3 DEF ChatSource, ChatParts
  <2> QED
    BY <2>1, <2>2
<1> HIDE DEF results, rest, g, took
<1> QED
  BY <1>1, <1>2, <1>4, <1>5, <1>6, <1>7, <1>8, Zenon DEF g

LEMMA ChatKeepsHistory ==
    ASSUME NEW h \in Seq(Turn), NEW part \in ChatParts
    PROVE  /\ ChatMessages(h) \in Seq(Chat!ChatMsg)
           /\ FlatMap(ChatIds(part), ChatMessages(h))
                 = FlatMap(IdsIn(Block, ChatSource(part)), Blocks(h))
<1> DEFINE turn == [m \in Turn |-> Chat!translateMessage(m)]
<1>1. turn \in Mappers(Turn, Chat!ChatMsg)
  BY ChatKeepsMessage DEF Mappers
<1>2. \A m \in Turn : FlatMap(ChatIds(part), turn[m]) = IdsOfTurn(ChatSource(part))[m]
  BY ChatKeepsMessage
<1>3. ChatMessages(h) = FlatMap(turn, h)
  <2>1. \A i \in DOMAIN h : h[i] \in Turn
    OBVIOUS
  <2>2. MapSeq(turn, h) = [i \in DOMAIN h |-> Chat!translateMessage(h[i])]
    BY <2>1 DEF MapSeq
  <2> QED
    BY <2>2 DEF ChatMessages, FlatMap
<1> HIDE DEF turn
<1>4. /\ IdsOfTurn(ChatSource(part)) \in Mappers(Turn, Nat)
      /\ FlatMap(IdsIn(Block, ChatSource(part)), Blocks(h))
            = FlatMap(IdsOfTurn(ChatSource(part)), h)
  BY HistoryIds
<1>5. FlatMap(ChatIds(part), FlatMap(turn, h)) = FlatMap(IdsOfTurn(ChatSource(part)), h)
  BY <1>1, <1>2, <1>4, ChatIdsMaps, FlatMapTwice
<1>6. FlatMap(turn, h) \in Seq(Chat!ChatMsg)
  BY <1>1, FlatMapType
<1> QED
  BY <1>3, <1>4, <1>5, <1>6

-----------------------------------------------------------------------------
(* And what the strip leaves of the blocks of a history.                   *)

\* Said by somebody, and nothing Anthropic would refuse.
NativeSaid == {b \in Block : b # Placeholder /\ ~isUnsignedThinking(b)}
Foreign    == {b \in Block : isUnsignedThinking(b)}

LEMMA NativeIsFlat ==
    ASSUME NEW s \in Seq(Block)
    PROVE  Select(s, LAMBDA b : b # Placeholder /\ ~isUnsignedThinking(b))
              = FlatMap(Chosen(Block, NativeSaid), s)
<1> DEFINE g == Chosen(Block, NativeSaid)
<1>1. \A i \in DOMAIN s : s[i] \in Block
  OBVIOUS
<1>2. \A b \in Block :
         g[b] = IF b # Placeholder /\ ~isUnsignedThinking(b) THEN <<b>> ELSE <<>>
  BY DEF Chosen, NativeSaid
<1> HIDE DEF g
<1>3. MapSeq(g, s) = [i \in DOMAIN s |-> IF s[i] # Placeholder /\ ~isUnsignedThinking(s[i])
                                         THEN <<s[i]>> ELSE <<>>]
  BY <1>1, <1>2 DEF MapSeq
<1> QED
  BY <1>3 DEF Select, FlatMap, g

LEMMA ForeignIsFlat ==
    ASSUME NEW s \in Seq(Block)
    PROVE  Select(s, LAMBDA b : isUnsignedThinking(b)) = FlatMap(Chosen(Block, Foreign), s)
<1> DEFINE g == Chosen(Block, Foreign)
<1>1. \A i \in DOMAIN s : s[i] \in Block
  OBVIOUS
<1>2. \A b \in Block : g[b] = IF isUnsignedThinking(b) THEN <<b>> ELSE <<>>
  BY DEF Chosen, Foreign
<1> HIDE DEF g
<1>3. MapSeq(g, s)
         = [i \in DOMAIN s |-> IF isUnsignedThinking(s[i]) THEN <<s[i]>> ELSE <<>>]
  BY <1>1, <1>2 DEF MapSeq
<1> QED
  BY <1>3 DEF Select, FlatMap, g

\* What is chosen of what the strip keeps is chosen of the whole.
LEMMA KeptTwice ==
    ASSUME NEW s \in Seq(Block), NEW N \in SUBSET Native
    PROVE  FlatMap(Chosen(Block, N), Kept(s)) = FlatMap(Chosen(Block, N), s)
<1> DEFINE f == Chosen(Block, Native)
           g == Chosen(Block, N)
<1>1. /\ f \in Mappers(Block, Block) /\ g \in Mappers(Block, Block)
      /\ \A b \in Block : f[b] = IF b \in Native THEN <<b>> ELSE <<>>
      /\ \A b \in Block : b \notin N => g[b] = <<>>
  BY ChosenMaps DEF Chosen
<1> HIDE DEF f, g
<1>2. ASSUME NEW b \in Block
      PROVE  FlatMap(g, f[b]) = g[b]
  <2>1. CASE b \in Native
    <3>1. FlatMap(g, <<b>>) = g[b]
      BY <1>1, FlatMapSingle
    <3> QED
      BY <1>1, <2>1, <3>1
  <2>2. CASE b \notin Native
    BY <1>1, <2>2, FlatMapEmpty
  <2> QED
    BY <2>1, <2>2
<1>3. FlatMap(g, FlatMap(f, s)) = FlatMap(g, s)
  BY <1>1, <1>2, FlatMapTwice
<1> QED
  BY <1>3 DEF Kept, f, g

LEMMA StripKeepsChosen ==
    ASSUME NEW m \in Turn, NEW N \in SUBSET Native, Placeholder \notin N
    PROVE  /\ StripMessage(m).content \in Seq(Native)
           /\ FlatMap(Chosen(Block, N), StripMessage(m).content)
                 = FlatMap(Chosen(Block, N), m.content)
<1> DEFINE s == m.content
           g == Chosen(Block, N)
<1>1. s \in Seq(Block)
  BY TurnContent
<1>2. Native \in SUBSET Block /\ Placeholder \in Native /\ Placeholder \in Block
  BY DEF Native, isUnsignedThinking, Placeholder, Block, BlockTypes, Signatures, NoSignature
<1>3. Kept(s) \in Seq(Native) /\ FlatMap(g, Kept(s)) = FlatMap(g, s)
  <2>1. Kept(s) \in Seq(Native)
    BY <1>1, KeptIsFlat
  <2> QED
    BY <1>1, <1>2, <2>1, KeptTwice
<1>4. CASE Kept(s) = <<>> /\ s # <<>>
  <2>1. StripMessage(m).content = <<Placeholder>>
    BY <1>4, StripKeeps, Zenon
  <2>2. FlatMap(g, <<Placeholder>>) = g[Placeholder] /\ g[Placeholder] = <<>>
    <3>1. g \in Mappers(Block, Block) /\ g[Placeholder] = <<>>
      BY <1>2, BlockIds DEF Chosen
    <3> HIDE DEF g
    <3> QED
      BY <1>2, <3>1, FlatMapSingle
  <2>3. FlatMap(g, s) = <<>>
    BY <1>3, <1>4, FlatMapEmpty, Zenon
  <2>4. <<Placeholder>> \in Seq(Native)
    BY <1>2
  <2> QED
    BY <2>1, <2>2, <2>3, <2>4, Zenon
<1>5. CASE ~(Kept(s) = <<>> /\ s # <<>>)
  <2>1. StripMessage(m).content = Kept(s)
    BY <1>5, StripKeeps, Zenon
  <2> QED
    BY <1>3, <2>1, Zenon
<1> QED
  BY <1>4, <1>5

LEMMA StripKeepsHistory ==
    ASSUME NEW h \in Seq(Turn), NEW N \in SUBSET Native, Placeholder \notin N
    PROVE  LET w == StripUnsignedThinking(h)
           IN  /\ Len(w) = Len(h) /\ Blocks(w) \in Seq(Native)
               /\ FlatMap(Chosen(Block, N), Blocks(w))
                     = FlatMap(Chosen(Block, N), Blocks(h))
<1> DEFINE w == StripUnsignedThinking(h)
           g == Chosen(Block, N)
           stripped == [m \in Turn |-> StripMessage(m).content]
           both == [m \in Turn |-> FlatMap(g, m.content)]
<1>1. DOMAIN h = 1 .. Len(h) /\ Len(h) \in Nat /\ \A i \in DOMAIN h : h[i] \in Turn
  OBVIOUS
<1>2. Len(w) = Len(h) /\ DOMAIN w = DOMAIN h
      /\ \A i \in DOMAIN h : w[i] = StripMessage(h[i])
  BY <1>1 DEF StripUnsignedThinking
<1>3. /\ stripped \in Mappers(Turn, Native) /\ stripped \in Mappers(Turn, Block)
      /\ \A m \in Turn : stripped[m] = StripMessage(m).content
  <2>1. \A m \in Turn : StripMessage(m).content \in Seq(Native)
    BY StripKeepsChosen
  <2>2. Native \subseteq Block
    BY DEF Native
  <2>3. \A m \in Turn : StripMessage(m).content \in Seq(Block)
    BY <2>1, <2>2, SeqMonotonic
  <2> QED
    BY <2>1, <2>3 DEF Mappers
<1>4. Blocks(w) = FlatMap(stripped, h)
  <2> HIDE DEF w
  <2>1. [i \in DOMAIN w |-> w[i].content] = MapSeq(stripped, h)
    BY <1>1, <1>2, <1>3 DEF MapSeq
  <2> QED
    BY <2>1 DEF Blocks, FlatMap
<1>5. g \in Mappers(Block, Block)
  BY BlockIds
<1>6. both \in Mappers(Turn, Block)
  <2> HIDE DEF g
  <2>1. \A m \in Turn : FlatMap(g, m.content) \in Seq(Block)
    BY <1>5, TurnContent, FlatMapType
  <2> QED
    BY <2>1 DEF Mappers
<1>7. /\ \A m \in Turn : FlatMap(g, stripped[m]) = both[m]
      /\ \A m \in Turn : FlatMap(g, Content[m]) = both[m]
  BY StripKeepsChosen DEF Content
<1>8. Blocks(h) = FlatMap(Content, h) /\ Content \in Mappers(Turn, Block)
  BY BlocksAreFlat
<1> HIDE DEF w, g, stripped, both
<1>9. FlatMap(g, FlatMap(stripped, h)) = FlatMap(both, h)
  BY <1>3, <1>5, <1>6, <1>7, FlatMapTwice
<1>10. FlatMap(g, FlatMap(Content, h)) = FlatMap(both, h)
  BY <1>5, <1>6, <1>7, <1>8, FlatMapTwice
<1>11. FlatMap(stripped, h) \in Seq(Native)
  BY <1>3, FlatMapType
<1> QED
  BY <1>2, <1>4, <1>8, <1>9, <1>10, <1>11 DEF w, g

\* Without foreign thinking the strip changes nothing.
LEMMA StripSpares ==
    ASSUME NEW h \in Seq(Turn), FlatMap(Chosen(Block, Foreign), Blocks(h)) = <<>>
    PROVE  StripUnsignedThinking(h) = h
<1> DEFINE g == Chosen(Block, Foreign)
           part == [m \in Turn |-> FlatMap(g, m.content)]
<1>1. g \in Mappers(Block, Block) /\ \A b \in Block : b \in Foreign => g[b] = <<b>>
  BY BlockIds DEF Chosen
<1>2. Blocks(h) = FlatMap(Content, h) /\ Content \in Mappers(Turn, Block)
  BY BlocksAreFlat
<1>3. part \in Mappers(Turn, Block)
  <2> HIDE DEF g
  <2>1. \A m \in Turn : FlatMap(g, m.content) \in Seq(Block)
    BY <1>1, TurnContent, FlatMapType
  <2> QED
    BY <2>1 DEF Mappers
<1>4. \A m \in Turn : FlatMap(g, Content[m]) = part[m] /\ part[m] = FlatMap(g, m.content)
  BY DEF Content
<1>5. FlatMap(g, Blocks(h)) = <<>>
  OBVIOUS
<1> HIDE DEF g, part
<1>6. FlatMap(g, FlatMap(Content, h)) = FlatMap(part, h)
  BY <1>1, <1>2, <1>3, <1>4, FlatMapTwice
<1>7. FlatMap(part, h) = <<>>
  BY <1>2, <1>5, <1>6
<1>8. ASSUME NEW i \in 1 .. Len(h)
      PROVE  StripMessage(h[i]) = h[i]
  <2> DEFINE s == h[i].content
  <2>1. h[i] \in Turn /\ s \in Seq(Block)
    BY TurnContent
  <2>2. part[h[i]] = <<>>
    BY <1>3, <1>7, FlatMapParts
  <2>3. FlatMap(g, s) = <<>>
    BY <1>4, <2>1, <2>2
  <2>4. s \in Seq(Native)
    <3>1. ASSUME NEW j \in 1 .. Len(s)
          PROVE  s[j] \in Native
      <4>1. s[j] \in Block
        BY <2>1
      <4>2. g[s[j]] = <<>>
        BY <1>1, <2>1, <2>3, FlatMapParts
      <4>3. s[j] \notin Foreign
        <5>1. <<s[j]>> # <<>>
          OBVIOUS
        <5> QED
          BY <1>1, <4>1, <4>2, <5>1, Zenon
      <4> QED
        BY <4>1, <4>3 DEF Foreign, Native
    <3>2. s = [j \in 1 .. Len(s) |-> s[j]] /\ Len(s) \in Nat
      BY <2>1
    <3> QED
      BY <3>1, <3>2
  <2>5. Kept(s) = s
    <3> DEFINE k == Chosen(Native, Native)
    <3>1. k \in Mappers(Native, Native) /\ \A b \in Native : k[b] = <<b>>
      BY ChosenMaps DEF Chosen
    <3>2. \A j \in DOMAIN s : s[j] \in Native /\ s[j] \in Block
      BY <2>1, <2>4
    <3>3. \A j \in DOMAIN s : Chosen(Block, Native)[s[j]] = k[s[j]]
      BY <3>2 DEF Chosen
    <3> HIDE DEF k
    <3>4. FlatMap(k, s) = s
      BY <2>4, <3>1, FlatMapSame
    <3>5. FlatMap(Chosen(Block, Native), s) = FlatMap(k, s)
      BY <2>1, <3>3, FlatMapAgree
    <3> QED
      BY <3>4, <3>5 DEF Kept
  <2>6. StripMessage(h[i]).content = s
    BY <2>1, <2>5, StripKeeps, Zenon
  <2>7. StripMessage(h[i]) = [h[i] EXCEPT !.content = s]
    BY <2>1, <2>6, StripKeeps, Zenon
  <2>8. [h[i] EXCEPT !.content = s] = h[i]
    BY <2>1 DEF Turn, Prompted, Answered
  <2> QED
    BY <2>7, <2>8
<1>9. DOMAIN h = 1 .. Len(h) /\ h = [i \in 1 .. Len(h) |-> h[i]]
  OBVIOUS
<1> QED
  BY <1>8, <1>9 DEF StripUnsignedThinking

\* Whatever the history, each backend is sent all of it that its protocol has a
\* place for, in order: nothing a translation or the strip does loses or moves a
\* text, an image, a call or a result.
THEOREM NothingSaidIsLost == Spec => []ContentKept
<1>1. ASSUME IInv, Asked("codex")
      PROVE  ContentKept
  <2> DEFINE w == wire.messages
             Type(types) == FlattenSeq([i \in DOMAIN w |->
                                IF w[i].type \in types THEN w[i].ids ELSE <<>>])
  <2>1. w = CodexMessages(history) /\ history \in Seq(Turn) /\ Blocks(history) \in Seq(Block)
    BY <1>1, HistoryTypes, BlocksAreFlat DEF IInv, HistoryOK, WireOK, Asked
  <2>2. ASSUME NEW type \in Codex!ItemTypes
        PROVE  Type({type}) = FlatMap(IdsIn(Block, CodexSource(type)), Blocks(history))
    <3>1. /\ w \in Seq(Codex!Item)
          /\ FlatMap(ItemIds({type}), w)
                = FlatMap(IdsIn(Block, CodexSource(type)), Blocks(history))
      BY <2>1, CodexKeepsHistory
    <3> HIDE DEF w
    <3>2. \A i \in DOMAIN w : w[i] \in Codex!Item
      BY <3>1
    <3>3. MapSeq(ItemIds({type}), w)
             = [i \in DOMAIN w |-> IF w[i].type \in {type} THEN w[i].ids ELSE <<>>]
      BY <3>2 DEF MapSeq, ItemIds
    <3> QED
      BY <3>1, <3>3 DEF FlatMap
  <2>3. Type({"message"})
           = Ids(Select(Blocks(history), LAMBDA b : b.type \in {"text", "image"}))
    BY <2>1, <2>2, TextAndImages DEF CodexSource, Codex!ItemTypes
  <2>4. Type({"function_call"}) = IdsOf("tool_use", history)
    BY <2>1, <2>2, OfIds DEF CodexSource, Codex!ItemTypes, IdsOf
  <2>5. Type({"function_call_output"}) = IdsOf("tool_result", history)
    BY <2>1, <2>2, OfIds DEF CodexSource, Codex!ItemTypes, IdsOf
  <2>6. ~Asked("chat") /\ ~Asked("anthropic") /\ ~Asked("compat")
    BY <1>1 DEF Asked
  <2> QED
    BY <2>3, <2>4, <2>5, <2>6 DEF ContentKept
<1>2. ASSUME IInv, Asked("chat")
      PROVE  ContentKept
  <2> DEFINE w == wire.messages
             Role(roles) == FlattenSeq([i \in DOMAIN w |->
                                IF w[i].role \in roles THEN w[i].ids ELSE <<>>])
  <2>1. w = ChatMessages(history) /\ history \in Seq(Turn) /\ Blocks(history) \in Seq(Block)
    BY <1>2, HistoryTypes, BlocksAreFlat DEF IInv, HistoryOK, WireOK, Asked
  <2>2. ASSUME NEW part \in ChatParts
        PROVE  /\ w \in Seq(Chat!ChatMsg)
               /\ FlatMap(ChatIds(part), w)
                     = FlatMap(IdsIn(Block, ChatSource(part)), Blocks(history))
    BY <2>1, ChatKeepsHistory
  <2>3. \A i \in DOMAIN w : w[i] \in Chat!ChatMsg /\ w[i].role \in {"user", "assistant", "tool"}
    <3>1. w \in Seq(Chat!ChatMsg)
      BY <2>2 DEF ChatParts
    <3> HIDE DEF w
    <3>2. \A i \in DOMAIN w : w[i] \in Chat!ChatMsg
      BY <3>1
    <3>3. \A x \in Chat!ChatMsg : x.role \in {"user", "assistant", "tool"}
      BY DEF Chat!ChatMsg
    <3> QED
      BY <3>2, <3>3
  <2>4. Role({"user", "assistant"}) = FlatMap(ChatIds("said"), w)
    <3> HIDE DEF w
    <3>1. MapSeq(ChatIds("said"), w)
             = [i \in DOMAIN w |-> IF w[i].role \in {"user", "assistant"}
                                   THEN w[i].ids ELSE <<>>]
      BY <2>3 DEF MapSeq, ChatIds
    <3> QED
      BY <3>1 DEF FlatMap
  <2>5. Role({"tool"}) = FlatMap(ChatIds("results"), w)
    <3> HIDE DEF w
    <3>1. MapSeq(ChatIds("results"), w)
             = [i \in DOMAIN w |-> IF w[i].role \in {"tool"} THEN w[i].ids ELSE <<>>]
      BY <2>3 DEF MapSeq, ChatIds
    <3> QED
      BY <3>1 DEF FlatMap
  <2>6. FlattenSeq([i \in DOMAIN w |-> w[i].calls]) = FlatMap(ChatIds("calls"), w)
    <3> HIDE DEF w
    <3>1. MapSeq(ChatIds("calls"), w) = [i \in DOMAIN w |-> w[i].calls]
      BY <2>3 DEF MapSeq, ChatIds
    <3> QED
      BY <3>1 DEF FlatMap
  <2>7. Role({"user", "assistant"})
           = Ids(Select(Blocks(history), LAMBDA b : b.type \in {"text", "image"}))
    BY <2>1, <2>2, <2>4, TextAndImages DEF ChatSource, ChatParts
  <2>8. Role({"tool"}) = IdsOf("tool_result", history)
    BY <2>1, <2>2, <2>5, OfIds DEF ChatSource, ChatParts, IdsOf
  <2>9. FlattenSeq([i \in DOMAIN w |-> w[i].calls]) = IdsOf("tool_use", history)
    BY <2>1, <2>2, <2>6, OfIds DEF ChatSource, ChatParts, IdsOf
  <2>10. ~Asked("codex") /\ ~Asked("anthropic") /\ ~Asked("compat")
    BY <1>2 DEF Asked
  <2> QED
    BY <2>7, <2>8, <2>9, <2>10 DEF ContentKept
<1>3. ASSUME IInv, Asked("anthropic")
      PROVE  ContentKept
  <2> DEFINE w == wire.messages
  <2>1. w = StripUnsignedThinking(history) /\ history \in Seq(Turn)
        /\ Blocks(history) \in Seq(Block)
    BY <1>3, HistoryTypes, BlocksAreFlat DEF IInv, HistoryOK, WireOK, Asked
  <2>2. /\ Len(w) = Len(history) /\ Blocks(w) \in Seq(Block)
        /\ FlatMap(Chosen(Block, NativeSaid), Blocks(w))
              = FlatMap(Chosen(Block, NativeSaid), Blocks(history))
    <3>1. NativeSaid \in SUBSET Native /\ Placeholder \notin NativeSaid /\ Native \subseteq Block
      BY DEF NativeSaid, Native
    <3>2. /\ Len(w) = Len(history) /\ Blocks(w) \in Seq(Native)
          /\ FlatMap(Chosen(Block, NativeSaid), Blocks(w))
                = FlatMap(Chosen(Block, NativeSaid), Blocks(history))
      BY <2>1, <3>1, StripKeepsHistory
    <3> QED
      BY <3>1, <3>2, SeqMonotonic
  <2>3. Select(Blocks(w), LAMBDA b : b # Placeholder /\ ~isUnsignedThinking(b))
           = Select(Blocks(history), LAMBDA b : b # Placeholder /\ ~isUnsignedThinking(b))
    BY <2>1, <2>2, NativeIsFlat
  <2>4. Select(Blocks(history), isUnsignedThinking) = <<>> => w = history
    <3>1. Select(Blocks(history), isUnsignedThinking)
             = Select(Blocks(history), LAMBDA b : isUnsignedThinking(b))
      BY DEF Select
    <3> QED
      BY <2>1, <3>1, ForeignIsFlat, StripSpares
  <2>5. ~Asked("codex") /\ ~Asked("chat") /\ ~Asked("compat")
    BY <1>3 DEF Asked
  <2> QED
    BY <2>2, <2>3, <2>4, <2>5 DEF ContentKept
<1>4. ASSUME IInv, ~Asked("codex"), ~Asked("chat"), ~Asked("anthropic")
      PROVE  ContentKept
  <2>1. Asked("compat") => wire.messages = history
    BY <1>4 DEF IInv, WireOK, Asked
  <2> QED
    BY <1>4, <2>1 DEF ContentKept
<1>5. IInv => ContentKept
  BY <1>1, <1>2, <1>3, <1>4
<1> QED
  BY <1>5, InvariantHolds, PTL

-----------------------------------------------------------------------------
(* The session store: the blocks in which a keeper finds its reasoning     *)
(* again have the ids it has signed, and no others pass for them.          *)

AnthropicSealed == {b \in Block : /\ IsReasoning(b) /\ ~isUnsignedThinking(b)
                                 /\ b.signature # ForeignSigned}

\* The blocks of a history in which each keeper finds its own reasoning.
KeptBy == [anthropic |-> AnthropicSealed, codex |-> CodexSealed]

LEMMA KeepersAre == Keepers = {"anthropic", "codex"} /\ Keepers = DOMAIN KeptBy
BY DEF Keepers, Reusable, KeptBy

OffersOf(b) == [kind : Kinds[b], id : Nat \ {0}]

BlockFor(b, x) == IF b = "codex" THEN Codex!BlockOf(x.kind, x.id)
                  ELSE ProxiedBlock(x.kind, x.id)

LEMMA BlockForType ==
    ASSUME NEW b \in DOMAIN Kinds, NEW x \in OffersOf(b)
    PROVE  BlockFor(b, x) \in Block /\ BlockFor(b, x).id = x.id
<1>1. x.id \in Nat /\ x.kind \in Kinds[b]
  BY DEF OffersOf
<1>2. CASE b = "codex"
  <2>1. x.kind \in {"minted", "reasoning", "text", "call"}
    BY <1>1, <1>2 DEF Kinds
  <2> QED
    BY <1>1, <1>2, <2>1 DEF BlockFor, Codex!BlockOf, Codex!EncodeReasoning,
       Codex!NoSignature, Codex!CodexSigned, Block, BlockTypes, Signatures,
       GatewaySignatures, NoSignature, CodexSigned
<1>3. CASE b # "codex"
  <2>1. x.kind \in AllKinds
    BY <1>1 DEF Kinds, AllKinds
  <2> QED
    BY <1>1, <1>3, <2>1 DEF BlockFor, AllKinds, ProxiedBlock, Block, BlockTypes, Signatures,
       GatewaySignatures, NoSignature, AnthropicSigned, ForeignSigned, CodexSigned
<1> QED
  BY <1>2, <1>3

\* Only what a keeper has signed passes for its reasoning, whoever relays it.
LEMMA OnlyItsOwn ==
    ASSUME NEW b \in DOMAIN Kinds, NEW x \in OffersOf(b), NEW keeper \in Keepers
    PROVE  BlockFor(b, x) \in KeptBy[keeper] <=> x.kind \in Reusable[keeper]
<1> DEFINE y == BlockFor(b, x)
<1>1. y \in Block
  BY BlockForType
<1>2. /\ x.kind \in AllKinds
      /\ b = "codex" => x.kind \in {"minted", "reasoning", "text", "call"}
  BY DEF OffersOf, Kinds, AllKinds
<1>3. CASE keeper = "anthropic"
  <2>1. y \in KeptBy[keeper] <=> /\ IsReasoning(y) /\ ~isUnsignedThinking(y)
                                 /\ y.signature # ForeignSigned
    BY <1>1, <1>3 DEF KeptBy, AnthropicSealed
  <2>2. /\ IsReasoning(y) /\ ~isUnsignedThinking(y)
        /\ y.signature # ForeignSigned
        <=> x.kind \in {"sealed", "redacted"}
    <3>1. CASE b = "codex"
      BY <1>2, <3>1 DEF BlockFor, Codex!BlockOf, Codex!EncodeReasoning, Codex!NoSignature,
         Codex!CodexSigned, GatewaySignatures, NoSignature, CodexSigned, IsReasoning,
         isUnsignedThinking
    <3>2. CASE b # "codex"
      BY <1>2, <3>2 DEF BlockFor, AllKinds, ProxiedBlock, NoSignature, AnthropicSigned,
         ForeignSigned, CodexSigned, GatewaySignatures, IsReasoning, isUnsignedThinking
    <3> QED
      BY <3>1, <3>2
  <2> QED
    BY <1>3, <2>1, <2>2 DEF Reusable
<1>4. CASE keeper = "codex"
  <2>1. y \in KeptBy[keeper] <=> y.type = "thinking" /\ y.signature = CodexSigned
    BY <1>1, <1>4 DEF KeptBy, CodexSealed
  <2>2. y.type = "thinking" /\ y.signature = CodexSigned <=> x.kind = "minted"
    BY <1>2 DEF BlockFor, AllKinds, ProxiedBlock, Codex!BlockOf, Codex!EncodeReasoning,
           Codex!NoSignature, Codex!CodexSigned, NoSignature, AnthropicSigned, ForeignSigned,
           CodexSigned
  <2> QED
    BY <1>4, <2>1, <2>2 DEF Reusable
<1> QED
  BY <1>3, <1>4, KeepersAre

\* A completion that is not streamed has no block that passes for anybody's.
LEMMA ChatKeepsNothing ==
    ASSUME history \in Histories, NEW answer \in Answers["chat"], NEW keeper \in Keepers
    PROVE  FlatMap(IdsIn(Block, KeptBy[keeper]), ContentOf("chat", answer)) = <<>>
<1> DEFINE A == {b \in AnswerBlock : b.type # "redacted_thinking" /\ b.signature = NoSignature}
           types == (IF answer.reasoning THEN <<"thinking">> ELSE <<>>)
                    \o (IF answer.text THEN <<"text">> ELSE <<>>)
                    \o [c \in 1 .. answer.calls |-> "tool_use"]
           content == ContentOf("chat", answer)
           T == {"thinking", "text", "tool_use"}
<1>1. answer \in Chat!Choice
  BY ConversationAssumption
<1>2. types \in Seq(T)
  <2>0. /\ "thinking" \in T /\ "text" \in T /\ "tool_use" \in T
        /\ \A t \in T : <<t>> \in Seq(T)
        /\ <<>> \in Seq(T)
    OBVIOUS
  <2> HIDE DEF T
  <2>1. (IF answer.reasoning THEN <<"thinking">> ELSE <<>>) \in Seq(T)
    BY <2>0
  <2>2. (IF answer.text THEN <<"text">> ELSE <<>>) \in Seq(T)
    BY <2>0
  <2>3. [c \in 1 .. answer.calls |-> "tool_use"] \in Seq(T)
    BY <1>1, <2>0 DEF Chat!Choice
  <2> QED
    BY <2>1, <2>2, <2>3, ConcatProperties
<1> HIDE DEF types
<1>3. content = [i \in DOMAIN types |->
         [type |-> types[i], id |-> Fresh + i - 1, signature |-> NoSignature]]
  BY DEF ContentOf, Chat!TranslateResponse, types, Chat!NoSignature, NoSignature
<1>4. content \in Seq(AnswerBlock)
  BY ContentType DEF Backends
<1>5. \A i \in DOMAIN types : types[i] \in T
  BY <1>2
<1> HIDE DEF content
<1>6. \A i \in 1 .. Len(content) : content[i] \in A
  BY <1>3, <1>4, <1>5
<1>7. content \in Seq(A)
  BY <1>4, <1>6
<1>8. A \in SUBSET Block /\ A \cap KeptBy[keeper] = {}
  <2>1. A \in SUBSET Block
    BY BlockSets
  <2>2. A \cap AnthropicSealed = {} /\ A \cap CodexSealed = {}
    BY DEF AnswerBlock, AnthropicSealed, CodexSealed, IsReasoning, isUnsignedThinking,
           NoSignature, CodexSigned
  <2> QED
    BY <2>1, <2>2, KeepersAre DEF KeptBy
<1> HIDE DEF A
<1> QED
  BY <1>7, <1>8, NoIds DEF content

\* What a keeper finds again of an answer is what it has signed of it.
LEMMA ContentRemembered ==
    ASSUME history \in Histories, NEW b \in Backends, NEW answer \in Answers[b],
           NEW keeper \in Keepers
    PROVE  FlatMap(IdsIn(Block, KeptBy[keeper]), ContentOf(b, answer))
              = Gave(b, answer)[keeper]
<1>1. CASE b = "chat"
  BY <1>1, ChatKeepsNothing DEF Gave
<1>2. CASE b # "chat"
  <2> DEFINE A == OffersOf(b)
             x == Offered(answer)
             make == [a \in A |-> BlockFor(b, a)]
             one == [a \in A |-> <<make[a]>>]
             g == IdsIn(Block, KeptBy[keeper])
             through == [a \in A |-> IF a.kind \in Reusable[keeper]
                                     THEN <<a.id>> ELSE <<>>]
  <2>1. b \in DOMAIN Kinds
    BY <1>2 DEF Backends, Kinds
  <2>2. x \in Seq(A) /\ \A i \in DOMAIN x : x[i] \in A
    <3>1. /\ x \in Seq(Offers) /\ DOMAIN x = DOMAIN answer
          /\ \A i \in DOMAIN answer : answer[i] \in Kinds[b]
      BY <2>1, OfferedType
    <3>2. \A i \in DOMAIN answer : x[i] \in Offers /\ x[i].kind \in Kinds[b]
      BY <3>1 DEF Offered
    <3>3. \A i \in DOMAIN x : x[i] \in A
      BY <3>1, <3>2 DEF Offers, OffersOf
    <3>4. DOMAIN x = 1 .. Len(x) /\ Len(x) \in Nat /\ x = [i \in 1 .. Len(x) |-> x[i]]
      BY <3>1
    <3> HIDE DEF x, A
    <3> QED
      BY <3>3, <3>4
  <2>3. make \in [A -> Block] /\ \A a \in A : make[a] = BlockFor(b, a)
    BY <2>1, BlockForType
  <2>4. ContentOf(b, answer) = MapSeq(make, x)
    <3>1. /\ DOMAIN x = DOMAIN answer
          /\ \A i \in DOMAIN answer : x[i].kind = answer[i] /\ x[i].id = Fresh + i - 1
      BY DEF Offered
    <3> HIDE DEF x, make
    <3>2. MapSeq(make, x) = [i \in DOMAIN answer |-> BlockFor(b, x[i])]
      BY <2>2, <2>3, <3>1 DEF MapSeq
    <3>3. \A i \in DOMAIN answer :
             BlockFor(b, x[i]) = IF b = "codex" THEN Codex!BlockOf(answer[i], Fresh + i - 1)
                                 ELSE ProxiedBlock(answer[i], Fresh + i - 1)
      BY <3>1 DEF BlockFor
    <3>4. CASE b = "codex"
      BY <3>2, <3>3, <3>4 DEF ContentOf
    <3>5. CASE b # "codex"
      BY <1>2, <3>2, <3>3, <3>5 DEF ContentOf
    <3> QED
      BY <3>4, <3>5
  <2>5. g \in Mappers(Block, Nat)
    BY BlockIds
  <2>6. one \in Mappers(A, Block) /\ \A a \in A : one[a] = <<make[a]>>
    <3> HIDE DEF make, A
    <3>1. \A a \in A : <<make[a]>> \in Seq(Block)
      BY <2>3
    <3> QED
      BY <3>1 DEF Mappers
  <2>7. ASSUME NEW a \in A
        PROVE  g[make[a]] = through[a] /\ through[a] \in Seq(Nat)
    <3>1. /\ make[a] \in KeptBy[keeper] <=> a.kind \in Reusable[keeper]
          /\ make[a] \in Block /\ make[a].id = a.id
      BY <2>1, <2>3, OnlyItsOwn, BlockForType
    <3>2. a.id \in Nat
      BY DEF OffersOf
    <3> QED
      BY <3>1, <3>2 DEF IdsIn
  <2>8. through \in Mappers(A, Nat)
    <3> HIDE DEF A, g, make
    <3> QED
      BY <2>7 DEF Mappers
  <2>9. \A a \in A : through[a] = IF a.kind \in Reusable[keeper]
                                  THEN <<a.id>> ELSE <<>>
    OBVIOUS
  <2> HIDE DEF A, x, make, one, g, through
  <2>10. FlatMap(g, FlatMap(one, x)) = FlatMap(through, x)
    <3>1. ASSUME NEW a \in A
          PROVE  FlatMap(g, one[a]) = through[a]
      <4>1. FlatMap(g, <<make[a]>>) = g[make[a]]
        BY <2>3, <2>5, FlatMapSingle
      <4> QED
        BY <2>6, <2>7, <4>1
    <3> QED
      BY <2>2, <2>5, <2>6, <2>8, <3>1, FlatMapTwice
  <2>11. MapSeq(make, x) = FlatMap(one, x)
    BY <2>2, <2>3, <2>6, MapIsFlat
  <2>12. FlatMap(g, ContentOf(b, answer)) = FlatMap(through, x)
    BY <2>4, <2>10, <2>11
  <2> DEFINE f == IdsIn(Offers, OfKind(Reusable[keeper]))
  <2>13. Gave(b, answer)[keeper] = FlatMap(f, x)
    BY <1>2, <2>1, SignedIsFlat DEF Gave, x
  <2>14. \A a \in A : f[a] = through[a]
    <3>1. \A a \in A : a \in Offers
      BY <2>1 DEF A, OffersOf, Offers, Kinds, AllKinds
    <3> QED
      BY <2>9, <3>1 DEF IdsIn, OfKind
  <2> HIDE DEF f
  <2>15. FlatMap(f, x) = FlatMap(through, x)
    BY <2>2, <2>14, FlatMapAgree
  <2> QED
    BY <2>12, <2>13, <2>15 DEF g
<1> QED
  BY <1>1, <1>2

\* Each answer in the history still has the blocks its signers would find.
Remembers ==
    \A k \in 1 .. Len(minted) : \A keeper \in Keepers :
        FlatMap(IdsIn(Block, KeptBy[keeper]), history[2 * k].content) = minted[k][keeper]

LEMMA RemembersInductive ==
    ASSUME IInv, Remembers, [Next]_vars
    PROVE  Remembers'
<1> DEFINE Found(keeper, m) == FlatMap(IdsIn(Block, KeptBy[keeper]), m.content)
           Minted(keeper, g) == g[keeper]
<1>0. /\ history \in Histories /\ Len(history) \in Nat /\ Len(minted) \in Nat
      /\ Len(history) = 2 * Len(minted) \/ Len(history) = 2 * Len(minted) + 1
      /\ minted \in Turns /\ WireOK /\ RequestOK
  BY Lengths DEF IInv, HistoryOK
<1>1. \A k \in 1 .. Len(minted) : \A keeper \in Keepers :
         Found(keeper, history[2 * k]) = Minted(keeper, minted[k])
  BY DEF Remembers
<1> HIDE DEF Found, Minted
<1>2. CASE UNCHANGED <<history, minted>>
  BY <1>2 DEF Remembers
<1>3. ASSUME NEW shape \in Shapes, Prompt(shape)
      PROVE  Remembers'
  <2> DEFINE m == [role |-> "user", content |-> UserContent(shape)]
  <2>1. m \in Turn /\ history' = Append(history, m) /\ minted' = minted
    BY <1>0, <1>3, UserContentType DEF Prompt, Turn, Prompted
  <2>2. \A i \in 1 .. Len(history) : history'[i] = history[i]
    BY <1>0, <2>1, HistoryTypes, Appended
  <2>3. \A k \in 1 .. Len(minted) : 2 * k \in 1 .. Len(history)
    BY <1>0
  <2>4. \A k \in 1 .. Len(minted') : \A keeper \in Keepers :
           Found(keeper, history'[2 * k]) = Minted(keeper, minted'[k])
    BY <1>1, <2>1, <2>2, <2>3
  <2> QED
    BY <2>4 DEF Remembers, Found, Minted
<1>4. ASSUME NEW b \in Backends, NEW answer \in Answers[b], request.to = b, Answer(answer)
      PROVE  Remembers'
  <2> DEFINE m == [role |-> "assistant", content |-> ContentOf(b, answer)]
             g == Gave(b, answer)
             n == Len(minted) + 1
  <2>1. wire # None /\ wire.to = b
    BY <1>0, <1>4 DEF WireOK, Answer
  <2>2. history' = Append(history, m) /\ minted' = Append(minted, g)
    BY <1>4, <2>1 DEF Answer
  <2>3. Len(history) + 1 = 2 * n
    BY <1>0, <1>4, <2>1 DEF WireOK, RequestOK
  <2>4. m \in Turn /\ g \in GivenTurn
    BY <1>0, ContentType, GaveType DEF Turn, Answered
  <2>5. \A keeper \in Keepers : Found(keeper, m) = Minted(keeper, g)
    BY <1>0, ContentRemembered DEF Found, Minted
  <2> HIDE DEF m, g
  <2>6. /\ \A i \in 1 .. Len(history) : history'[i] = history[i]
        /\ history'[2 * n] = m
    <3>1. history \in Seq(Turn)
      BY <1>0, HistoryTypes
    <3> QED
      BY <2>2, <2>3, <2>4, <3>1, Appended
  <2>7. /\ Len(minted') = n /\ minted'[n] = g
        /\ \A k \in 1 .. Len(minted) : minted'[k] = minted[k]
    BY <1>0, <2>2, <2>4, Appended DEF Turns
  <2>8. \A k \in 1 .. Len(minted) : 2 * k \in 1 .. Len(history)
    BY <1>0
  <2>9. \A k \in 1 .. n : k \in 1 .. Len(minted) \/ k = n
    BY <1>0
  <2>10. \A k \in 1 .. Len(minted') : \A keeper \in Keepers :
            Found(keeper, history'[2 * k]) = Minted(keeper, minted'[k])
    <3>1. \A k \in 1 .. Len(minted) : \A keeper \in Keepers :
             Found(keeper, history'[2 * k]) = Minted(keeper, minted'[k])
      BY <1>1, <2>6, <2>7, <2>8
    <3>2. \A keeper \in Keepers : Found(keeper, history'[2 * n]) = Minted(keeper, minted'[n])
      BY <2>5, <2>6, <2>7
    <3> HIDE DEF n
    <3> QED
      BY <2>7, <2>9, <3>1, <3>2
  <2> QED
    BY <2>10 DEF Remembers, Found, Minted
<1>5. ASSUME NEW k \in 0 .. Len(minted) - 1, Rewind(k)
      PROVE  Remembers'
  <2>1. /\ 2 * k \in 0 .. Len(history) /\ history' = SubSeq(history, 1, 2 * k)
        /\ minted' = SubSeq(minted, 1, k)
    BY <1>0, <1>5 DEF Rewind
  <2>2. \A i \in 1 .. 2 * k : history'[i] = history[i]
    <3>1. \A i \in 1 .. 2 * k : history[i] \in Turn
      BY <1>0, <2>1, HistoryTypes
    <3> QED
      BY <2>1, <3>1, SubSeqProperties
  <2>3. Len(minted') = k /\ \A i \in 1 .. k : minted'[i] = minted[i] /\ i \in 1 .. Len(minted)
    <3>1. minted \in Seq(GivenTurn)
      BY <1>0 DEF Turns
    <3>2. \A i \in 1 .. k : minted[i] \in GivenTurn /\ i \in 1 .. Len(minted)
      BY <1>0, <3>1
    <3> QED
      BY <1>0, <2>1, <3>2, SubSeqProperties
  <2>4. \A i \in 1 .. k : 2 * i \in 1 .. 2 * k
    BY <1>0
  <2>5. \A i \in 1 .. Len(minted') : \A keeper \in Keepers :
           Found(keeper, history'[2 * i]) = Minted(keeper, minted'[i])
    BY <1>1, <2>2, <2>3, <2>4
  <2> QED
    BY <2>5 DEF Remembers, Found, Minted
<1> QED
  BY <1>2, <1>3, <1>4, <1>5, HistorySteps

LEMMA RemembersHolds == Spec => []Remembers
<1>1. Init => Remembers
  BY DEF Init, Remembers
<1>2. IInv /\ Remembers /\ [Next]_vars => Remembers'
  BY RemembersInductive
<1> QED
  BY <1>1, <1>2, InvariantHolds, PTL DEF Spec

\* A keeper's session is what it finds again in the history.
LEMMA SessionIsHistory ==
    ASSUME IInv, Remembers, NEW keeper \in Keepers
    PROVE  FlatMap(IdsIn(Block, KeptBy[keeper]), Blocks(history)) = Store!Session(keeper)
<1> DEFINE T == KeptBy[keeper]
           ss == MapSeq(IdsOfTurn(T), history)
           tt == [i \in DOMAIN minted |-> minted[i][keeper]]
<1>0. /\ history \in Histories /\ Len(history) \in Nat /\ Len(minted) \in Nat
      /\ Len(history) = 2 * Len(minted) \/ Len(history) = 2 * Len(minted) + 1
      /\ minted \in Turns /\ DOMAIN minted = 1 .. Len(minted)
  <2>1. minted \in Turns
    BY DEF IInv, HistoryOK
  <2>2. DOMAIN minted = 1 .. Len(minted)
    BY <2>1 DEF Turns
  <2> QED
    BY <2>1, <2>2, Lengths DEF IInv, HistoryOK
<1>1. history \in Seq(Turn)
  BY <1>0, HistoryTypes
<1>2. /\ IdsOfTurn(T) \in Mappers(Turn, Nat)
      /\ FlatMap(IdsIn(Block, T), Blocks(history)) = FlatMap(IdsOfTurn(T), history)
  BY <1>1, HistoryIds
<1>3. /\ ss \in Seq(Seq(Nat)) /\ Len(ss) = Len(history)
      /\ \A i \in 1 .. Len(history) : ss[i] = IdsOfTurn(T)[history[i]]
  <2> DEFINE f == IdsOfTurn(T)
  <2>1. f \in [Turn -> Seq(Nat)]
    BY <1>2 DEF Mappers
  <2> HIDE DEF f
  <2>2. MapSeq(f, history) \in Seq(Seq(Nat))
    BY <1>1, <2>1, MapType
  <2>3. /\ Len(MapSeq(f, history)) = Len(history)
        /\ \A i \in 1 .. Len(history) : MapSeq(f, history)[i] = f[history[i]]
    BY <1>1, MapElements
  <2> QED
    BY <2>2, <2>3 DEF f
<1>4. \A i \in 1 .. Len(history) : ss[i] = FlatMap(IdsIn(Block, T), history[i].content)
  <2>1. \A m \in Turn : IdsOfTurn(T)[m] = FlatMap(IdsIn(Block, T), m.content)
    BY DEF IdsOfTurn
  <2>2. \A i \in 1 .. Len(history) : history[i] \in Turn
    BY <1>1
  <2> HIDE DEF ss
  <2> QED
    BY <1>3, <2>1, <2>2
<1>5. tt \in Seq(Seq(Nat)) /\ Len(tt) = Len(minted)
  <2>1. ASSUME NEW i \in 1 .. Len(minted)
        PROVE  minted[i][keeper] \in Seq(Nat)
    <3>1. minted[i] \in GivenTurn
      <4>1. minted \in Seq(GivenTurn)
        BY <1>0 DEF Turns
      <4> QED
        BY <4>1, ElementOfSeq
    <3> QED
      BY <3>1 DEF GivenTurn
  <2> QED
    BY <1>0, <2>1
<1>6. FlatMap(IdsOfTurn(T), history) = FlattenSeq(ss)
  BY DEF FlatMap
<1>7. Store!Session(keeper) = FlattenSeq(tt)
  BY SameFlattening DEF Store!Session
<1>8. ASSUME NEW i \in 1 .. Len(ss), i % 2 = 1
      PROVE  ss[i] = <<>>
  <2>1. history[i] \in Prompted
    BY <1>0, <1>3, <1>8, HistoryTypes
  <2>2. history[i].content \in Seq(UserBlock)
    BY <2>1 DEF Prompted
  <2>3. UserBlock \cap T = {}
    <3>1. UserBlock \cap AnthropicSealed = {} /\ UserBlock \cap CodexSealed = {}
      BY DEF UserBlock, UserTypes, AnthropicSealed, CodexSealed, IsReasoning
    <3> QED
      BY <3>1, KeepersAre DEF KeptBy
  <2>4. FlatMap(IdsIn(Block, T), history[i].content) = <<>>
    BY <2>2, <2>3, BlockSets, NoIds
  <2> QED
    BY <1>3, <1>4, <2>4
<1>9. ASSUME NEW k \in 1 .. Len(tt)
      PROVE  ss[2 * k] = tt[k]
  <2>1. k \in 1 .. Len(minted) /\ 2 * k \in 1 .. Len(history)
    BY <1>0, <1>5
  <2>2. ss[2 * k] = FlatMap(IdsIn(Block, T), history[2 * k].content)
    BY <1>4, <2>1
  <2>3. FlatMap(IdsIn(Block, T), history[2 * k].content) = minted[k][keeper]
    BY <2>1 DEF Remembers
  <2>4. tt[k] = minted[k][keeper]
    BY <1>0, <2>1
  <2> QED
    BY <2>2, <2>3, <2>4
<1> HIDE DEF ss, tt
<1>10. FlattenSeq(ss) = FlattenSeq(tt)
  BY <1>0, <1>3, <1>5, <1>8, <1>9, FlattenEvenPlaces
<1> QED
  BY <1>2, <1>6, <1>7, <1>10

\* The reasoning a request shows Anthropic, and Codex, is their session.
LEMMA ShownIsSession ==
    ASSUME IInv, Remembers, NEW keeper \in Keepers, Asked(keeper)
    PROVE  Shown = [to |-> keeper, reasoning |-> Store!Session(keeper)]
<1>0. /\ history \in Seq(Turn) /\ Blocks(history) \in Seq(Block)
      /\ FlatMap(IdsIn(Block, KeptBy[keeper]), Blocks(history)) = Store!Session(keeper)
  BY HistoryTypes, BlocksAreFlat, SessionIsHistory DEF IInv, HistoryOK
<1>1. CASE keeper = "anthropic"
  <2> DEFINE w == StripUnsignedThinking(history)
             N == AnthropicSealed
             g == Chosen(Block, N)
  <2>1. wire.messages = w
    BY <1>1 DEF IInv, WireOK, Asked
  <2>2. N \in SUBSET Native /\ Placeholder \notin N /\ Native \subseteq Block
    BY DEF AnthropicSealed, Native, Placeholder, IsReasoning
  <2>3. /\ Blocks(w) \in Seq(Native)
        /\ FlatMap(g, Blocks(w)) = FlatMap(g, Blocks(history))
    BY <1>0, <2>2, StripKeepsHistory
  <2>4. Select(Blocks(w), LAMBDA b : NotForeign(b)) = FlatMap(g, Blocks(w))
    <3> DEFINE s == Blocks(w)
    <3>1. \A i \in DOMAIN s : s[i] \in Native
      BY <2>3
    <3> HIDE DEF s
    <3>2. \A b \in Native : g[b] = IF NotForeign(b) THEN <<b>> ELSE <<>>
      BY DEF Chosen, AnthropicSealed, Native, NotForeign
    <3> HIDE DEF g
    <3>3. MapSeq(g, s) = [i \in DOMAIN s |-> IF NotForeign(s[i]) THEN <<s[i]>> ELSE <<>>]
      BY <3>1, <3>2 DEF MapSeq
    <3> QED
      BY <3>3 DEF Select, FlatMap, s
  <2>5. Ids(FlatMap(g, Blocks(history))) = FlatMap(IdsIn(Block, N), Blocks(history))
    BY <1>0, BlockIds, ChosenIds
  <2>6. KeptBy[keeper] = N
    BY <1>1 DEF KeptBy
  <2>7. Ids(Select(Blocks(wire.messages), NotForeign)) = Store!Session(keeper)
    <3>1. Select(Blocks(w), NotForeign) = Select(Blocks(w), LAMBDA b : NotForeign(b))
      BY DEF Select
    <3> HIDE DEF w, N, g
    <3> QED
      BY <1>0, <2>1, <2>3, <2>4, <2>5, <2>6, <3>1
  <2>8. Asked("anthropic") /\ ~Asked("codex")
    BY <1>1 DEF Asked
  <2> QED
    BY <1>1, <2>7, <2>8 DEF Shown
<1>2. CASE keeper = "codex"
  <2> DEFINE w == wire.messages
             items == Of("reasoning", w)
             ids == ItemIds({"reasoning"})
             chosen == [x \in Codex!Item |-> IF x.type = "reasoning" THEN <<x>> ELSE <<>>]
             all == [x \in Codex!Item |-> x.ids]
  <2>1. w = CodexMessages(history)
    BY <1>2 DEF IInv, WireOK, Asked
  <2>2. /\ w \in Seq(Codex!Item)
        /\ FlatMap(ids, w) = FlatMap(IdsIn(Block, CodexSealed), Blocks(history))
    <3>1. "reasoning" \in Codex!ItemTypes
      BY DEF Codex!ItemTypes
    <3> QED
      BY <1>0, <2>1, <3>1, CodexKeepsHistory DEF CodexSource
  <2>3. /\ chosen \in Mappers(Codex!Item, Codex!Item) /\ all \in Mappers(Codex!Item, Nat)
        /\ ids \in Mappers(Codex!Item, Nat)
    <3>1. \A x \in Codex!Item : x.ids \in Seq(Nat)
      BY DEF Codex!Item
    <3>2. \A x \in Codex!Item :
             (IF x.type = "reasoning" THEN <<x>> ELSE <<>>) \in Seq(Codex!Item)
      OBVIOUS
    <3>3. ids \in Mappers(Codex!Item, Nat)
      BY ItemIdsMaps
    <3> QED
      BY <3>1, <3>2, <3>3 DEF Mappers
  <2>4. \A x \in Codex!Item :
           /\ chosen[x] = IF x.type = "reasoning" THEN <<x>> ELSE <<>>
           /\ all[x] = x.ids
           /\ ids[x] = IF x.type = "reasoning" THEN x.ids ELSE <<>>
    BY DEF ItemIds
  <2> HIDE DEF w, chosen, all, ids
  <2>5. items = FlatMap(chosen, w)
    <3>1. \A i \in DOMAIN w : w[i] \in Codex!Item
      BY <2>2
    <3>2. MapSeq(chosen, w)
             = [i \in DOMAIN w |-> IF w[i].type = "reasoning" THEN <<w[i]>> ELSE <<>>]
      BY <2>4, <3>1 DEF MapSeq
    <3> QED
      BY <3>2 DEF Of, Select, FlatMap
  <2>6. items \in Seq(Codex!Item)
    BY <2>2, <2>3, <2>5, FlatMapType
  <2> HIDE DEF items
  <2>7. FlattenSeq([i \in DOMAIN items |-> items[i].ids]) = FlatMap(all, items)
    <3>1. \A i \in DOMAIN items : items[i] \in Codex!Item
      BY <2>6
    <3>2. MapSeq(all, items) = [i \in DOMAIN items |-> items[i].ids]
      BY <2>4, <3>1 DEF MapSeq
    <3> QED
      BY <3>2 DEF FlatMap
  <2>8. FlatMap(all, FlatMap(chosen, w)) = FlatMap(ids, w)
    <3>1. ASSUME NEW x \in Codex!Item
          PROVE  FlatMap(all, chosen[x]) = ids[x]
      <4>1. FlatMap(all, <<x>>) = all[x] /\ FlatMap(all, <<>>) = <<>>
        BY <2>3, FlatMapSingle, FlatMapEmpty
      <4> QED
        BY <2>4, <4>1
    <3> QED
      BY <2>2, <2>3, <3>1, FlatMapTwice
  <2>9. FlattenSeq([i \in DOMAIN items |-> items[i].ids]) = Store!Session(keeper)
    BY <1>0, <1>2, <2>2, <2>5, <2>7, <2>8 DEF KeptBy
  <2>10. ~Asked("anthropic") /\ Asked("codex")
    BY <1>2 DEF Asked
  <2> QED
    BY <1>2, <2>9, <2>10 DEF Shown, items, w
<1> QED
  BY <1>1, <1>2, KeepersAre

\* What a request shows, when it shows anything.
ShownOK ==
    \A keeper \in Keepers :
        Asked(keeper) => Shown = [to |-> keeper, reasoning |-> Store!Session(keeper)]

LEMMA ShownHolds == Spec => []ShownOK
<1>1. IInv /\ Remembers => ShownOK
  BY ShownIsSession DEF ShownOK
<1> QED
  BY <1>1, InvariantHolds, RemembersHolds, PTL

\* Every step of the gateway is one of the session store's, or none.
LEMMA StoreStep ==
    ASSUME IInv, ShownOK', [Next]_vars
    PROVE  [Store!Next]_(Store!vars)
<1>0. /\ RequestOK /\ WireOK /\ Len(minted) \in Nat
      /\ minted \in Seq(GivenTurn)
  BY Lengths DEF IInv, HistoryOK, Turns
<1>1. ASSUME UNCHANGED <<minted, wire>>
      PROVE  UNCHANGED Store!vars
  BY <1>1 DEF Store!vars, Shown, Asked
<1>2. (~Asked("anthropic") /\ ~Asked("codex")) => Shown = Store!Nobody
  BY DEF Shown, Store!Nobody
<1>3. (~Asked("anthropic") /\ ~Asked("codex"))' => Shown' = Store!Nobody
  BY DEF Shown, Store!Nobody
<1>4. wire = None => Shown = Store!Nobody
  BY <1>2 DEF Asked
<1>5. wire' = None => Shown' = Store!Nobody
  BY <1>3 DEF Asked
<1>6. ASSUME wire' = None, minted' = minted
      PROVE  Store!GiveUp
  BY <1>5, <1>6 DEF Store!GiveUp
<1>7. ASSUME NEW keeper \in Keepers, Asked(keeper)', minted' = minted
      PROVE  Store!Show(keeper)
  <2>1. Shown' = [to |-> keeper, reasoning |-> Store!Session(keeper)']
    BY <1>7 DEF ShownOK
  <2>2. Store!Session(keeper)' = Store!Session(keeper)
    BY <1>7 DEF Store!Session
  <2> QED
    BY <1>7, <2>1, <2>2 DEF Store!Show
<1>8. CASE \/ \E shape \in Shapes : Prompt(shape)
           \/ \E to \in Backends, n \in AskedTokens : Send(to, "messages", n)
           \/ \E to \in Backends : Send(to, "count_tokens", 0)
           \/ EstimateTokens \/ UNCHANGED vars
  BY <1>1, <1>8 DEF Prompt, Send, EstimateTokens, vars
<1>9. ASSUME NEW k \in 0 .. Len(minted) - 1, Rewind(k)
      PROVE  Store!Rewind
  <2>1. wire = None /\ wire' = None
    BY <1>0, <1>9 DEF Rewind, WireOK
  <2> QED
    BY <1>4, <1>5, <1>9, <2>1 DEF Rewind, Store!Rewind
<1>10. CASE HangUp \/ NoToken \/ Unreachable \/ (\E f \in Failures : Refused(f)) \/ Counted
  <2>1. wire' = None /\ minted' = minted
    BY <1>10 DEF HangUp, NoToken, Unreachable, Refused, Finish, Counted
  <2> QED
    BY <1>6, <2>1 DEF Store!Next
<1>11. CASE MessagesToAnthropic \/ MessagesToCodex
  <2>1. (Asked("anthropic")' \/ Asked("codex")') /\ minted' = minted
    BY <1>11 DEF MessagesToAnthropic, MessagesToCodex, Forward, Idle, Asked, None
  <2> QED
    BY <1>7, <2>1, KeepersAre DEF Store!Next
<1>12. CASE MessagesToChat \/ MessagesToCompat \/ CountUpstream
  <2>1. /\ (~Asked("anthropic") /\ ~Asked("codex"))'
        /\ wire = None /\ minted' = minted
    BY <1>12 DEF MessagesToChat, MessagesToCompat, CountUpstream, Forward, Idle, Asked
  <2> QED
    BY <1>3, <1>4, <2>1 DEF Store!vars
<1>13. ASSUME NEW b \in Backends, NEW answer \in Answers[b], request.to = b, Answer(answer)
       PROVE  Store!Answer
  <2> DEFINE g == Gave(b, answer)
  <2>1. wire' = None /\ minted' = Append(minted, g)
    BY <1>0, <1>13 DEF Answer, WireOK
  <2>2. g \in GivenTurn
    BY GaveType DEF IInv, HistoryOK
  <2>3. DOMAIN g = Keepers
    BY <2>2 DEF GivenTurn
  <2> HIDE DEF g
  <2>4. /\ Len(minted') = Len(minted) + 1 /\ minted'[Len(minted')] = g
        /\ SubSeq(minted', 1, Len(minted)) = minted
    <3>1. /\ Len(minted') = Len(minted) + 1 /\ minted'[Len(minted) + 1] = g
      BY <1>0, <2>1, <2>2, Appended
    <3>2. SubSeq(Append(minted, g), 1, Len(minted)) = minted
      BY <1>0, <2>2, AppendedPrefix
    <3> QED
      BY <2>1, <3>1, <3>2
  <2> QED
    BY <1>5, <2>1, <2>3, <2>4 DEF Store!Answer
<1> QED
  BY <1>8, <1>9, <1>10, <1>11, <1>12, <1>13 DEF Next, Store!Next

\* The gateway, which keeps nothing between requests, is to Anthropic and to Codex
\* what a server with a session per conversation would be: each request shows them
\* all the reasoning of it they signed, whoever relayed it and whoever answered in
\* between, and none of each other's.
THEOREM GatewayIsASessionStore == Spec => ImplementsSessionStore
<1>1. Init => Store!Init
  BY DEF Init, None, Store!Init, Store!Nobody, Shown, Asked
<1>2. IInv /\ ShownOK' /\ [Next]_vars => [Store!Next]_(Store!vars)
  BY StoreStep
<1> QED
  BY <1>1, <1>2, InvariantHolds, ShownHolds, PTL DEF Spec, ImplementsSessionStore, Store!Spec

-----------------------------------------------------------------------------
(* Calls and their results. That each call is answered where it is sent is *)
(* no invariant of the messages alone: it holds because Claude Code        *)
(* answers all calls of an answer in its next message, and because no two  *)
(* answers number their blocks alike. Paired says so of the history.       *)

\* The ids of the calls of a message, and of its results.
CallsOf(m)   == Ids(Of("tool_use", m.content))
ResultsOf(m) == Ids(Of("tool_result", m.content))

LEMMA CallTypes ==
    ASSUME NEW m \in Turn
    PROVE  /\ CallsOf(m) \in Seq(Nat) /\ ResultsOf(m) \in Seq(Nat)
           /\ CallsOf(m) = FlatMap(IdsIn(Block, Typed({"tool_use"})), m.content)
           /\ ResultsOf(m) = FlatMap(IdsIn(Block, Typed({"tool_result"})), m.content)
           /\ m \in Prompted => CallsOf(m) = <<>>
           /\ m \in Answered => ResultsOf(m) = <<>>
<1>1. m.content \in Seq(Block)
  BY TurnContent
<1>2. CASE m \in Prompted
  <2>1. m.content \in Seq(UserBlock) /\ UserBlock \in SUBSET Block
    BY <1>2, BlockSets DEF Prompted
  <2>2. UserBlock \cap Typed({"tool_use"}) = {}
    BY DEF UserBlock, UserTypes, Typed
  <2>3. FlatMap(IdsIn(Block, Typed({"tool_use"})), m.content) = <<>>
    BY <2>1, <2>2, NoIds
  <2>4. m \notin Answered
    BY <1>2 DEF Prompted, Answered
  <2> QED
    BY <1>1, <2>3, <2>4, OfIds DEF CallsOf, ResultsOf
<1>3. CASE m \in Answered
  <2>1. m.content \in Seq(AnswerBlock) /\ AnswerBlock \in SUBSET Block
    BY <1>3, BlockSets DEF Answered
  <2>2. AnswerBlock \cap Typed({"tool_result"}) = {}
    BY DEF AnswerBlock, AnswerTypes, Typed
  <2>3. FlatMap(IdsIn(Block, Typed({"tool_result"})), m.content) = <<>>
    BY <2>1, <2>2, NoIds
  <2>4. m \notin Prompted
    BY <1>3 DEF Prompted, Answered
  <2> QED
    BY <1>1, <2>3, <2>4, OfIds DEF CallsOf, ResultsOf
<1> QED
  BY <1>2, <1>3 DEF Turn

\* All of them are in T.
LEMMA AllIds ==
    ASSUME NEW T, NEW A \in SUBSET Block, A \subseteq T, NEW s \in Seq(A)
    PROVE  FlatMap(IdsIn(Block, T), s) = Ids(s)
<1> DEFINE id == [b \in Block |-> b.id]
           one == [b \in Block |-> <<b.id>>]
<1>1. id \in [Block -> Nat] /\ one \in Mappers(Block, Nat)
      /\ \A b \in Block : one[b] = <<id[b]>> /\ one[b] = <<b.id>> /\ id[b] = b.id
  <2>1. \A b \in Block : b.id \in Nat /\ <<b.id>> \in Seq(Nat)
    BY BlockIds
  <2> QED
    BY <2>1 DEF Mappers
<1>2. s \in Seq(Block) /\ \A i \in DOMAIN s : s[i] \in A /\ s[i] \in Block
  BY SeqMonotonic
<1> HIDE DEF id, one
<1>3. \A i \in DOMAIN s : IdsIn(Block, T)[s[i]] = one[s[i]]
  BY <1>1, <1>2 DEF IdsIn
<1>4. FlatMap(IdsIn(Block, T), s) = FlatMap(one, s)
  BY <1>2, <1>3, FlatMapAgree
<1>5. MapSeq(id, s) = FlatMap(one, s)
  BY <1>1, <1>2, MapIsFlat
<1>6. MapSeq(id, s) = Ids(s)
  BY <1>1, <1>2 DEF MapSeq, Ids
<1> QED
  BY <1>4, <1>5, <1>6

\* A user message has the results of the calls it answers, those alone.
LEMMA ResultsAnswerPending ==
    ASSUME history \in Histories, NEW shape \in Shapes,
           Pending # <<>> <=> \E i \in DOMAIN shape : shape[i] = "results"
    PROVE  Ids(Of("tool_result", UserContent(shape))) = Ids(Pending)
<1> DEFINE T == Typed({"tool_result"})
           g == [p \in Seq(UserBlock) |-> FlatMap(IdsIn(Block, T), p)]
           same == [p \in Seq(UserBlock) |-> p]
           P == Parts(shape)
<1>1. /\ P \in Seq(Seq(UserBlock)) /\ Len(P) = Len(shape) /\ DOMAIN shape = 1 .. Len(shape)
      /\ Len(shape) \in Nat \ {0}
      /\ UserContent(shape) = FlattenSeq(P) /\ shape \in Seq(PartKinds)
  BY PartsType
<1>2. UserContent(shape) \in Seq(Block)
  BY UserContentType, BlockSets, SeqMonotonic
<1>3. \A p \in Seq(UserBlock) : p \in Seq(Block)
  BY BlockSets, SeqMonotonic
<1>4. IdsIn(Block, T) \in Mappers(Block, Nat)
  BY BlockIds
<1>5. g \in Mappers(Seq(UserBlock), Nat) /\ same \in Mappers(Seq(UserBlock), UserBlock)
      /\ same \in Mappers(Seq(UserBlock), Block)
      /\ \A p \in Seq(UserBlock) : g[p] = FlatMap(IdsIn(Block, T), p) /\ same[p] = p
  <2>1. \A p \in Seq(UserBlock) : FlatMap(IdsIn(Block, T), p) \in Seq(Nat)
    BY <1>3, <1>4, FlatMapType
  <2> QED
    BY <1>3, <2>1 DEF Mappers
<1> HIDE DEF g, same, P
<1>6. FlatMap(same, P) = FlattenSeq(P)
  <2>1. MapSeq(same, P) = P
    <3>1. \A i \in DOMAIN P : P[i] \in Seq(UserBlock)
      BY <1>1
    <3>2. \A i \in DOMAIN P : same[P[i]] = P[i]
      BY <1>5, <3>1
    <3>3. MapSeq(same, P) = [i \in DOMAIN P |-> P[i]]
      BY <3>2 DEF MapSeq
    <3> QED
      BY <1>1, <3>3
  <2> QED
    BY <2>1 DEF FlatMap
<1>7. FlatMap(IdsIn(Block, T), FlatMap(same, P)) = FlatMap(g, P)
  <2>1. \A p \in Seq(UserBlock) : FlatMap(IdsIn(Block, T), same[p]) = g[p]
    BY <1>5
  <2>2. P \in Seq(Seq(UserBlock))
    BY <1>1
  <2> QED
    BY <1>4, <1>5, <2>1, <2>2, FlatMapTwice
<1>8. Ids(Of("tool_result", UserContent(shape))) = FlatMap(g, P)
  BY <1>1, <1>2, <1>6, <1>7, OfIds
<1>9. ASSUME NEW i \in 1 .. Len(P), shape[i] # "results"
      PROVE  g[P[i]] = <<>>
  <2>1. P[i] = <<UserPart(shape[i], Fresh + i - 1)>> /\ shape[i] \in PartKinds
    BY <1>1, <1>9 DEF P, Parts
  <2>2. P[i] \in Seq(UserBlock)
    BY <1>1
  <2> DEFINE b == UserPart(shape[i], Fresh + i - 1)
  <2>3. b \in UserBlock \ T
    <3>1. b = P[i][1] /\ 1 \in 1 .. Len(P[i])
      BY <2>1
    <3>2. b \in UserBlock
      BY <2>2, <3>1
    <3>3. b.type # "tool_result"
      BY <1>9, <2>1 DEF UserPart, PartKinds
    <3> QED
      BY <3>2, <3>3 DEF Typed
  <2> HIDE DEF b
  <2>4. <<b>> \in Seq(UserBlock \ T) /\ UserBlock \ T \in SUBSET Block
        /\ (UserBlock \ T) \cap T = {}
    BY <2>3, BlockSets
  <2>5. FlatMap(IdsIn(Block, T), <<b>>) = <<>>
    BY <2>4, NoIds
  <2> QED
    BY <1>5, <2>1, <2>2, <2>5 DEF b
<1>10. ASSUME NEW i \in 1 .. Len(P), shape[i] = "results"
       PROVE  g[P[i]] = Ids(Pending)
  <2> DEFINE r == [c \in DOMAIN Pending |-> UserPart("tool_result", Pending[c].id)]
  <2>1. P[i] = r
    BY <1>1, <1>10 DEF P, Parts
  <2>2. r \in Seq(UserBlock) /\ Len(r) = Len(Pending) /\ DOMAIN Pending = 1 .. Len(Pending)
    BY ResultsType, PendingType
  <2>3. \A c \in 1 .. Len(r) : /\ r[c] \in UserBlock /\ r[c].type = "tool_result"
                               /\ r[c].id = Pending[c].id
    BY <2>2 DEF UserPart
  <2>4. Ids(r) = Ids(Pending)
    BY <2>2, <2>3 DEF Ids
  <2> HIDE DEF r
  <2>5. \A c \in 1 .. Len(r) : r[c] \in UserBlock \cap T
    BY <2>3, BlockSets DEF Typed
  <2>6. r \in Seq(UserBlock \cap T)
    BY <2>2, <2>5
  <2>7. FlatMap(IdsIn(Block, T), r) = Ids(r)
    <3>1. UserBlock \cap T \in SUBSET Block /\ UserBlock \cap T \subseteq T
      BY BlockSets
    <3> QED
      BY <2>6, <3>1, AllIds
  <2> QED
    BY <1>5, <2>1, <2>2, <2>4, <2>7
<1>11. CASE Pending = <<>>
  <2>1. \A i \in 1 .. Len(P) : g[P[i]] = <<>>
    BY <1>1, <1>9, <1>11
  <2>2. FlatMap(g, P) = <<>>
    BY <1>1, <1>5, <2>1, FlatMapNone
  <2>3. Ids(Pending) = <<>>
    BY <1>11 DEF Ids
  <2> QED
    BY <1>8, <2>2, <2>3
<1>12. CASE Pending # <<>>
  <2>1. PICK i \in 1 .. Len(P) : shape[i] = "results"
    BY <1>1, <1>12
  <2>2. \A j \in 1 .. Len(P) : j # i => shape[j] # "results"
    BY <1>1, <2>1, ConversationAssumption
  <2>3. \A j \in 1 .. Len(P) : j # i => g[P[j]] = <<>>
    BY <1>9, <2>2
  <2>4. FlatMap(g, P) = g[P[i]]
    <3>1. P \in Seq(Seq(UserBlock)) /\ g \in Mappers(Seq(UserBlock), Nat)
      BY <1>1, <1>5
    <3> QED
      BY <2>3, <3>1, FlatMapOnly
  <2> QED
    BY <1>8, <1>10, <2>1, <2>4
<1> QED
  BY <1>11, <1>12

\* A history in which a user message has the results of the calls just before it,
\* and nothing else has results; and whose answers have ids in their order.
ResultsFollow(h) ==
    \A k \in 1 .. Len(h) :
       k % 2 = 1 => ResultsOf(h[k]) = IF k = 1 THEN <<>> ELSE CallsOf(h[k - 1])

Numbered(h) ==
    \A k \in 1 .. Len(h) : k % 2 = 0 =>
       \A j \in 1 .. Len(h[k].content) : h[k].content[j].id = Offset(Content, h, k) + j

Paired == ResultsFollow(history) /\ Numbered(history)

LEMMA SameOffsets ==
    ASSUME NEW h \in Histories, NEW t \in Histories, NEW n \in Nat,
           n <= Len(h), n <= Len(t), \A i \in 1 .. n : h[i] = t[i], NEW k \in 1 .. n + 1
    PROVE  Offset(Content, h, k) = Offset(Content, t, k)
<1>1. k - 1 \in Nat /\ k - 1 <= Len(h) /\ k - 1 <= Len(t) /\ \A i \in 1 .. k - 1 : h[i] = t[i]
  BY HistoryTypes
<1>2. SubSeq(h, 1, k - 1) = SubSeq(t, 1, k - 1)
  <2>1. h \in Seq(Turn) /\ t \in Seq(Turn)
    BY HistoryTypes
  <2> QED
    BY <1>1, <2>1, SamePrefix
<1> QED
  BY <1>2, Zenon DEF Offset, Before

\* The first messages of a history that is paired.
LEMMA PairedPrefix ==
    ASSUME NEW h \in Histories, NEW t \in Histories,
           Len(t) <= Len(h), \A i \in 1 .. Len(t) : t[i] = h[i],
           ResultsFollow(h), Numbered(h)
    PROVE  ResultsFollow(t) /\ Numbered(t)
<1>1. Len(h) \in Nat /\ Len(t) \in Nat /\ \A i \in 1 .. Len(t) : i \in 1 .. Len(h)
  BY HistoryTypes
<1>2. ResultsFollow(t)
  <2> SUFFICES ASSUME NEW k \in 1 .. Len(t), k % 2 = 1
               PROVE  ResultsOf(t[k]) = IF k = 1 THEN <<>> ELSE CallsOf(t[k - 1])
    BY DEF ResultsFollow
  <2>1. ResultsOf(h[k]) = IF k = 1 THEN <<>> ELSE CallsOf(h[k - 1])
    BY <1>1 DEF ResultsFollow
  <2>2. k # 1 => k - 1 \in 1 .. Len(t)
    BY <1>1
  <2> QED
    BY <2>1, <2>2
<1>3. Numbered(t)
  <2> SUFFICES ASSUME NEW k \in 1 .. Len(t), k % 2 = 0,
                      NEW j \in 1 .. Len(t[k].content)
               PROVE  t[k].content[j].id = Offset(Content, t, k) + j
    BY DEF Numbered
  <2>1. h[k].content[j].id = Offset(Content, h, k) + j /\ t[k] = h[k]
    BY <1>1 DEF Numbered
  <2>2. Offset(Content, h, k) = Offset(Content, t, k)
    <3>1. k \in 1 .. Len(t) + 1
      BY <1>1
    <3> QED
      BY <1>1, <3>1, SameOffsets
  <2> QED
    BY <2>1, <2>2
<1> QED
  BY <1>2, <1>3

\* One message more.
LEMMA PairedLonger ==
    ASSUME NEW h \in Histories, ResultsFollow(h), Numbered(h), NEW m \in Turn,
           m \in IF (Len(h) + 1) % 2 = 1 THEN Prompted ELSE Answered,
           m \in Prompted =>
              ResultsOf(m) = IF h = <<>> THEN <<>> ELSE CallsOf(h[Len(h)]),
           m \in Answered =>
              \A j \in 1 .. Len(m.content) : m.content[j].id = Len(Blocks(h)) + j
    PROVE  ResultsFollow(Append(h, m)) /\ Numbered(Append(h, m))
<1> DEFINE t == Append(h, m)
           n == Len(h)
<1>1. h \in Seq(Turn) /\ n \in Nat /\ (h = <<>> <=> n = 0)
  <2>1. h \in Seq(Turn) /\ n \in Nat
    BY HistoryTypes
  <2> QED
    BY <2>1
<1>2. t \in Histories /\ Len(t) = n + 1
  BY LongerHistory
<1>3. t[n + 1] = m /\ \A i \in 1 .. n : t[i] = h[i]
  BY <1>1, Appended
<1>4. Offset(Content, t, n + 1) = Len(Blocks(h))
  <2>1. Offset(Content, h, n + 1) = Offset(Content, t, n + 1)
    <3>1. n <= Len(h) /\ n <= Len(t) /\ n + 1 \in 1 .. n + 1 /\ \A i \in 1 .. n : h[i] = t[i]
      BY <1>1, <1>2, <1>3
    <3> QED
      BY <1>1, <1>2, <3>1, SameOffsets
  <2>2. Content \in Mappers(Turn, Block) /\ Blocks(h) = FlatMap(Content, h)
    BY <1>1, BlocksAreFlat
  <2>3. Offset(Content, h, n + 1) = Len(FlatMap(Content, h))
    BY <1>1, <2>2, Offsets
  <2> QED
    BY <2>1, <2>2, <2>3
<1>5. ASSUME NEW i \in 1 .. n
      PROVE  Offset(Content, t, i) = Offset(Content, h, i)
  <2>1. n <= Len(h) /\ n <= Len(t) /\ i \in 1 .. n + 1 /\ \A c \in 1 .. n : h[c] = t[c]
    BY <1>1, <1>2, <1>3
  <2> QED
    BY <1>1, <1>2, <2>1, SameOffsets
<1> HIDE DEF t
<1>6. ResultsFollow(t)
  <2> SUFFICES ASSUME NEW k \in 1 .. n + 1, k % 2 = 1
               PROVE  ResultsOf(t[k]) = IF k = 1 THEN <<>> ELSE CallsOf(t[k - 1])
    BY <1>2 DEF ResultsFollow
  <2>1. CASE k = n + 1
    <3>1. ResultsOf(m) = IF h = <<>> THEN <<>> ELSE CallsOf(h[n])
      BY <2>1
    <3>2. n # 0 => t[n] = h[n] /\ k - 1 = n
      BY <1>1, <1>3, <2>1
    <3>3. k = 1 <=> h = <<>>
      BY <1>1, <2>1
    <3> QED
      BY <1>1, <1>3, <2>1, <3>1, <3>2, <3>3
  <2>2. CASE k # n + 1
    <3>1. k \in 1 .. n /\ (k # 1 => k - 1 \in 1 .. n)
      BY <1>1, <2>2
    <3>2. ResultsOf(h[k]) = IF k = 1 THEN <<>> ELSE CallsOf(h[k - 1])
      BY <3>1 DEF ResultsFollow
    <3> QED
      BY <1>3, <3>1, <3>2
  <2> QED
    BY <2>1, <2>2
<1>7. Numbered(t)
  <2> SUFFICES ASSUME NEW k \in 1 .. n + 1, k % 2 = 0, NEW j \in 1 .. Len(t[k].content)
               PROVE  t[k].content[j].id = Offset(Content, t, k) + j
    BY <1>2 DEF Numbered
  <2>1. CASE k = n + 1
    <3>1. m \in Answered
      BY <1>1, <2>1
    <3> QED
      BY <1>3, <1>4, <2>1, <3>1
  <2>2. CASE k # n + 1
    <3>1. k \in 1 .. n
      BY <1>1, <2>2
    <3>2. t[k] = h[k] /\ Offset(Content, t, k) = Offset(Content, h, k)
      BY <1>3, <1>5, <3>1
    <3> QED
      BY <3>1, <3>2 DEF Numbered
  <2> QED
    BY <2>1, <2>2
<1> QED
  BY <1>6, <1>7 DEF t

\* The blocks of an answer are numbered on from those before it.
LEMMA AnswerIds ==
    ASSUME history \in Histories, NEW b \in Backends, NEW answer \in Answers[b]
    PROVE  \A j \in 1 .. Len(ContentOf(b, answer)) :
              ContentOf(b, answer)[j].id = Len(Blocks(history)) + j
<1> DEFINE s == ContentOf(b, answer)
<1>1. Fresh \in Nat /\ Len(Blocks(history)) \in Nat /\ Fresh = Len(Blocks(history)) + 1
  <2>1. Blocks(history) \in Seq(Block)
    BY BlocksAreFlat, HistoryTypes
  <2> QED
    BY <2>1 DEF Fresh
<1>2. s \in Seq(AnswerBlock) /\ DOMAIN s = 1 .. Len(s)
  BY ContentType
<1>3. CASE b = "chat"
  <2> DEFINE types == (IF answer.reasoning THEN <<"thinking">> ELSE <<>>)
                      \o (IF answer.text THEN <<"text">> ELSE <<>>)
                      \o [c \in 1 .. answer.calls |-> "tool_use"]
  <2>1. s = [i \in DOMAIN types |->
                [type |-> types[i], id |-> Fresh + i - 1, signature |-> NoSignature]]
    BY <1>3 DEF ContentOf, Chat!TranslateResponse, Chat!NoSignature, NoSignature
  <2> HIDE DEF types, s
  <2>2. \A j \in DOMAIN s : s[j].id = Fresh + j - 1
    BY <2>1
  <2>3. \A j \in 1 .. Len(s) : s[j].id = Fresh + j - 1
    BY <1>2, <2>2
  <2>4. \A j \in 1 .. Len(s) : s[j].id = Len(Blocks(history)) + j
    BY <1>1, <1>2, <2>3
  <2> QED
    BY <2>4 DEF s
<1>4. CASE b # "chat"
  <2>1. b \in DOMAIN Kinds
    BY <1>4 DEF Backends, Kinds
  <2>2. answer \in Seq(Kinds[b])
    BY <2>1, ConversationAssumption
  <2>3. \A i \in DOMAIN answer : answer[i] \in Kinds[b]
    BY <2>2
  <2>4. DOMAIN s = DOMAIN answer
    BY <1>4 DEF ContentOf
  <2>5. ASSUME NEW i \in DOMAIN answer
        PROVE  s[i].id = Fresh + i - 1
    <3>1. CASE b = "codex"
      <4>1. s[i] = Codex!BlockOf(answer[i], Fresh + i - 1)
        BY <3>1 DEF ContentOf
      <4>2. answer[i] \in {"minted", "reasoning", "text", "call"}
        BY <2>3, <3>1 DEF Kinds
      <4> HIDE DEF s
      <4> QED
        BY <4>1, <4>2 DEF Codex!BlockOf
    <3>2. CASE b # "codex"
      <4>1. s[i] = ProxiedBlock(answer[i], Fresh + i - 1)
        BY <1>4, <3>2 DEF ContentOf
      <4>2. answer[i] \in {"sealed", "redacted", "minted", "foreign", "reasoning", "text", "call"}
        <5>1. Kinds[b] \subseteq {"sealed", "redacted", "minted", "foreign", "reasoning", "text", "call"}
          BY <2>1 DEF Kinds
        <5> QED
          BY <2>3, <5>1
      <4> HIDE DEF s
      <4> QED
        BY <4>1, <4>2 DEF ProxiedBlock
    <3> QED
      BY <3>1, <3>2
  <2> HIDE DEF s
  <2>6. \A j \in 1 .. Len(s) : s[j].id = Fresh + j - 1
    BY <1>2, <2>4, <2>5
  <2> QED
    BY <1>1, <2>6 DEF s
<1> QED
  BY <1>3, <1>4

LEMMA PairedInductive ==
    ASSUME IInv, Paired, [Next]_vars
    PROVE  Paired'
<1>0. /\ history \in Histories /\ Len(history) \in Nat /\ Len(minted) \in Nat
      /\ Len(history) = 2 * Len(minted) \/ Len(history) = 2 * Len(minted) + 1
      /\ WireOK /\ RequestOK /\ ResultsFollow(history) /\ Numbered(history)
  BY Lengths DEF IInv, HistoryOK, Paired
<1>1. ASSUME NEW h, history' = h, ResultsFollow(h), Numbered(h)
      PROVE  Paired'
  <2>1. ResultsFollow(history)' /\ Numbered(history)'
    BY <1>1 DEF ResultsFollow, Numbered, Offset, Before
  <2> QED
    BY <2>1 DEF Paired
<1>2. CASE UNCHANGED <<history, minted>>
  BY <1>0, <1>1, <1>2
<1>3. ASSUME NEW shape \in Shapes, Prompt(shape)
      PROVE  Paired'
  <2> DEFINE m == [role |-> "user", content |-> UserContent(shape)]
  <2>1. m \in Turn /\ m \in Prompted /\ m \notin Answered /\ history' = Append(history, m)
    BY <1>0, <1>3, UserContentType DEF Prompt, Turn, Prompted, Answered
  <2>2. m \in IF (Len(history) + 1) % 2 = 1 THEN Prompted ELSE Answered
    <3>1. (Len(history) + 1) % 2 = 1
      BY <1>0, <1>3 DEF Prompt, AwaitsUser
    <3> QED
      BY <2>1, <3>1
  <2>3. ResultsOf(m) = Ids(Pending)
    BY <1>0, <1>3, ResultsAnswerPending DEF Prompt, ResultsOf
  <2>4. Ids(Pending) = IF history = <<>> THEN <<>> ELSE CallsOf(history[Len(history)])
    BY DEF Pending, CallsOf, Ids
  <2> HIDE DEF m
  <2>5. ResultsFollow(Append(history, m)) /\ Numbered(Append(history, m))
    BY <1>0, <2>1, <2>2, <2>3, <2>4, PairedLonger
  <2> QED
    BY <1>1, <2>1, <2>5
<1>4. ASSUME NEW b \in Backends, NEW answer \in Answers[b], request.to = b, Answer(answer)
      PROVE  Paired'
  <2> DEFINE m == [role |-> "assistant", content |-> ContentOf(b, answer)]
  <2>1. wire # None /\ wire.to = b
    BY <1>0, <1>4 DEF WireOK, Answer
  <2>2. history' = Append(history, m)
    BY <1>4, <2>1 DEF Answer
  <2>3. m \in Turn /\ m \in Answered /\ m \notin Prompted
    BY <1>0, ContentType DEF Turn, Answered, Prompted
  <2>4. m \in IF (Len(history) + 1) % 2 = 1 THEN Prompted ELSE Answered
    <3>1. (Len(history) + 1) % 2 # 1
      BY <1>0, <1>4, <2>1 DEF WireOK, RequestOK
    <3> QED
      BY <2>3, <3>1
  <2>5. \A j \in 1 .. Len(m.content) : m.content[j].id = Len(Blocks(history)) + j
    BY <1>0, AnswerIds
  <2> HIDE DEF m
  <2>6. ResultsFollow(Append(history, m)) /\ Numbered(Append(history, m))
    BY <1>0, <2>3, <2>4, <2>5, PairedLonger
  <2> QED
    BY <1>1, <2>2, <2>6
<1>5. ASSUME NEW k \in 0 .. Len(minted) - 1, Rewind(k)
      PROVE  Paired'
  <2>1. 2 * k \in 0 .. Len(history) /\ history' = SubSeq(history, 1, 2 * k)
    BY <1>0, <1>5 DEF Rewind
  <2> DEFINE t == SubSeq(history, 1, 2 * k)
  <2>2. t \in Histories /\ Len(t) = 2 * k
    BY <1>0, <2>1, ShorterHistory
  <2>3. \A i \in 1 .. 2 * k : t[i] = history[i]
    <3>1. \A i \in 1 .. 2 * k : history[i] \in Turn
      BY <1>0, <2>1, HistoryTypes
    <3> QED
      BY <2>1, <3>1, SubSeqProperties
  <2> HIDE DEF t
  <2>4. ResultsFollow(t) /\ Numbered(t)
    BY <1>0, <2>1, <2>2, <2>3, PairedPrefix
  <2> QED
    BY <1>1, <2>1, <2>4 DEF t
<1> QED
  BY <1>2, <1>3, <1>4, <1>5, HistorySteps

LEMMA PairedHolds == Spec => []Paired
<1>1. Init => Paired
  BY DEF Init, Paired, ResultsFollow, Numbered
<1>2. IInv /\ Paired /\ [Next]_vars => Paired'
  BY PairedInductive
<1> QED
  BY <1>1, <1>2, InvariantHolds, PTL DEF Spec

\* Places are compared by their offsets.
LEMMA EarlierPlace ==
    \A a, b, c, o, q \in Nat : a + b <= c /\ o <= b /\ 1 <= q => a + o < c + q
OBVIOUS

\* No two calls of a history have the same id.
LEMMA CallsDistinct ==
    ASSUME NEW h \in Histories, Numbered(h),
           NEW k \in 1 .. Len(h), k % 2 = 0, NEW n \in 1 .. Len(CallsOf(h[k])),
           NEW l \in 1 .. Len(h), l % 2 = 0, NEW o \in 1 .. Len(CallsOf(h[l])),
           CallsOf(h[k])[n] = CallsOf(h[l])[o]
    PROVE  k = l /\ n = o
<1> DEFINE g == IdsIn(Block, Typed({"tool_use"}))
           off(i) == Offset(Content, h, i)
           len(i) == Len(h[i].content)
<1>1. h \in Seq(Turn) /\ Len(h) \in Nat /\ g \in Mappers(Block, Nat)
      /\ Content \in Mappers(Turn, Block)
  BY HistoryTypes, BlockIds, BlocksAreFlat
<1>2. ASSUME NEW i \in 1 .. Len(h), i % 2 = 0, NEW c \in 1 .. Len(CallsOf(h[i]))
      PROVE  \E p \in 1 .. len(i) : /\ CallsOf(h[i])[c] = off(i) + p
                                    /\ c = Offset(g, h[i].content, p) + 1
  <2> DEFINE s == h[i].content
  <2>1. s \in Seq(Block) /\ CallsOf(h[i]) = FlatMap(g, s)
    <3>1. h[i] \in Turn
      BY <1>1, ElementOfSeq
    <3> QED
      BY <3>1, TurnContent, CallTypes
  <2>2. \E p \in 1 .. Len(s) : \E q \in 1 .. Len(g[s[p]]) :
           c = Offset(g, s, p) + q /\ FlatMap(g, s)[c] = g[s[p]][q]
    <3>1. c \in 1 .. Len(FlatMap(g, s))
      BY <1>2, <2>1
    <3>2. g \in Mappers(Block, Nat) /\ s \in Seq(Block)
      BY <1>1, <2>1
    <3> HIDE DEF g, s
    <3> QED
      BY <3>1, <3>2, FlatMapWhere
  <2>3. PICK p \in 1 .. Len(s) : \E q \in 1 .. Len(g[s[p]]) :
           c = Offset(g, s, p) + q /\ FlatMap(g, s)[c] = g[s[p]][q]
    BY <2>2
  <2>4. PICK q \in 1 .. Len(g[s[p]]) :
           c = Offset(g, s, p) + q /\ FlatMap(g, s)[c] = g[s[p]][q]
    BY <2>3
  <2>5. s[p] \in Block
    BY <2>1, ElementOfSeq
  <2>6. g[s[p]] = <<s[p].id>>
    <3>1. g[s[p]] = IF s[p] \in Typed({"tool_use"}) THEN <<s[p].id>> ELSE <<>>
      BY <2>5 DEF IdsIn
    <3>2. Len(g[s[p]]) # 0
      BY <2>4
    <3> HIDE DEF g
    <3> QED
      BY <3>1, <3>2
  <2>7. q = 1 /\ g[s[p]][q] = s[p].id
    <3> DEFINE w == s[p].id
    <3>1. g[s[p]] = <<w>>
      BY <2>6
    <3> HIDE DEF w, g
    <3>2. Len(g[s[p]]) = 1 /\ g[s[p]][1] = w
      BY <3>1
    <3> QED
      BY <2>4, <3>2 DEF w
  <2>8. s[p].id = off(i) + p
    BY <1>2 DEF Numbered
  <2> QED
    BY <2>1, <2>4, <2>7, <2>8
<1>3. PICK p \in 1 .. len(k) : /\ CallsOf(h[k])[n] = off(k) + p
                               /\ n = Offset(g, h[k].content, p) + 1
  BY <1>2
<1>4. PICK q \in 1 .. len(l) : /\ CallsOf(h[l])[o] = off(l) + q
                               /\ o = Offset(g, h[l].content, q) + 1
  BY <1>2
<1>5. \A i \in 1 .. Len(h) : /\ off(i) \in Nat /\ len(i) \in Nat /\ Content[h[i]] = h[i].content
                             /\ \A j \in i + 1 .. Len(h) : off(i) + len(i) <= off(j)
  <2>1. \A i \in 1 .. Len(h) : h[i] \in Turn /\ h[i].content \in Seq(Block)
    BY <1>1, ElementOfSeq, TurnContent
  <2>2. \A i \in 1 .. Len(h) : Content[h[i]] = h[i].content /\ len(i) \in Nat
    BY <2>1 DEF Content
  <2>3. \A i \in 1 .. Len(h) : off(i) \in Nat
    BY <1>1, Offsets
  <2>4. ASSUME NEW i \in 1 .. Len(h), NEW j \in i + 1 .. Len(h)
        PROVE  off(i) + len(i) <= off(j)
    <3>1. j \in i + 1 .. Len(h) + 1
      BY <1>1
    <3>2. Offset(Content, h, i) + Len(Content[h[i]]) <= Offset(Content, h, j)
      BY <1>1, <3>1, OffsetsGrow
    <3> QED
      BY <2>2, <3>2
  <2> QED
    BY <2>2, <2>3, <2>4
<1>6. off(k) + p = off(l) + q
  BY <1>3, <1>4
<1> HIDE DEF off, len
<1>7. ~(k < l) /\ ~(l < k)
  <2>1. /\ off(k) \in Nat /\ len(k) \in Nat /\ p \in Nat /\ 1 <= p /\ p <= len(k)
        /\ off(l) \in Nat /\ len(l) \in Nat /\ q \in Nat /\ 1 <= q /\ q <= len(l)
    BY <1>5
  <2>2. k < l => off(k) + p < off(l) + q
    <3>1. k < l => l \in k + 1 .. Len(h)
      BY <1>1
    <3>2. k < l => off(k) + len(k) <= off(l)
      BY <1>5, <3>1
    <3> QED
      BY <2>1, <3>2, EarlierPlace, Zenon
  <2>3. l < k => off(l) + q < off(k) + p
    <3>1. l < k => k \in l + 1 .. Len(h)
      BY <1>1
    <3>2. l < k => off(l) + len(l) <= off(k)
      BY <1>5, <3>1
    <3> QED
      BY <2>1, <3>2, EarlierPlace, Zenon
  <2>4. off(k) + p \in Nat /\ off(l) + q \in Nat
    BY <2>1
  <2>5. \A x, y \in Nat : x = y => ~(x < y) /\ ~(y < x)
    OBVIOUS
  <2> QED
    BY <1>6, <2>2, <2>3, <2>4, <2>5, Zenon
<1>8. k = l
  BY <1>7
<1>9. p = q
  BY <1>5, <1>6, <1>8
<1> QED
  BY <1>3, <1>4, <1>8, <1>9

\* Where the messages are forwarded each call is answered in the next one.
AnsweredNext(messages) ==
    \A i \in DOMAIN messages :
       Of("tool_use", messages[i].content) # <<>> =>
          /\ i < Len(messages)
          /\ Ids(Of("tool_result", messages[i + 1].content))
                = Ids(Of("tool_use", messages[i].content))

LEMMA ForwardedAnswered ==
    ASSUME NEW h \in Histories, ResultsFollow(h), Len(h) % 2 = 1
    PROVE  AnsweredNext(h)
<1>1. h \in Seq(Turn) /\ Len(h) \in Nat /\ DOMAIN h = 1 .. Len(h)
  BY HistoryTypes
<1> SUFFICES ASSUME NEW i \in 1 .. Len(h), Of("tool_use", h[i].content) # <<>>
             PROVE  i < Len(h) /\ ResultsOf(h[i + 1]) = CallsOf(h[i])
  BY <1>1 DEF AnsweredNext, ResultsOf, CallsOf
<1>2. h[i] \in IF i % 2 = 1 THEN Prompted ELSE Answered
  BY HistoryTypes
<1>3. CallsOf(h[i]) # <<>>
  <2>1. h[i].content \in Seq(Block)
    BY <1>1, TurnContent, ElementOfSeq
  <2>2. Of("tool_use", h[i].content) \in Seq(Block)
    BY <2>1, OfIds
  <2>3. DOMAIN CallsOf(h[i]) = DOMAIN Of("tool_use", h[i].content)
    BY DEF CallsOf, Ids
  <2>4. DOMAIN Of("tool_use", h[i].content) # {}
    <3> DEFINE x == Of("tool_use", h[i].content)
    <3> HIDE DEF x
    <3>1. x \in Seq(Block) /\ x # <<>>
      BY <2>2 DEF x
    <3>2. Len(x) \in Nat \ {0} /\ DOMAIN x = 1 .. Len(x)
      BY <3>1, EmptySeq
    <3>3. 1 \in DOMAIN x
      BY <3>2
    <3> QED
      BY <3>3 DEF x
  <2> QED
    BY <2>3, <2>4
<1>4. i % 2 # 1
  <2>1. h[i] \in Turn
    BY <1>1, ElementOfSeq
  <2> QED
    BY <1>2, <1>3, <2>1, CallTypes
<1>5. i + 1 \in 1 .. Len(h) /\ (i + 1) % 2 = 1 /\ i + 1 # 1 /\ (i + 1) - 1 = i
  BY <1>1, <1>4
<1>6. ResultsOf(h[i + 1]) = IF i + 1 = 1 THEN <<>> ELSE CallsOf(h[(i + 1) - 1])
  BY <1>5 DEF ResultsFollow
<1> QED
  BY <1>1, <1>5, <1>6

LEMMA StrippedAnswered ==
    ASSUME NEW h \in Histories, AnsweredNext(h)
    PROVE  AnsweredNext(StripUnsignedThinking(h))
<1> DEFINE t == StripUnsignedThinking(h)
<1>1. h \in Seq(Turn) /\ Len(h) \in Nat /\ DOMAIN h = 1 .. Len(h)
  BY HistoryTypes
<1>2. DOMAIN t = 1 .. Len(h) /\ \A i \in 1 .. Len(h) : t[i] = StripMessage(h[i])
  BY <1>1 DEF StripUnsignedThinking
<1>3. Len(t) = Len(h)
  BY <1>1, <1>2 DEF StripUnsignedThinking
<1>4. ASSUME NEW m \in Turn, NEW type \in {"tool_use", "tool_result"}
      PROVE  Of(type, StripMessage(m).content) = Of(type, m.content)
  <2> DEFINE N == Typed({type})
  <2>1. N \in SUBSET Native /\ Placeholder \notin N
    BY DEF Typed, Native, isUnsignedThinking, Placeholder
  <2>2. /\ StripMessage(m).content \in Seq(Native)
        /\ FlatMap(Chosen(Block, N), StripMessage(m).content)
              = FlatMap(Chosen(Block, N), m.content)
    BY <2>1, StripKeepsChosen
  <2>3. StripMessage(m).content \in Seq(Block) /\ m.content \in Seq(Block)
    <3>1. Native \subseteq Block
      BY DEF Native
    <3> QED
      BY <2>2, <3>1, TurnContent, SeqMonotonic
  <2>4. \A s \in Seq(Block) : Of(type, s) = FlatMap(Chosen(Block, N), s)
    BY OfIsFlat
  <2> QED
    BY <2>2, <2>3, <2>4, Zenon
<1>5. \A i \in 1 .. Len(h) :
         /\ Of("tool_use", t[i].content) = Of("tool_use", h[i].content)
         /\ Of("tool_result", t[i].content) = Of("tool_result", h[i].content)
  BY <1>1, <1>2, <1>4, ElementOfSeq
<1> HIDE DEF t
<1> SUFFICES ASSUME NEW i \in 1 .. Len(h), Of("tool_use", t[i].content) # <<>>
             PROVE  /\ i < Len(h)
                    /\ Ids(Of("tool_result", t[i + 1].content))
                          = Ids(Of("tool_use", t[i].content))
  BY <1>2, <1>3 DEF AnsweredNext, t
<1>6. /\ i < Len(h)
      /\ Ids(Of("tool_result", h[i + 1].content)) = Ids(Of("tool_use", h[i].content))
  BY <1>1, <1>5 DEF AnsweredNext
<1>7. i + 1 \in 1 .. Len(h)
  BY <1>1, <1>6
<1> QED
  BY <1>5, <1>6, <1>7

\* The elements of a concatenation.
LEMMA ConcatElements ==
    ASSUME NEW X, NEW a \in Seq(X), NEW b \in Seq(X)
    PROVE  /\ a \o b \in Seq(X) /\ Len(a \o b) = Len(a) + Len(b)
           /\ \A i \in 1 .. Len(a) : (a \o b)[i] = a[i]
           /\ \A i \in 1 .. Len(b) : (a \o b)[Len(a) + i] = b[i]
           /\ \A i \in 1 .. Len(a) + Len(b) :
                 i \notin 1 .. Len(a) => /\ i - Len(a) \in 1 .. Len(b)
                                         /\ (a \o b)[i] = b[i - Len(a)]
<1> DEFINE c == a \o b
<1>1. /\ c \in Seq(X) /\ Len(c) = Len(a) + Len(b)
      /\ \A i \in 1 .. Len(a) + Len(b) :
            c[i] = IF i <= Len(a) THEN a[i] ELSE b[i - Len(a)]
  BY ConcatProperties
<1>2. Len(a) \in Nat /\ Len(b) \in Nat
  OBVIOUS
<1> HIDE DEF c
<1>3. \A i \in 1 .. Len(a) : i \in 1 .. Len(a) + Len(b) /\ i <= Len(a)
  BY <1>2
<1>4. \A i \in 1 .. Len(b) : /\ Len(a) + i \in 1 .. Len(a) + Len(b) /\ ~(Len(a) + i <= Len(a))
                             /\ (Len(a) + i) - Len(a) = i
  BY <1>2
<1>5. \A i \in 1 .. Len(a) : c[i] = a[i]
  BY <1>1, <1>3
<1>6. \A i \in 1 .. Len(b) : c[Len(a) + i] = b[i]
  BY <1>1, <1>4
<1>7. \A i \in 1 .. Len(a) + Len(b) :
         i \notin 1 .. Len(a) => i - Len(a) \in 1 .. Len(b) /\ c[i] = b[i - Len(a)]
  BY <1>1, <1>2
<1> QED
  BY <1>1, <1>5, <1>6, <1>7 DEF c

-----------------------------------------------------------------------------
(* Calls and results among the items of a Codex request.                   *)

CodexTurn == [m \in Turn |-> Codex!translateMessage(m)]

LEMMA CodexTurns ==
    ASSUME NEW h \in Seq(Turn)
    PROVE  /\ CodexTurn \in Mappers(Turn, Codex!Item)
           /\ CodexMessages(h) = FlatMap(CodexTurn, h)
<1>1. CodexTurn \in Mappers(Turn, Codex!Item)
  <2>1. "message" \in Codex!ItemTypes
    BY DEF Codex!ItemTypes
  <2>2. \A m \in Turn : Codex!translateMessage(m) \in Seq(Codex!Item)
    BY <2>1, CodexKeepsMessage
  <2> QED
    BY <2>2 DEF CodexTurn, Mappers
<1>2. \A i \in DOMAIN h : h[i] \in Turn
  OBVIOUS
<1>3. MapSeq(CodexTurn, h) = [i \in DOMAIN h |-> Codex!translateMessage(h[i])]
  BY <1>2 DEF MapSeq, CodexTurn
<1> QED
  BY <1>1, <1>3 DEF CodexMessages, FlatMap

LEMMA CodexItems ==
    ASSUME NEW s \in Seq(Block), NEW type \in Codex!ItemTypes
    PROVE  LET items == [i \in DOMAIN s |-> Codex!ItemFor(type, s[i])]
           IN  /\ items \in Seq(Codex!Item) /\ Len(items) = Len(s) /\ Len(Ids(s)) = Len(s)
               /\ \A i \in 1 .. Len(s) : /\ items[i].type = type /\ items[i].role = ""
                                         /\ items[i].ids = <<Ids(s)[i]>>
<1>1. /\ [i \in DOMAIN s |-> Codex!ItemFor(type, s[i])] \in Seq(Codex!Item)
  BY CodexItemsOf
<1>2. DOMAIN s = 1 .. Len(s) /\ Len(s) \in Nat
  OBVIOUS
<1>3. \A i \in 1 .. Len(s) : Ids(s)[i] = s[i].id
  BY <1>2 DEF Ids
<1>4. Len([i \in DOMAIN s |-> Codex!ItemFor(type, s[i])]) = Len(s) /\ Len(Ids(s)) = Len(s)
  BY <1>2 DEF Ids
<1>5. \A i \in 1 .. Len(s) : /\ Codex!ItemFor(type, s[i]).type = type
                             /\ Codex!ItemFor(type, s[i]).role = ""
                             /\ Codex!ItemFor(type, s[i]).ids = <<s[i].id>>
  BY DEF Codex!ItemFor
<1> QED
  BY <1>1, <1>2, <1>3, <1>4, <1>5

\* A user message leads with its results.
LEMMA CodexUserTurn ==
    ASSUME NEW m \in Prompted
    PROVE  /\ m \in Turn /\ Len(CodexTurn[m]) \in Nat
           /\ Len(ResultsOf(m)) \in Nat /\ Len(ResultsOf(m)) <= Len(CodexTurn[m])
           /\ \A q \in 1 .. Len(ResultsOf(m)) :
                 /\ CodexTurn[m][q].type = "function_call_output"
                 /\ CodexTurn[m][q].role = ""
                 /\ CodexTurn[m][q].ids = <<ResultsOf(m)[q]>>
           /\ \A q \in 1 .. Len(CodexTurn[m]) :
                 q \notin 1 .. Len(ResultsOf(m)) => CodexTurn[m][q].type = "message"
<1> DEFINE s == m.content
           results == Of("tool_result", s)
           r == [i \in DOMAIN results |-> Codex!ItemFor("function_call_output", results[i])]
           parts == Select(s, LAMBDA b : b.type \in {"text", "image"})
           u == IF parts = <<>> THEN <<>>
                ELSE <<[type |-> "message", role |-> "user", ids |-> Ids(parts)]>>
<1>1. m \in Turn /\ m.role = "user" /\ s \in Seq(Block)
  <2>1. m \in Turn /\ m.role = "user"
    BY DEF Turn, Prompted
  <2> QED
    BY <2>1, TurnContent
<1>2. results \in Seq(Block) /\ parts \in Seq(Block) /\ ResultsOf(m) = Ids(results)
  BY <1>1, OfIds, TextAndImages DEF ResultsOf
<1>3. Codex!ToolResults(s) = r
  BY SameSelection DEF Codex!ToolResults
<1>4. Codex!userMessage(s) = u
  BY SameFlattening DEF Codex!userMessage, Codex!Select, Codex!Ids, Select, Ids
<1>5. CodexTurn[m] = r \o u
  <2>1. Codex!translateMessage(m) = Codex!ToolResults(s) \o Codex!userMessage(s)
    BY <1>1 DEF Codex!translateMessage
  <2> QED
    BY <1>1, <1>3, <1>4, <2>1 DEF CodexTurn
<1> HIDE DEF results, parts
<1>6. /\ r \in Seq(Codex!Item) /\ Len(r) = Len(results) /\ Len(Ids(results)) = Len(results)
      /\ \A q \in 1 .. Len(results) : /\ r[q].type = "function_call_output" /\ r[q].role = ""
                                      /\ r[q].ids = <<Ids(results)[q]>>
  <2>1. "function_call_output" \in Codex!ItemTypes /\ results \in Seq(Block)
    BY <1>2 DEF Codex!ItemTypes
  <2> QED
    BY <2>1, CodexItems
<1>7. u \in Seq(Codex!Item) /\ \A q \in 1 .. Len(u) : u[q].type = "message"
  <2>1. u \in Seq(Codex!Item)
    BY <1>2, CodexMessageOf
  <2>2. CASE parts = <<>>
    BY <2>1, <2>2
  <2>3. CASE parts # <<>>
    BY <2>1, <2>3
  <2> QED
    BY <2>2, <2>3
<1> HIDE DEF r, u
<1>8. Len(r) \in Nat /\ Len(u) \in Nat
  <2>1. r \in Seq(Codex!Item) /\ u \in Seq(Codex!Item)
    BY <1>6, <1>7
  <2> QED
    BY <2>1
<1>9. /\ Len(r \o u) = Len(r) + Len(u)
      /\ \A i \in 1 .. Len(r) : (r \o u)[i] = r[i]
      /\ \A i \in 1 .. Len(r) + Len(u) :
            i \notin 1 .. Len(r) => i - Len(r) \in 1 .. Len(u) /\ (r \o u)[i] = u[i - Len(r)]
  <2>1. r \in Seq(Codex!Item) /\ u \in Seq(Codex!Item)
    BY <1>6, <1>7
  <2> QED
    BY <2>1, ConcatElements
<1> DEFINE t == CodexTurn[m]
<1>10. /\ Len(t) = Len(r) + Len(u) /\ Len(ResultsOf(m)) = Len(r)
       /\ \A i \in 1 .. Len(r) : t[i] = r[i]
       /\ \A i \in 1 .. Len(r) + Len(u) :
            i \notin 1 .. Len(r) => i - Len(r) \in 1 .. Len(u) /\ t[i] = u[i - Len(r)]
  BY <1>2, <1>5, <1>6, <1>9, Zenon
<1> HIDE DEF t
<1>11. \A q \in 1 .. Len(ResultsOf(m)) : /\ t[q].type = "function_call_output" /\ t[q].role = ""
                                         /\ t[q].ids = <<ResultsOf(m)[q]>>
  BY <1>2, <1>6, <1>10
<1>12. \A q \in 1 .. Len(t) : q \notin 1 .. Len(ResultsOf(m)) => t[q].type = "message"
  BY <1>7, <1>10
<1>13. Len(t) \in Nat /\ Len(ResultsOf(m)) \in Nat /\ Len(ResultsOf(m)) <= Len(t)
  BY <1>8, <1>10
<1> QED
  BY <1>1, <1>11, <1>12, <1>13 DEF t

\* An answer has an item for each of its calls, and nothing a user says.
LEMMA CodexAnswerTurn ==
    ASSUME NEW m \in Answered
    PROVE  /\ m \in Turn
           /\ \A q \in 1 .. Len(CodexTurn[m]) :
                 /\ CodexTurn[m][q].type # "function_call_output"
                 /\ CodexTurn[m][q].role # "user"
                 /\ CodexTurn[m][q].type = "function_call"
                       => \E n \in 1 .. Len(CallsOf(m)) : CodexTurn[m][q].ids = <<CallsOf(m)[n]>>
           /\ \A n \in 1 .. Len(CallsOf(m)) : \E q \in 1 .. Len(CodexTurn[m]) :
                 /\ CodexTurn[m][q].type = "function_call"
                 /\ CodexTurn[m][q].ids = <<CallsOf(m)[n]>>
<1> DEFINE s == m.content
           replayed == Codex!Select(s, LAMBDA b : /\ b.type = "thinking"
                                                  /\ Codex!DecodeReasoning(b.signature))
           texts == Of("text", s)
           calls == Of("tool_use", s)
           r == [i \in DOMAIN replayed |-> Codex!ItemFor("reasoning", replayed[i])]
           t == IF texts = <<>> THEN <<>>
                ELSE <<[type |-> "message", role |-> "assistant", ids |-> Ids(texts)]>>
           c == [i \in DOMAIN calls |-> Codex!ItemFor("function_call", calls[i])]
<1>1. m \in Turn /\ m.role = "assistant" /\ s \in Seq(Block)
  <2>1. m \in Turn /\ m.role = "assistant"
    BY DEF Turn, Answered
  <2> QED
    BY <2>1, TurnContent
<1>2. /\ replayed \in Seq(Block) /\ texts \in Seq(Block) /\ calls \in Seq(Block)
      /\ CallsOf(m) = Ids(calls)
  BY <1>1, ReplayedIsFlat, OfIds DEF CallsOf
<1>3. Codex!assistantItems(s) = (r \o t) \o c
  BY SameSelection DEF Codex!assistantItems
<1>4. Codex!ToolResults(s) = <<>>
  <2>1. Ids(Of("tool_result", s)) = <<>>
    BY <1>1, CallTypes DEF ResultsOf
  <2>2. DOMAIN Of("tool_result", s) = {}
    BY <2>1 DEF Ids
  <2>3. Codex!ToolResults(s)
           = [i \in DOMAIN Of("tool_result", s) |->
                Codex!ItemFor("function_call_output", Of("tool_result", s)[i])]
    BY SameSelection DEF Codex!ToolResults
  <2> QED
    BY <2>2, <2>3
<1> HIDE DEF replayed, texts, calls
<1>5. /\ r \in Seq(Codex!Item) /\ Len(r) = Len(replayed) /\ Len(Ids(replayed)) = Len(replayed)
      /\ \A q \in 1 .. Len(replayed) : /\ r[q].type = "reasoning" /\ r[q].role = ""
                                       /\ r[q].ids = <<Ids(replayed)[q]>>
  <2>1. "reasoning" \in Codex!ItemTypes /\ replayed \in Seq(Block)
    BY <1>2 DEF Codex!ItemTypes
  <2> QED
    BY <2>1, CodexItems
<1>6. /\ c \in Seq(Codex!Item) /\ Len(c) = Len(calls) /\ Len(Ids(calls)) = Len(calls)
      /\ \A q \in 1 .. Len(calls) : /\ c[q].type = "function_call" /\ c[q].role = ""
                                    /\ c[q].ids = <<Ids(calls)[q]>>
  <2>1. "function_call" \in Codex!ItemTypes /\ calls \in Seq(Block)
    BY <1>2 DEF Codex!ItemTypes
  <2> QED
    BY <2>1, CodexItems
<1>7. t \in Seq(Codex!Item) /\ \A q \in 1 .. Len(t) : t[q].type = "message" /\ t[q].role # "user"
  <2>1. t \in Seq(Codex!Item)
    BY <1>2, CodexMessageOf
  <2>2. CASE texts = <<>>
    BY <2>1, <2>2
  <2>3. CASE texts # <<>>
    BY <2>1, <2>3
  <2> QED
    BY <2>2, <2>3
<1> HIDE DEF r, t, c
<1> DEFINE a == r \o t
           x == CodexTurn[m]
<1>8. /\ a \in Seq(Codex!Item) /\ Len(a) = Len(r) + Len(t)
      /\ \A i \in 1 .. Len(r) : a[i] = r[i]
      /\ \A i \in 1 .. Len(r) + Len(t) :
            i \notin 1 .. Len(r) => i - Len(r) \in 1 .. Len(t) /\ a[i] = t[i - Len(r)]
  <2>1. r \in Seq(Codex!Item) /\ t \in Seq(Codex!Item)
    BY <1>5, <1>7
  <2> QED
    BY <2>1, ConcatElements
<1>9. x = a \o c
  <2>1. a \o c \in Seq(Codex!Item)
    BY <1>6, <1>8, ConcatElements
  <2>2. <<>> \o (a \o c) = a \o c
    BY <2>1, ConcatEmptySeq
  <2>3. Codex!translateMessage(m) = Codex!ToolResults(s) \o Codex!assistantItems(s)
    BY <1>1 DEF Codex!translateMessage
  <2>4. Codex!translateMessage(m) = <<>> \o (a \o c)
    BY <1>3, <1>4, <2>3, Zenon
  <2>5. x = Codex!translateMessage(m)
    BY <1>1 DEF CodexTurn
  <2> QED
    BY <2>2, <2>4, <2>5, Zenon
<1> HIDE DEF a
<1>10. /\ Len(a \o c) = Len(a) + Len(c)
       /\ \A i \in 1 .. Len(a) : (a \o c)[i] = a[i]
       /\ \A i \in 1 .. Len(c) : (a \o c)[Len(a) + i] = c[i]
       /\ \A i \in 1 .. Len(a) + Len(c) :
            i \notin 1 .. Len(a) => i - Len(a) \in 1 .. Len(c) /\ (a \o c)[i] = c[i - Len(a)]
  <2>1. a \in Seq(Codex!Item) /\ c \in Seq(Codex!Item)
    BY <1>6, <1>8
  <2> QED
    BY <2>1, ConcatElements
<1> HIDE DEF x
<1>11. /\ Len(x) = Len(a) + Len(c)
       /\ \A i \in 1 .. Len(a) : x[i] = a[i]
       /\ \A i \in 1 .. Len(c) : x[Len(a) + i] = c[i]
       /\ \A i \in 1 .. Len(a) + Len(c) :
            i \notin 1 .. Len(a) => i - Len(a) \in 1 .. Len(c) /\ x[i] = c[i - Len(a)]
  BY <1>9, <1>10, Zenon
<1>12. \A q \in 1 .. Len(a) : a[q].type \in {"reasoning", "message"} /\ a[q].role # "user"
  <2> TAKE q \in 1 .. Len(a)
  <2>1. CASE q \in 1 .. Len(r)
    <3>1. a[q] = r[q] /\ r[q].type = "reasoning" /\ r[q].role = ""
      BY <1>5, <1>8, <2>1
    <3> QED
      BY <3>1
  <2>2. CASE q \notin 1 .. Len(r)
    <3>1. q - Len(r) \in 1 .. Len(t) /\ a[q] = t[q - Len(r)]
      BY <1>8, <2>2
    <3> QED
      BY <1>7, <3>1
  <2> QED
    BY <2>1, <2>2
<1>13. ASSUME NEW q \in 1 .. Len(x)
       PROVE  /\ x[q].type # "function_call_output" /\ x[q].role # "user"
              /\ x[q].type = "function_call"
                    => \E n \in 1 .. Len(CallsOf(m)) : x[q].ids = <<CallsOf(m)[n]>>
  <2>1. CASE q \in 1 .. Len(a)
    <3>1. x[q] = a[q]
      BY <1>11, <2>1
    <3> QED
      BY <1>12, <2>1, <3>1
  <2>2. CASE q \notin 1 .. Len(a)
    <3> DEFINE n == q - Len(a)
    <3>1. n \in 1 .. Len(c) /\ x[q] = c[n]
      BY <1>11, <2>2
    <3> HIDE DEF n
    <3>2. n \in 1 .. Len(CallsOf(m)) /\ x[q].ids = <<CallsOf(m)[n]>>
      BY <1>2, <1>6, <3>1
    <3>3. x[q].type = "function_call" /\ x[q].role = ""
      BY <1>6, <3>1
    <3> QED
      BY <3>2, <3>3
  <2> QED
    BY <2>1, <2>2
<1>14. ASSUME NEW n \in 1 .. Len(CallsOf(m))
       PROVE  \E q \in 1 .. Len(x) : x[q].type = "function_call" /\ x[q].ids = <<CallsOf(m)[n]>>
  <2>1. n \in 1 .. Len(c) /\ c[n].type = "function_call" /\ c[n].ids = <<CallsOf(m)[n]>>
    BY <1>2, <1>6
  <2>2. Len(a) + n \in 1 .. Len(x) /\ x[Len(a) + n] = c[n]
    <3>1. a \in Seq(Codex!Item) /\ c \in Seq(Codex!Item)
      BY <1>6, <1>8
    <3>2. Len(a) \in Nat /\ Len(c) \in Nat
      BY <3>1
    <3>3. Len(a) + n \in 1 .. Len(a) + Len(c)
      BY <2>1, <3>2
    <3> QED
      BY <1>11, <2>1, <3>3
  <2> QED
    BY <2>1, <2>2
<1> QED
  BY <1>1, <1>13, <1>14 DEF x

LEMMA PlaceWithin ==
    ASSUME NEW a \in Nat, NEW o \in Nat, NEW c \in Nat, NEW n \in Nat, NEW b \in Nat,
           a < a + o, a + o <= c + n, c + n <= c + b
    PROVE  ~(c + b <= a)
OBVIOUS

\* Each result after its call, each call with one result, no user in between.
CallsThenResults(messages) ==
    \A i \in DOMAIN messages :
       LET it == messages[i]
           Answering(j) == /\ messages[j].type = "function_call_output"
                           /\ messages[j].ids = it.ids
       IN  /\ it.type = "function_call" =>
                 \E j \in i + 1 .. Len(messages) :
                    /\ Answering(j)
                    /\ \A n \in DOMAIN messages : Answering(n) => n = j
                    /\ \A n \in i .. j : messages[n].role # "user"
           /\ it.type = "function_call_output" =>
                 \E j \in 1 .. i - 1 : /\ messages[j].type = "function_call"
                                       /\ messages[j].ids = it.ids

LEMMA CodexAnswered ==
    ASSUME NEW h \in Histories, ResultsFollow(h), Numbered(h), Len(h) % 2 = 1
    PROVE  CallsThenResults(CodexMessages(h))
<1> DEFINE F == CodexMessages(h)
           M(k) == CodexTurn[h[k]]
           off(k) == Offset(CodexTurn, h, k)
           R(k) == ResultsOf(h[k])
           C(k) == CallsOf(h[k])
<1>1. /\ h \in Seq(Turn) /\ Len(h) \in Nat
      /\ \A k \in 1 .. Len(h) : h[k] \in IF k % 2 = 1 THEN Prompted ELSE Answered
  BY HistoryTypes
<1>2. CodexTurn \in Mappers(Turn, Codex!Item) /\ F = FlatMap(CodexTurn, h)
  BY <1>1, CodexTurns
<1>3. /\ \A k \in 1 .. Len(h) :
            /\ off(k) \in Nat /\ Len(M(k)) \in Nat
            /\ \A l \in k + 1 .. Len(h) : off(k) + Len(M(k)) <= off(l)
            /\ \A q \in 1 .. Len(M(k)) :
                  off(k) + q \in 1 .. Len(F) /\ F[off(k) + q] = M(k)[q]
      /\ \A p \in 1 .. Len(F) : \E k \in 1 .. Len(h) : \E q \in 1 .. Len(M(k)) :
            p = off(k) + q /\ F[p] = M(k)[q]
  <2> DEFINE g == CodexTurn
             f == FlatMap(g, h)
  <2>1. g \in Mappers(Turn, Codex!Item) /\ h \in Seq(Turn)
    BY <1>1, <1>2
  <2> HIDE DEF g
  <2>2. \A k \in 1 .. Len(h) :
           /\ Offset(g, h, k) \in Nat /\ Len(g[h[k]]) \in Nat
           /\ \A l \in k + 1 .. Len(h) : Offset(g, h, k) + Len(g[h[k]]) <= Offset(g, h, l)
    <3>1. \A k \in 1 .. Len(h) : Offset(g, h, k) \in Nat /\ Len(g[h[k]]) \in Nat
      BY <2>1, Offsets
    <3>2. \A k \in 1 .. Len(h) : \A l \in k + 1 .. Len(h) :
             Offset(g, h, k) + Len(g[h[k]]) <= Offset(g, h, l)
      <4> TAKE k \in 1 .. Len(h)
      <4> TAKE l \in k + 1 .. Len(h)
      <4>1. l \in k + 1 .. Len(h) + 1
        OBVIOUS
      <4> QED
        BY <2>1, <4>1, OffsetsGrow
    <3> QED
      BY <3>1, <3>2
  <2>3. \A k \in 1 .. Len(h) : \A q \in 1 .. Len(g[h[k]]) :
           Offset(g, h, k) + q \in 1 .. Len(f) /\ f[Offset(g, h, k) + q] = g[h[k]][q]
    BY <2>1, FlatMapAt
  <2>4. \A p \in 1 .. Len(f) : \E k \in 1 .. Len(h) : \E q \in 1 .. Len(g[h[k]]) :
           p = Offset(g, h, k) + q /\ f[p] = g[h[k]][q]
    <3> TAKE p \in 1 .. Len(f)
    <3> QED
      BY <2>1, FlatMapWhere
  <2>5. f = F
    BY <1>2 DEF g
  <2> HIDE DEF f, F
  <2> QED
    BY <2>2, <2>3, <2>4, <2>5 DEF g
<1>4. \A k \in 1 .. Len(h) : k % 2 = 1 =>
         /\ Len(R(k)) \in Nat /\ Len(R(k)) <= Len(M(k))
         /\ \A q \in 1 .. Len(R(k)) : /\ M(k)[q].type = "function_call_output"
                                      /\ M(k)[q].role = "" /\ M(k)[q].ids = <<R(k)[q]>>
         /\ \A q \in 1 .. Len(M(k)) : q \notin 1 .. Len(R(k)) => M(k)[q].type = "message"
         /\ R(k) = IF k = 1 THEN <<>> ELSE C(k - 1)
  <2> TAKE k \in 1 .. Len(h)
  <2> HAVE k % 2 = 1
  <2>1. h[k] \in Prompted
    BY <1>1
  <2>2. R(k) = IF k = 1 THEN <<>> ELSE C(k - 1)
    BY DEF ResultsFollow
  <2> QED
    BY <2>1, <2>2, CodexUserTurn
<1>5. \A k \in 1 .. Len(h) : k % 2 # 1 =>
         /\ \A q \in 1 .. Len(M(k)) :
               /\ M(k)[q].type # "function_call_output" /\ M(k)[q].role # "user"
               /\ M(k)[q].type = "function_call"
                     => \E n \in 1 .. Len(C(k)) : M(k)[q].ids = <<C(k)[n]>>
         /\ \A n \in 1 .. Len(C(k)) : \E q \in 1 .. Len(M(k)) :
               M(k)[q].type = "function_call" /\ M(k)[q].ids = <<C(k)[n]>>
  <2> TAKE k \in 1 .. Len(h)
  <2> HAVE k % 2 # 1
  <2>1. h[k] \in Answered
    BY <1>1
  <2> QED
    BY <2>1, CodexAnswerTurn
<1>6. ASSUME NEW k \in 1 .. Len(h), k % 2 = 0, NEW n \in 1 .. Len(C(k)),
             NEW l \in 1 .. Len(h), l % 2 = 0, NEW o \in 1 .. Len(C(l)), C(k)[n] = C(l)[o]
      PROVE  k = l /\ n = o
  BY <1>6, CallsDistinct
<1>7. DOMAIN F = 1 .. Len(F)
  <2>1. F \in Seq(Codex!Item)
    BY <1>2, <1>1, FlatMapType
  <2> HIDE DEF F
  <2> QED
    BY <2>1
<1> HIDE DEF F, M, off, R, C
\* A result is of a user message, and stands for a call of the answer before it.
<1>8. ASSUME NEW p \in 1 .. Len(F), F[p].type = "function_call_output"
      PROVE  \E k \in 1 .. Len(h) : \E q \in 1 .. Len(R(k)) :
                /\ k % 2 = 1 /\ k - 1 \in 1 .. Len(h) /\ (k - 1) % 2 = 0
                /\ R(k) = C(k - 1) /\ p = off(k) + q /\ F[p] = M(k)[q]
  <2>1. PICK k \in 1 .. Len(h) : \E q \in 1 .. Len(M(k)) : p = off(k) + q /\ F[p] = M(k)[q]
    BY <1>3
  <2>2. PICK q \in 1 .. Len(M(k)) : p = off(k) + q /\ F[p] = M(k)[q]
    BY <2>1
  <2>3. k % 2 = 1
    BY <1>5, <1>8, <2>2
  <2>4. q \in 1 .. Len(R(k))
    <3>1. q \notin 1 .. Len(R(k)) => M(k)[q].type = "message"
      BY <1>4, <2>3
    <3> QED
      BY <1>8, <2>2, <3>1
  <2>5. k # 1
    <3>1. k = 1 => R(k) = <<>>
      BY <1>4, <2>3
    <3>2. R(k) # <<>>
      BY <2>4
    <3> QED
      BY <3>1, <3>2
  <2>6. k - 1 \in 1 .. Len(h) /\ (k - 1) % 2 = 0 /\ R(k) = C(k - 1)
    <3>1. R(k) = C(k - 1)
      BY <1>4, <2>3, <2>5
    <3>2. k - 1 \in 1 .. Len(h) /\ (k - 1) % 2 = 0
      BY <1>1, <2>3, <2>5
    <3> QED
      BY <3>1, <3>2
  <2> QED
    BY <2>2, <2>3, <2>4, <2>6
<1>9. ASSUME NEW i \in 1 .. Len(F), F[i].type = "function_call"
      PROVE  \E j \in i + 1 .. Len(F) :
                /\ F[j].type = "function_call_output" /\ F[j].ids = F[i].ids
                /\ \A n \in 1 .. Len(F) :
                      F[n].type = "function_call_output" /\ F[n].ids = F[i].ids => n = j
                /\ \A n \in i .. j : F[n].role # "user"
  <2>1. PICK k \in 1 .. Len(h) : \E q \in 1 .. Len(M(k)) : i = off(k) + q /\ F[i] = M(k)[q]
    BY <1>3
  <2>2. PICK q \in 1 .. Len(M(k)) : i = off(k) + q /\ F[i] = M(k)[q]
    BY <2>1
  <2>3. k % 2 # 1
    <3>1. k % 2 = 1 => M(k)[q].type # "function_call"
      BY <1>4
    <3> QED
      BY <1>9, <2>2, <3>1
  <2>4. PICK n \in 1 .. Len(C(k)) : M(k)[q].ids = <<C(k)[n]>>
    BY <1>5, <1>9, <2>2, <2>3
  <2>5. k + 1 \in 1 .. Len(h) /\ (k + 1) % 2 = 1 /\ k + 1 # 1 /\ (k + 1) - 1 = k /\ k % 2 = 0
    BY <1>1, <2>3
  <2>6. R(k + 1) = C(k) /\ n \in 1 .. Len(R(k + 1)) /\ Len(R(k + 1)) <= Len(M(k + 1))
        /\ Len(R(k + 1)) \in Nat /\ Len(M(k + 1)) \in Nat
    <3>1. R(k + 1) = C((k + 1) - 1) /\ Len(R(k + 1)) <= Len(M(k + 1)) /\ Len(R(k + 1)) \in Nat
      BY <1>4, <2>5
    <3>2. R(k + 1) = C(k)
      BY <2>5, <3>1
    <3>3. Len(M(k + 1)) \in Nat
      BY <1>3, <2>5
    <3> QED
      BY <2>4, <3>1, <3>2, <3>3
  <2>7. n \in 1 .. Len(M(k + 1)) /\ M(k + 1)[n].type = "function_call_output"
        /\ M(k + 1)[n].ids = <<C(k)[n]>>
    <3>1. M(k + 1)[n].type = "function_call_output" /\ M(k + 1)[n].ids = <<R(k + 1)[n]>>
      BY <1>4, <2>5, <2>6
    <3>2. R(k + 1)[n] = C(k)[n]
      BY <2>6
    <3>3. n \in 1 .. Len(M(k + 1))
      BY <2>6
    <3> QED
      BY <3>1, <3>2, <3>3
  <2> DEFINE j == off(k + 1) + n
  <2>8. j \in 1 .. Len(F) /\ F[j] = M(k + 1)[n]
    BY <1>3, <2>5, <2>7
  <2>9. off(k) + Len(M(k)) <= off(k + 1) /\ off(k) \in Nat /\ off(k + 1) \in Nat
        /\ Len(M(k)) \in Nat
    <3>1. k + 1 \in k + 1 .. Len(h)
      BY <1>1, <2>5
    <3> QED
      BY <1>3, <2>5, <3>1
  <2>10. j \in i + 1 .. Len(F)
    <3>1. q \in Nat /\ q <= Len(M(k)) /\ i = off(k) + q
      BY <2>2, <2>9
    <3>2. n \in Nat /\ 1 <= n
      OBVIOUS
    <3>3. i < j /\ i \in Nat /\ j \in Nat
      BY <2>9, <3>1, <3>2
    <3>4. j <= Len(F)
      BY <2>8
    <3> HIDE DEF j
    <3> QED
      BY <3>3, <3>4
  <2>11. ASSUME NEW p \in 1 .. Len(F),
                F[p].type = "function_call_output", F[p].ids = F[i].ids
         PROVE  p = j
    <3>1. PICK l \in 1 .. Len(h) : \E o \in 1 .. Len(R(l)) :
             /\ l % 2 = 1 /\ l - 1 \in 1 .. Len(h) /\ (l - 1) % 2 = 0
             /\ R(l) = C(l - 1) /\ p = off(l) + o /\ F[p] = M(l)[o]
      BY <1>8, <2>11
    <3>2. PICK o \in 1 .. Len(R(l)) :
             /\ l % 2 = 1 /\ l - 1 \in 1 .. Len(h) /\ (l - 1) % 2 = 0
             /\ R(l) = C(l - 1) /\ p = off(l) + o /\ F[p] = M(l)[o]
      BY <3>1
    <3>3. F[p].ids = <<R(l)[o]>>
      <4>1. M(l)[o].ids = <<R(l)[o]>>
        BY <1>4, <3>2
      <4> QED
        BY <3>2, <4>1
    <3>4. C(l - 1)[o] = C(k)[n] /\ o \in 1 .. Len(C(l - 1))
      <4>1. <<C(l - 1)[o]>> = <<C(k)[n]>>
        BY <2>2, <2>4, <2>11, <3>2, <3>3
      <4> QED
        BY <3>2, <4>1
    <3>5. k = l - 1 /\ n = o
      <4>1. l - 1 \in 1 .. Len(h) /\ (l - 1) % 2 = 0 /\ o \in 1 .. Len(C(l - 1))
        BY <3>2, <3>4
      <4>2. C(k)[n] = C(l - 1)[o]
        BY <3>4
      <4> QED
        BY <1>6, <2>5, <4>1, <4>2
    <3>6. l = k + 1
      BY <3>5
    <3> QED
      BY <3>2, <3>5, <3>6
  <2>12. ASSUME NEW p \in i .. j
         PROVE  F[p].role # "user"
    <3>1. p \in 1 .. Len(F)
      BY <2>8, <2>10
    <3>2. PICK l \in 1 .. Len(h) : \E o \in 1 .. Len(M(l)) : p = off(l) + o /\ F[p] = M(l)[o]
      BY <1>3, <3>1
    <3>3. PICK o \in 1 .. Len(M(l)) : p = off(l) + o /\ F[p] = M(l)[o]
      BY <3>2
    <3>4. off(l) \in Nat /\ Len(M(l)) \in Nat
      BY <1>3
    <3>5. ~(l < k)
      <4>1. l < k => k \in l + 1 .. Len(h)
        BY <1>1
      <4>2. l < k => off(l) + Len(M(l)) <= off(k)
        BY <1>3, <4>1
      <4> QED
        <5>1. l < k => off(l) + o < off(k) + q
          <6>1. o <= Len(M(l)) /\ o \in Nat /\ q \in Nat /\ 1 <= q
            BY <2>9, <3>4
          <6> QED
            BY <2>9, <3>4, <4>2, <6>1, EarlierPlace, Zenon
        <5>2. ~(off(l) + o < off(k) + q)
          BY <2>2, <2>9, <3>3, <3>4
        <5> QED
          BY <5>1, <5>2
    <3>6. ~(k + 1 < l)
      <4>1. k + 1 < l => l \in (k + 1) + 1 .. Len(h)
        BY <1>1
      <4>2. k + 1 < l => off(k + 1) + Len(M(k + 1)) <= off(l)
        BY <1>3, <2>5, <4>1
      <4> QED
        <5>1. off(k + 1) + n <= off(k + 1) + Len(M(k + 1))
          BY <2>7, <2>9, <2>6
        <5>2. off(l) + o <= off(k + 1) + n
          BY <3>3, <2>8
        <5>3. off(l) < off(l) + o
          BY <3>3, <3>4
        <5>4. /\ off(k + 1) \in Nat /\ n \in Nat /\ Len(M(k + 1)) \in Nat
              /\ off(l) \in Nat /\ o \in Nat
          BY <2>6, <2>9, <3>4
        <5>5. k + 1 < l => FALSE
          BY <4>2, <5>1, <5>2, <5>3, <5>4, PlaceWithin
        <5> QED
          BY <5>5
    <3>7. CASE l = k
      BY <1>5, <2>3, <3>3, <3>7
    <3>8. CASE l = k + 1
      <4>1. o \in 1 .. Len(R(k + 1))
        BY <2>6, <2>9, <3>3, <3>8
      <4>2. M(k + 1)[o].role = ""
        BY <1>4, <2>5, <4>1
      <4> QED
        BY <3>3, <3>8, <4>2
    <3> QED
      BY <3>5, <3>6, <3>7, <3>8
  <2>13. F[j].type = "function_call_output" /\ F[j].ids = F[i].ids
    BY <2>2, <2>4, <2>7, <2>8
  <2> HIDE DEF j
  <2> QED
    BY <2>10, <2>11, <2>12, <2>13
<1>10. ASSUME NEW i \in 1 .. Len(F), F[i].type = "function_call_output"
       PROVE  \E j \in 1 .. i - 1 : F[j].type = "function_call" /\ F[j].ids = F[i].ids
  <2>1. PICK l \in 1 .. Len(h) : \E o \in 1 .. Len(R(l)) :
           /\ l % 2 = 1 /\ l - 1 \in 1 .. Len(h) /\ (l - 1) % 2 = 0
           /\ R(l) = C(l - 1) /\ i = off(l) + o /\ F[i] = M(l)[o]
    BY <1>8, <1>10
  <2>2. PICK o \in 1 .. Len(R(l)) :
           /\ l % 2 = 1 /\ l - 1 \in 1 .. Len(h) /\ (l - 1) % 2 = 0
           /\ R(l) = C(l - 1) /\ i = off(l) + o /\ F[i] = M(l)[o]
    BY <2>1
  <2>3. F[i].ids = <<C(l - 1)[o]>> /\ o \in 1 .. Len(C(l - 1))
    <3>1. M(l)[o].ids = <<R(l)[o]>>
      BY <1>4, <2>2
    <3> QED
      BY <2>2, <3>1
  <2>4. PICK q \in 1 .. Len(M(l - 1)) :
           M(l - 1)[q].type = "function_call" /\ M(l - 1)[q].ids = <<C(l - 1)[o]>>
    <3>1. l - 1 \in 1 .. Len(h) /\ (l - 1) % 2 # 1 /\ o \in 1 .. Len(C(l - 1))
      BY <2>2, <2>3
    <3> QED
      BY <1>5, <3>1
  <2> DEFINE j == off(l - 1) + q
  <2>5. F[j] = M(l - 1)[q] /\ j \in 1 .. Len(F)
    BY <1>3, <2>2, <2>4
  <2>6. off(l - 1) + Len(M(l - 1)) <= off(l) /\ off(l - 1) \in Nat /\ off(l) \in Nat
        /\ Len(M(l - 1)) \in Nat
    <3>1. l \in (l - 1) + 1 .. Len(h)
      BY <1>1
    <3> QED
      BY <1>3, <2>2, <3>1
  <2>7. j \in 1 .. i - 1
    <3>1. q \in Nat /\ 1 <= q /\ q <= Len(M(l - 1)) /\ o \in Nat /\ 1 <= o
      BY <2>6
    <3>2. off(l - 1) + q < off(l) + o /\ j >= 1
      BY <2>6, <3>1
    <3>3. j < i /\ j \in Nat /\ i \in Nat
      BY <2>2, <2>6, <3>1, <3>2
    <3>4. j >= 1
      BY <3>2
    <3> HIDE DEF j
    <3> QED
      BY <3>3, <3>4
  <2> QED
    BY <2>3, <2>4, <2>5, <2>7
<1>11. CallsThenResults(F)
  BY <1>7, <1>9, <1>10 DEF CallsThenResults
<1> QED
  BY <1>11 DEF F

-----------------------------------------------------------------------------
(* Calls and results among the messages of a chat request.                 *)

ChatTurn == [m \in Turn |-> Chat!translateMessage(m)]

LEMMA ChatTurns ==
    ASSUME NEW h \in Seq(Turn)
    PROVE  /\ ChatTurn \in Mappers(Turn, Chat!ChatMsg)
           /\ ChatMessages(h) = FlatMap(ChatTurn, h)
<1>1. ChatTurn \in Mappers(Turn, Chat!ChatMsg)
  <2>1. "said" \in ChatParts
    BY DEF ChatParts
  <2>2. \A m \in Turn : Chat!translateMessage(m) \in Seq(Chat!ChatMsg)
    BY <2>1, ChatKeepsMessage
  <2> QED
    BY <2>2 DEF ChatTurn, Mappers
<1>2. \A i \in DOMAIN h : h[i] \in Turn
  OBVIOUS
<1>3. MapSeq(ChatTurn, h) = [i \in DOMAIN h |-> Chat!translateMessage(h[i])]
  BY <1>2 DEF MapSeq, ChatTurn
<1> QED
  BY <1>1, <1>3 DEF ChatMessages, FlatMap

\* A user message becomes a tool message per result, and then what it says.
LEMMA ChatUserTurn ==
    ASSUME NEW m \in Prompted
    PROVE  /\ m \in Turn /\ Len(ChatTurn[m]) \in Nat
           /\ Len(ResultsOf(m)) \in Nat /\ Len(ResultsOf(m)) <= Len(ChatTurn[m])
           /\ \A q \in 1 .. Len(ResultsOf(m)) : /\ ChatTurn[m][q].role = "tool"
                                                /\ ChatTurn[m][q].ids = <<ResultsOf(m)[q]>>
           /\ \A q \in 1 .. Len(ChatTurn[m]) :
                 /\ ChatTurn[m][q].calls = <<>>
                 /\ q \notin 1 .. Len(ResultsOf(m)) => ChatTurn[m][q].role = "user"
<1> DEFINE s == m.content
           results == Of("tool_result", s)
           Tool(b) == [role |-> "tool", ids |-> <<b.id>>, calls |-> <<>>]
           r == [i \in DOMAIN results |-> Tool(results[i])]
           parts == Select(s, LAMBDA b : b.type \in {"text", "image"})
           u == IF parts = <<>> THEN <<>>
                ELSE <<[role |-> "user", ids |-> Ids(parts), calls |-> <<>>]>>
<1>1. m \in Turn /\ m.role = "user" /\ s \in Seq(Block)
  <2>1. m \in Turn /\ m.role = "user"
    BY DEF Turn, Prompted
  <2> QED
    BY <2>1, TurnContent
<1>2. results \in Seq(Block) /\ ResultsOf(m) = Ids(results)
  BY <1>1, OfIds DEF ResultsOf
<1>3. Chat!ToolMessages(s) = r
  BY SameSelection DEF Chat!ToolMessages
<1>4. Chat!userMessage(s) = u
  BY SameFlattening DEF Chat!userMessage, Chat!Select, Chat!Ids, Select, Ids
<1>5. r \in Seq(Chat!ChatMsg) /\ u \in Seq(Chat!ChatMsg)
  <2>1. "said" \in ChatParts
    BY DEF ChatParts
  <2> QED
    BY <1>1, <1>3, <1>4, <2>1, ChatResults, ChatUser
<1>6. ChatTurn[m] = r \o u
  <2>1. Chat!translateMessage(m) = Chat!ToolMessages(s) \o Chat!userMessage(s)
    BY <1>1 DEF Chat!translateMessage
  <2> QED
    BY <1>1, <1>3, <1>4, <2>1 DEF ChatTurn
<1> HIDE DEF results, parts
<1>7. /\ Len(r) = Len(results) /\ Len(Ids(results)) = Len(results)
      /\ \A q \in 1 .. Len(results) : /\ r[q].role = "tool" /\ r[q].calls = <<>>
                                      /\ r[q].ids = <<Ids(results)[q]>>
  <2>1. DOMAIN results = 1 .. Len(results) /\ Len(results) \in Nat
    BY <1>2
  <2>2. Len(r) = Len(results) /\ Len(Ids(results)) = Len(results)
    BY <2>1 DEF Ids
  <2>3. \A q \in 1 .. Len(results) : r[q] = Tool(results[q]) /\ Ids(results)[q] = results[q].id
    BY <2>1 DEF Ids
  <2>4. ASSUME NEW q \in 1 .. Len(results)
        PROVE  r[q].role = "tool" /\ r[q].calls = <<>> /\ r[q].ids = <<Ids(results)[q]>>
    <3>1. r[q] = Tool(results[q]) /\ Ids(results)[q] = results[q].id
      BY <2>3
    <3> HIDE DEF r
    <3> QED
      BY <3>1
  <2> QED
    BY <2>2, <2>4
<1>8. \A q \in 1 .. Len(u) : u[q].role = "user" /\ u[q].calls = <<>>
  <2>1. CASE parts = <<>>
    BY <1>5, <2>1
  <2>2. CASE parts # <<>>
    BY <1>5, <2>2
  <2> QED
    BY <2>1, <2>2
<1> HIDE DEF r, u
<1>9. Len(r) \in Nat /\ Len(u) \in Nat
  BY <1>5
<1>10. /\ Len(r \o u) = Len(r) + Len(u)
       /\ \A i \in 1 .. Len(r) : (r \o u)[i] = r[i]
       /\ \A i \in 1 .. Len(r) + Len(u) :
             i \notin 1 .. Len(r) => i - Len(r) \in 1 .. Len(u) /\ (r \o u)[i] = u[i - Len(r)]
  BY <1>5, ConcatElements
<1> DEFINE t == ChatTurn[m]
<1>11. /\ Len(t) = Len(r) + Len(u) /\ Len(ResultsOf(m)) = Len(r)
       /\ \A i \in 1 .. Len(r) : t[i] = r[i]
       /\ \A i \in 1 .. Len(r) + Len(u) :
             i \notin 1 .. Len(r) => i - Len(r) \in 1 .. Len(u) /\ t[i] = u[i - Len(r)]
  BY <1>2, <1>6, <1>7, <1>10, Zenon
<1> HIDE DEF t
<1>12. \A q \in 1 .. Len(ResultsOf(m)) : t[q].role = "tool" /\ t[q].ids = <<ResultsOf(m)[q]>>
  BY <1>2, <1>7, <1>11
<1>13. ASSUME NEW q \in 1 .. Len(t)
       PROVE  /\ t[q].calls = <<>>
              /\ q \notin 1 .. Len(ResultsOf(m)) => t[q].role = "user"
  <2>1. CASE q \in 1 .. Len(r)
    BY <1>7, <1>11, <2>1
  <2>2. CASE q \notin 1 .. Len(r)
    <3>1. q - Len(r) \in 1 .. Len(u) /\ t[q] = u[q - Len(r)]
      BY <1>11, <2>2
    <3> QED
      BY <1>8, <3>1
  <2> QED
    BY <2>1, <2>2
<1>14. Len(t) \in Nat /\ Len(ResultsOf(m)) \in Nat /\ Len(ResultsOf(m)) <= Len(t)
  BY <1>9, <1>11
<1> QED
  BY <1>1, <1>12, <1>13, <1>14 DEF t

\* An answer becomes one message with all its calls, if it has anything to send.
LEMMA ChatAnswerTurn ==
    ASSUME NEW m \in Answered
    PROVE  /\ m \in Turn
           /\ \A q \in 1 .. Len(ChatTurn[m]) :
                 /\ q = 1 /\ Len(ChatTurn[m]) = 1
                 /\ ChatTurn[m][q].role = "assistant" /\ ChatTurn[m][q].calls = CallsOf(m)
           /\ CallsOf(m) # <<>> => /\ Len(ChatTurn[m]) = 1
                                   /\ ChatTurn[m][1].calls = CallsOf(m)
<1> DEFINE s == m.content
           texts == Ids(Of("text", s))
           x == [role |-> "assistant", ids |-> texts, calls |-> CallsOf(m)]
           t == ChatTurn[m]
<1>1. m \in Turn /\ m.role = "assistant" /\ s \in Seq(Block)
  <2>1. m \in Turn /\ m.role = "assistant"
    BY DEF Turn, Answered
  <2> QED
    BY <2>1, TurnContent
<1>2. Chat!assistantMessage(s) = IF texts = <<>> /\ CallsOf(m) = <<>> THEN <<>> ELSE <<x>>
  BY SameSelection DEF Chat!assistantMessage, CallsOf
<1>3. Chat!assistantMessage(s) \in Seq(Chat!ChatMsg)
  BY <1>1, ChatAssistant DEF ChatParts
<1>4. Chat!ToolMessages(s) = <<>>
  <2>1. Ids(Of("tool_result", s)) = <<>>
    BY <1>1, CallTypes DEF ResultsOf
  <2>2. DOMAIN Of("tool_result", s) = {}
    BY <2>1 DEF Ids
  <2>3. Chat!ToolMessages(s)
           = [i \in DOMAIN Of("tool_result", s) |->
                [role |-> "tool", ids |-> <<Of("tool_result", s)[i].id>>, calls |-> <<>>]]
    BY SameSelection DEF Chat!ToolMessages
  <2> QED
    BY <2>2, <2>3
<1>5. t = Chat!assistantMessage(s)
  <2>1. \A y \in Seq(Chat!ChatMsg) : <<>> \o y = y
    BY ConcatEmptySeq
  <2>2. t = Chat!ToolMessages(s) \o Chat!assistantMessage(s)
    BY <1>1 DEF Chat!translateMessage, ChatTurn
  <2> QED
    BY <1>3, <1>4, <2>1, <2>2, Zenon
<1> HIDE DEF texts, t
<1>6. t = IF texts = <<>> /\ CallsOf(m) = <<>> THEN <<>> ELSE <<x>>
  BY <1>2, <1>5
<1>7. x.role = "assistant" /\ x.calls = CallsOf(m)
  OBVIOUS
<1> HIDE DEF x
<1>8. CASE t = <<>>
  BY <1>1, <1>6, <1>8 DEF t
<1>9. CASE t = <<x>>
  <2>1. Len(t) = 1 /\ t[1] = x
    BY <1>9
  <2>2. \A q \in 1 .. Len(t) : q = 1
    BY <2>1
  <2> QED
    BY <1>1, <1>7, <2>1, <2>2 DEF t
<1> QED
  BY <1>6, <1>8, <1>9

\* The message with the calls, and right behind it their results.
ResultsDirectlyFollow(msgs) ==
    LET Tool(j) == j \in DOMAIN msgs /\ msgs[j].role = "tool"
    IN  /\ \A i \in DOMAIN msgs : \A n \in DOMAIN msgs[i].calls :
              Tool(i + n) /\ msgs[i + n].ids = <<msgs[i].calls[n]>>
        /\ \A j \in DOMAIN msgs : Tool(j) =>
              \E i \in 1 .. j - 1 : j - i \in DOMAIN msgs[i].calls

LEMMA ChatAnswered ==
    ASSUME NEW h \in Histories, ResultsFollow(h), Len(h) % 2 = 1
    PROVE  ResultsDirectlyFollow(ChatMessages(h))
<1> DEFINE F == ChatMessages(h)
           M(k) == ChatTurn[h[k]]
           off(k) == Offset(ChatTurn, h, k)
           R(k) == ResultsOf(h[k])
           C(k) == CallsOf(h[k])
<1>1. /\ h \in Seq(Turn) /\ Len(h) \in Nat
      /\ \A k \in 1 .. Len(h) : h[k] \in IF k % 2 = 1 THEN Prompted ELSE Answered
  BY HistoryTypes
<1>2. ChatTurn \in Mappers(Turn, Chat!ChatMsg) /\ F = FlatMap(ChatTurn, h)
  BY <1>1, ChatTurns
<1>3. /\ \A k \in 1 .. Len(h) :
            /\ off(k) \in Nat /\ Len(M(k)) \in Nat
            /\ off(k + 1) = off(k) + Len(M(k))
            /\ \A q \in 1 .. Len(M(k)) :
                  off(k) + q \in 1 .. Len(F) /\ F[off(k) + q] = M(k)[q]
      /\ \A p \in 1 .. Len(F) : \E k \in 1 .. Len(h) : \E q \in 1 .. Len(M(k)) :
            p = off(k) + q /\ F[p] = M(k)[q]
  <2> DEFINE g == ChatTurn
             f == FlatMap(g, h)
  <2>1. g \in Mappers(Turn, Chat!ChatMsg) /\ h \in Seq(Turn)
    BY <1>1, <1>2
  <2> HIDE DEF g
  <2>2. \A k \in 1 .. Len(h) :
           /\ Offset(g, h, k) \in Nat /\ Len(g[h[k]]) \in Nat
           /\ Offset(g, h, k + 1) = Offset(g, h, k) + Len(g[h[k]])
    BY <2>1, Offsets
  <2>3. \A k \in 1 .. Len(h) : \A q \in 1 .. Len(g[h[k]]) :
           Offset(g, h, k) + q \in 1 .. Len(f) /\ f[Offset(g, h, k) + q] = g[h[k]][q]
    BY <2>1, FlatMapAt
  <2>4. \A p \in 1 .. Len(f) : \E k \in 1 .. Len(h) : \E q \in 1 .. Len(g[h[k]]) :
           p = Offset(g, h, k) + q /\ f[p] = g[h[k]][q]
    <3> TAKE p \in 1 .. Len(f)
    <3> QED
      BY <2>1, FlatMapWhere, SMTT(30)
  <2>5. f = F
    BY <1>2 DEF g
  <2> HIDE DEF f, F
  <2> QED
    BY <2>2, <2>3, <2>4, <2>5 DEF g
<1>4. \A k \in 1 .. Len(h) : k % 2 = 1 =>
         /\ Len(R(k)) \in Nat /\ Len(R(k)) <= Len(M(k))
         /\ \A q \in 1 .. Len(R(k)) : M(k)[q].role = "tool" /\ M(k)[q].ids = <<R(k)[q]>>
         /\ \A q \in 1 .. Len(M(k)) : /\ M(k)[q].calls = <<>>
                                      /\ q \notin 1 .. Len(R(k)) => M(k)[q].role = "user"
         /\ R(k) = IF k = 1 THEN <<>> ELSE C(k - 1)
  <2> TAKE k \in 1 .. Len(h)
  <2> HAVE k % 2 = 1
  <2>1. h[k] \in Prompted
    BY <1>1
  <2>2. R(k) = IF k = 1 THEN <<>> ELSE C(k - 1)
    BY DEF ResultsFollow
  <2> QED
    BY <2>1, <2>2, ChatUserTurn
<1>5. \A k \in 1 .. Len(h) : k % 2 # 1 =>
         /\ \A q \in 1 .. Len(M(k)) : /\ q = 1 /\ Len(M(k)) = 1
                                      /\ M(k)[q].role = "assistant" /\ M(k)[q].calls = C(k)
         /\ C(k) # <<>> => Len(M(k)) = 1 /\ M(k)[1].calls = C(k)
  <2> TAKE k \in 1 .. Len(h)
  <2> HAVE k % 2 # 1
  <2>1. h[k] \in Answered
    BY <1>1
  <2> QED
    BY <2>1, ChatAnswerTurn
<1>6. \A k \in 1 .. Len(h) : DOMAIN C(k) = 1 .. Len(C(k)) /\ Len(C(k)) \in Nat
  <2>1. \A k \in 1 .. Len(h) : C(k) \in Seq(Nat)
    BY <1>1, CallTypes, ElementOfSeq
  <2> QED
    BY <2>1
<1>7. DOMAIN F = 1 .. Len(F)
  <2>1. F \in Seq(Chat!ChatMsg)
    BY <1>2, <1>1, FlatMapType
  <2> HIDE DEF F
  <2> QED
    BY <2>1
<1> HIDE DEF F, M, off, R, C
<1>8. ASSUME NEW i \in 1 .. Len(F), NEW n \in DOMAIN F[i].calls
      PROVE  /\ i + n \in 1 .. Len(F) /\ F[i + n].role = "tool"
             /\ F[i + n].ids = <<F[i].calls[n]>>
  <2>1. PICK k \in 1 .. Len(h) : \E q \in 1 .. Len(M(k)) : i = off(k) + q /\ F[i] = M(k)[q]
    BY <1>3
  <2>2. PICK q \in 1 .. Len(M(k)) : i = off(k) + q /\ F[i] = M(k)[q]
    BY <2>1
  <2>3. k % 2 # 1
    <3>1. k % 2 = 1 => M(k)[q].calls = <<>>
      BY <1>4
    <3> QED
      BY <1>8, <2>2, <3>1
  <2>4. q = 1 /\ Len(M(k)) = 1 /\ F[i].calls = C(k)
    BY <1>5, <2>2, <2>3
  <2>5. k + 1 \in 1 .. Len(h) /\ (k + 1) % 2 = 1 /\ k + 1 # 1 /\ (k + 1) - 1 = k
    BY <1>1, <2>3
  <2>6. n \in 1 .. Len(C(k)) /\ n \in Nat
    <3>1. n \in 1 .. Len(C(k))
      BY <1>6, <1>8, <2>4
    <3> QED
      BY <3>1
  <2>7. R(k + 1) = C(k) /\ Len(R(k + 1)) <= Len(M(k + 1)) /\ Len(R(k + 1)) \in Nat
    <3>1. /\ R(k + 1) = IF k + 1 = 1 THEN <<>> ELSE C((k + 1) - 1)
          /\ Len(R(k + 1)) <= Len(M(k + 1)) /\ Len(R(k + 1)) \in Nat
      BY <1>4, <2>5
    <3> QED
      BY <2>5, <3>1
  <2>8. n \in 1 .. Len(R(k + 1)) /\ n \in 1 .. Len(M(k + 1))
    <3>1. Len(M(k + 1)) \in Nat
      BY <1>3, <2>5
    <3> QED
      BY <2>6, <2>7, <3>1
  <2>9. M(k + 1)[n].role = "tool" /\ M(k + 1)[n].ids = <<R(k + 1)[n]>>
    BY <1>4, <2>5, <2>8
  <2>10. off(k + 1) + n \in 1 .. Len(F) /\ F[off(k + 1) + n] = M(k + 1)[n]
    BY <1>3, <2>5, <2>8
  <2>11. i + n = off(k + 1) + n
    <3>1. off(k + 1) = off(k) + Len(M(k))
      BY <1>3
    <3> QED
      BY <2>2, <2>4, <3>1
  <2> QED
    BY <2>4, <2>7, <2>9, <2>10, <2>11
<1>9. ASSUME NEW j \in 1 .. Len(F), F[j].role = "tool"
      PROVE  \E i \in 1 .. j - 1 : j - i \in DOMAIN F[i].calls
  <2>1. PICK k \in 1 .. Len(h) : \E q \in 1 .. Len(M(k)) : j = off(k) + q /\ F[j] = M(k)[q]
    BY <1>3
  <2>2. PICK q \in 1 .. Len(M(k)) : j = off(k) + q /\ F[j] = M(k)[q]
    BY <2>1
  <2>3. k % 2 = 1
    <3>1. k % 2 # 1 => M(k)[q].role = "assistant"
      BY <1>5
    <3> QED
      BY <1>9, <2>2, <3>1
  <2>4. q \in 1 .. Len(R(k)) /\ q \in Nat /\ q >= 1
    <3>1. q \notin 1 .. Len(R(k)) => M(k)[q].role = "user"
      BY <1>4, <2>3
    <3> QED
      BY <1>9, <2>2, <3>1
  <2>5. k # 1 /\ R(k) = C(k - 1)
    <3>1. R(k) = IF k = 1 THEN <<>> ELSE C(k - 1)
      BY <1>4, <2>3
    <3>2. R(k) # <<>>
      BY <2>4
    <3> QED
      BY <3>1, <3>2
  <2>6. k - 1 \in 1 .. Len(h) /\ (k - 1) % 2 # 1 /\ (k - 1) + 1 = k
    BY <1>1, <2>3, <2>5
  <2>7. Len(M(k - 1)) = 1 /\ M(k - 1)[1].calls = C(k - 1)
    <3>1. C(k - 1) # <<>>
      BY <2>4, <2>5
    <3> QED
      BY <1>5, <2>6, <3>1
  <2> DEFINE i == off(k - 1) + 1
  <2>8. i \in 1 .. Len(F) /\ F[i] = M(k - 1)[1]
    <3>1. 1 \in 1 .. Len(M(k - 1))
      BY <2>7
    <3> QED
      BY <1>3, <2>6, <3>1
  <2>9. i = off(k) /\ off(k) \in Nat
    <3>1. off((k - 1) + 1) = off(k - 1) + Len(M(k - 1)) /\ off(k) \in Nat
      BY <1>3, <2>6
    <3> QED
      BY <2>6, <2>7, <3>1
  <2> HIDE DEF i
  <2>10. j - i = q /\ i \in 1 .. j - 1
    BY <2>2, <2>4, <2>8, <2>9
  <2>11. q \in DOMAIN F[i].calls
    BY <1>6, <2>4, <2>5, <2>6, <2>7, <2>8
  <2> QED
    BY <2>10, <2>11
<1>10. ResultsDirectlyFollow(F)
  BY <1>7, <1>8, <1>9 DEF ResultsDirectlyFollow
<1> QED
  BY <1>10 DEF F

\* Whatever protocol a conversation is translated to, every call of it that goes
\* out is answered: results after calls, one for each, and nobody speaks between.
THEOREM EveryCallIsAnswered == Spec => []CallsAnswered
<1>1. CallsAnswered <=> /\ Asked("codex") => CallsThenResults(wire.messages)
                        /\ Asked("chat") => ResultsDirectlyFollow(wire.messages)
                        /\ Asked("anthropic") \/ Asked("compat") => AnsweredNext(wire.messages)
  BY DEF CallsAnswered, CallsThenResults, ResultsDirectlyFollow, AnsweredNext
<1>2. IInv /\ Paired => CallsAnswered
  <2> SUFFICES ASSUME IInv, Paired, wire # None, wire.op = "messages"
               PROVE  CallsAnswered
    BY <1>1 DEF Asked
  <2>1. history \in Histories /\ Len(history) % 2 = 1
    <3>1. history \in Histories /\ request # None
      BY DEF IInv, HistoryOK, WireOK
    <3>2. Len(history) = 2 * Len(minted) + 1
      BY <3>1 DEF IInv, RequestOK
    <3>3. Len(minted) \in Nat
      BY Lengths DEF IInv
    <3> QED
      BY <3>1, <3>2, <3>3
  <2>2. ResultsFollow(history) /\ Numbered(history)
    BY DEF Paired
  <2>3. /\ wire.to = "anthropic" => wire.messages = StripUnsignedThinking(history)
        /\ wire.to = "codex" => wire.messages = CodexMessages(history)
        /\ wire.to = "chat" => wire.messages = ChatMessages(history)
        /\ wire.to = "compat" => wire.messages = history
    BY DEF IInv, WireOK
  <2>4. CallsThenResults(CodexMessages(history))
    BY <2>1, <2>2, CodexAnswered
  <2>5. ResultsDirectlyFollow(ChatMessages(history))
    BY <2>1, <2>2, ChatAnswered
  <2>6. AnsweredNext(history) /\ AnsweredNext(StripUnsignedThinking(history))
    BY <2>1, <2>2, ForwardedAnswered, StrippedAnswered
  <2> QED
    BY <1>1, <2>3, <2>4, <2>5, <2>6 DEF Asked
<1> QED
  BY <1>2, InvariantHolds, PairedHolds, PTL

=============================================================================
