------------------------- MODULE OpenAIStreamProofs -------------------------
(***************************************************************************)
(* Theorems about OpenAIStream, for any tool calls, chunks and reasons.    *)
(***************************************************************************)
EXTENDS OpenAIStream, SequenceTheorems, FunctionTheorems, FiniteSetTheorems, TLAPS

-----------------------------------------------------------------------------
(* The client's blocks after an event                                      *)

\* A new block takes the next position and leaves the others alone.
LEMMA OpenEffect ==
    ASSUME TypeOK, NEW s \in Sources, OpenAtClientFor(s)
    PROVE  /\ blocks' \in Seq(Block)
           /\ Len(blocks') = Len(blocks) + 1
           /\ DOMAIN blocks = 1 .. Len(blocks)
           /\ DOMAIN blocks' = 1 .. Len(blocks) + 1
           /\ blocks'[Len(blocks) + 1] =
                 [src |-> s, kind |-> KindOf(s), open |-> TRUE, frags |-> <<>>,
                  late |-> <<>>]
           /\ \A b \in DOMAIN blocks : blocks'[b] = blocks[b]
<1> DEFINE x == [src |-> s, kind |-> KindOf(s), open |-> TRUE, frags |-> <<>>,
                 late |-> <<>>]
<1>1. x \in Block
  BY EmptySeq DEF Block, KindOf, Contract!BlockKinds
<1>2. blocks \in Seq(Block)
  BY DEF TypeOK
<1>3. blocks' = Append(blocks, x)
  BY DEF OpenAtClientFor
<1> HIDE DEF x
<1>4. /\ Append(blocks, x) \in Seq(Block)
      /\ Len(Append(blocks, x)) = Len(blocks) + 1
      /\ Append(blocks, x)[Len(blocks) + 1] = x
      /\ \A b \in 1 .. Len(blocks) : Append(blocks, x)[b] = blocks[b]
  BY <1>1, <1>2, AppendProperties
<1>5. /\ DOMAIN blocks = 1 .. Len(blocks)
      /\ DOMAIN Append(blocks, x) = 1 .. Len(blocks) + 1
  BY <1>2, <1>4, LenProperties
<1> QED
  BY <1>3, <1>4, <1>5 DEF x

\* Replacing a block by another one changes that position only.
LEMMA ReplacedBlock ==
    ASSUME NEW s \in Seq(Block), NEW b \in DOMAIN s, NEW x \in Block
    PROVE  /\ [s EXCEPT ![b] = x] \in Seq(Block)
           /\ Len([s EXCEPT ![b] = x]) = Len(s)
           /\ DOMAIN [s EXCEPT ![b] = x] = DOMAIN s
           /\ \A c \in DOMAIN s : [s EXCEPT ![b] = x][c] = IF c = b THEN x ELSE s[c]
BY ExceptSeq, LenProperties

\* A position holds a block.
LEMMA BlockAt ==
    ASSUME NEW s \in Seq(Block), NEW b \in DOMAIN s
    PROVE  s[b] \in Block /\ b \in 1 .. Len(s) /\ b \in Nat
BY ElementOfSeq, LenProperties

\* A stop closes its block.
LEMMA CloseEffect ==
    ASSUME TypeOK, NEW b \in DOMAIN blocks, CloseAtClient(b)
    PROVE  /\ blocks' \in Seq(Block)
           /\ Len(blocks') = Len(blocks)
           /\ DOMAIN blocks' = DOMAIN blocks
           /\ \A c \in DOMAIN blocks :
                 blocks'[c] = IF c = b THEN [blocks[b] EXCEPT !.open = FALSE]
                              ELSE blocks[c]
<1> DEFINE x == [blocks[b] EXCEPT !.open = FALSE]
<1>0. blocks \in Seq(Block)
  BY DEF TypeOK
<1>1. x \in Block
  BY <1>0, BlockAt DEF Block
<1>2. blocks' = [blocks EXCEPT ![b] = x]
  BY DEF CloseAtClient
<1> HIDE DEF x
<1>3. /\ blocks' \in Seq(Block)
      /\ Len(blocks') = Len(blocks)
      /\ DOMAIN blocks' = DOMAIN blocks
      /\ \A c \in DOMAIN blocks : blocks'[c] = IF c = b THEN x ELSE blocks[c]
  BY <1>0, <1>1, <1>2, ReplacedBlock
<1> QED
  BY <1>3 DEF x

\* A delta adds a fragment to its block: in time if the block is open, else late.
LEMMA ReceiveEffect ==
    ASSUME TypeOK, NEW b \in DOMAIN blocks, NEW f \in Contract!Fragment,
           ReceiveAtClient(b, f)
    PROVE  /\ blocks' \in Seq(Block)
           /\ Len(blocks') = Len(blocks)
           /\ DOMAIN blocks' = DOMAIN blocks
           /\ \A c \in DOMAIN blocks \ {b} : blocks'[c] = blocks[c]
           /\ blocks'[b] = IF blocks[b].open
                           THEN [blocks[b] EXCEPT !.frags = Append(@, f)]
                           ELSE [blocks[b] EXCEPT !.late = Append(@, f)]
<1> DEFINE x == IF blocks[b].open THEN [blocks[b] EXCEPT !.frags = Append(@, f)]
                ELSE [blocks[b] EXCEPT !.late = Append(@, f)]
<1>0. blocks \in Seq(Block)
  BY DEF TypeOK
<1>1. blocks[b] \in Block
  BY <1>0, BlockAt
<1>2. x \in Block
  <2>1. /\ Append(blocks[b].frags, f) \in Seq(Contract!Fragment)
        /\ Append(blocks[b].late, f) \in Seq(Contract!Fragment)
    BY <1>1, AppendProperties DEF Block
  <2> QED
    BY <1>1, <2>1 DEF Block
<1>3. blocks' = [blocks EXCEPT ![b] = x]
  BY DEF ReceiveAtClient
<1> HIDE DEF x
<1>4. /\ blocks' \in Seq(Block)
      /\ Len(blocks') = Len(blocks)
      /\ DOMAIN blocks' = DOMAIN blocks
      /\ \A c \in DOMAIN blocks : blocks'[c] = IF c = b THEN x ELSE blocks[c]
  BY <1>0, <1>2, <1>3, ReplacedBlock
<1> QED
  BY <1>4 DEF x

-----------------------------------------------------------------------------
(* Where the blocks stand                                                  *)

\* The translator counts the client's blocks.
Positions == nextIndex = Len(blocks) + 1

\* The one block that is open is the one it writes to, of the kind it thinks.
CurrentIsOpen ==
    /\ curKind # "none" => curIndex \in DOMAIN blocks /\ blocks[curIndex].kind = curKind
    /\ \A b \in DOMAIN blocks : blocks[b].open <=> curKind # "none" /\ b = curIndex

\* A block is of the kind of its source, and the recorded blocks are the ones of
\* tool calls.
KindsFit == \A b \in DOMAIN blocks : blocks[b].kind = KindOf(blocks[b].src)

ToolsRecorded ==
    /\ \A t \in Tools : toolBlock[t] \in {NoBlock} \cup DOMAIN blocks
    /\ \A t \in Tools, b \in DOMAIN blocks : toolBlock[t] = b <=> blocks[b].src = t

\* The fragments of one block are its own.
FragmentsOwn(x) ==
    \A frags \in {x.frags, x.late} : \A m \in DOMAIN frags :
        frags[m].src = x.src /\ frags[m].type \in Contract!DeltasOf(x.kind)

LEMMA OwnOfEach == FragmentsInOwnBlock <=> \A b \in DOMAIN blocks : FragmentsOwn(blocks[b])
BY DEF FragmentsInOwnBlock, FragmentsOwn

BlocksInv ==
    /\ Positions
    /\ CurrentIsOpen
    /\ KindsFit
    /\ ToolsRecorded
    /\ FragmentsInOwnBlock

\* The part to handle next is one, and so is what is left.
LEMMA PartOfChunk ==
    ASSUME TypeOK, InPart
    PROVE  /\ Part \in Parts
           /\ Part.src \in Sources
           /\ Tail(todo) \in Seq(Parts)
<1>1. todo \in Seq(Parts) /\ todo # <<>>
  BY DEF TypeOK, InPart
<1>2. Part \in Parts /\ Tail(todo) \in Seq(Parts)
  BY <1>1, HeadTailProperties DEF Part
<1> QED
  BY <1>2 DEF Parts

\* A delta fits the block it is addressed to, which is there.
LEMMA TargetBlock ==
    ASSUME TypeOK, BlocksInv, NEW s \in Sources, ~NeedsBlock(s)
    PROVE  /\ Target(s) \in DOMAIN blocks
           /\ blocks[Target(s)].src = s
           /\ blocks[Target(s)].kind = KindOf(s)
           /\ DeltaType(s) \in Contract!DeltasOf(KindOf(s))
           /\ [src |-> s, type |-> DeltaType(s)] \in Contract!Fragment
<1>1. /\ Target(s) \in DOMAIN blocks
      /\ blocks[Target(s)].src = s
  <2>1. CASE s \in Tools
    BY <2>1 DEF NeedsBlock, Target, BlocksInv, ToolsRecorded
  <2>2. CASE s \notin Tools
    <3>1. curKind = KindOf(s) /\ KindOf(s) \in {"thinking", "text"} /\ Target(s) = curIndex
      BY <2>2 DEF NeedsBlock, KindOf, Sources, Target
    <3>2. /\ curIndex \in DOMAIN blocks
          /\ KindOf(blocks[curIndex].src) = KindOf(s)
      BY <3>1 DEF BlocksInv, CurrentIsOpen, KindsFit
    <3>3. blocks[curIndex].src = s
      BY <2>2, <3>1, <3>2 DEF KindOf, Sources
    <3> QED
      BY <3>1, <3>2, <3>3
  <2> QED
    BY <2>1, <2>2
<1>2. blocks[Target(s)].kind = KindOf(s)
  BY <1>1 DEF BlocksInv, KindsFit
<1>3. /\ DeltaType(s) \in Contract!DeltasOf(KindOf(s))
      /\ [src |-> s, type |-> DeltaType(s)] \in Contract!Fragment
  BY ConstantsOK DEF DeltaType, KindOf, Sources, Contract!DeltasOf, Contract!Fragment,
                     Contract!DeltaTypes
<1> QED
  BY <1>1, <1>2, <1>3

\* Only three steps touch the blocks or what the translator knows of them.
LEMMA BlockSteps ==
    ASSUME [Next]_vars
    PROVE  \/ WriteBlockStop
           \/ WriteBlockStart
           \/ WriteDelta
           \/ UNCHANGED <<blocks, curKind, curIndex, nextIndex, toolBlock>>
<1> USE DEF blockVars, clientVars
<1>1. CASE Read
  BY <1>1 DEF Read, ReadChunk, SkipChunk, ReadUsage, ReadEnd, ReadFailure
<1>2. CASE Write
  BY <1>2 DEF Write, WriteMessageStart, SkipEmptyArguments, ChunkDone, WriteMessageDelta,
              WriteMessageStop, WriteError, WriteFails
<1>3. CASE UNCHANGED vars
  BY <1>3 DEF vars
<1> QED
  BY <1>1, <1>2, <1>3 DEF Next, Done

\* The blocks stay in place whatever step is taken.
LEMMA BlocksInductive ==
    ASSUME TypeOK, BlocksInv, [Next]_vars
    PROVE  BlocksInv' /\ blocks' \in Seq(Block)
<1>0. blocks \in Seq(Block)
  BY DEF TypeOK
<1>1. CASE WriteBlockStop
  <2>1. curIndex \in DOMAIN blocks
    BY <1>1 DEF WriteBlockStop, BlocksInv, CurrentIsOpen
  <2>2. /\ blocks' \in Seq(Block)
        /\ Len(blocks') = Len(blocks)
        /\ DOMAIN blocks' = DOMAIN blocks
        /\ \A c \in DOMAIN blocks :
              blocks'[c] = IF c = curIndex THEN [blocks[curIndex] EXCEPT !.open = FALSE]
                           ELSE blocks[c]
    BY <1>1, <2>1, CloseEffect DEF WriteBlockStop
  <2>3. \A c \in DOMAIN blocks :
           /\ blocks'[c].src = blocks[c].src
           /\ blocks'[c].kind = blocks[c].kind
           /\ blocks'[c].frags = blocks[c].frags
           /\ blocks'[c].late = blocks[c].late
           /\ blocks'[c].open <=> c # curIndex /\ blocks[c].open
    <3> TAKE c \in DOMAIN blocks
    <3>1. blocks[c] \in Block
      BY <1>0, BlockAt
    <3>2. CASE c = curIndex
      <4>1. blocks'[c] = [blocks[c] EXCEPT !.open = FALSE]
        BY <2>2, <3>2
      <4> QED
        BY <3>1, <3>2, <4>1 DEF Block
    <3>3. CASE c # curIndex
      <4>1. blocks'[c] = blocks[c]
        BY <2>2, <3>3
      <4> QED
        BY <3>3, <4>1, Zenon
    <3> QED
      BY <3>2, <3>3
  <2>4. /\ curKind' = "none"
        /\ UNCHANGED <<curIndex, nextIndex, toolBlock>>
    BY <1>1 DEF WriteBlockStop
  <2>5. Positions' /\ KindsFit' /\ ToolsRecorded'
    BY <2>2, <2>3, <2>4 DEF BlocksInv, Positions, KindsFit, ToolsRecorded
  <2>6. CurrentIsOpen'
    BY <2>2, <2>3, <2>4 DEF BlocksInv, CurrentIsOpen
  <2>7. FragmentsInOwnBlock'
    BY <2>2, <2>3 DEF BlocksInv, FragmentsInOwnBlock
  <2> QED
    BY <2>2, <2>5, <2>6, <2>7 DEF BlocksInv
<1>2. CASE WriteBlockStart
  <2> DEFINE s == Part.src
             n == Len(blocks) + 1
  <2>1. s \in Sources
    BY <1>2, PartOfChunk DEF WriteBlockStart
  <2>2. /\ blocks' \in Seq(Block)
        /\ Len(blocks') = n
        /\ DOMAIN blocks = 1 .. Len(blocks)
        /\ DOMAIN blocks' = 1 .. n
        /\ blocks'[n] = [src |-> s, kind |-> KindOf(s), open |-> TRUE, frags |-> <<>>,
                         late |-> <<>>]
        /\ \A b \in DOMAIN blocks : blocks'[b] = blocks[b]
    BY <1>2, <2>1, OpenEffect DEF WriteBlockStart
  <2>3. /\ NeedsBlock(s)
        /\ curKind = "none"
        /\ curKind' = KindOf(s)
        /\ curIndex' = n
        /\ nextIndex' = n + 1
        /\ toolBlock' = [t \in Tools |-> IF t = s THEN n ELSE toolBlock[t]]
    BY <1>2 DEF WriteBlockStart, BlocksInv, Positions
  <2>4. n \in Nat \ {0} /\ n \notin DOMAIN blocks /\ DOMAIN blocks' = DOMAIN blocks \cup {n}
    BY <1>0, <2>2, LenProperties
  <2> HIDE DEF s, n
  <2>10. /\ blocks'[n].src = s
        /\ blocks'[n].kind = KindOf(s)
        /\ blocks'[n].open = TRUE
        /\ blocks'[n].frags = <<>>
        /\ blocks'[n].late = <<>>
    BY <2>2
  <2>5. Positions' /\ KindsFit'
    <3>1. Positions'
      BY <2>2, <2>3 DEF Positions
    <3>2. \A b \in DOMAIN blocks : blocks'[b].kind = KindOf(blocks'[b].src)
      BY <2>2 DEF BlocksInv, KindsFit
    <3>3. \A b \in DOMAIN blocks' : blocks'[b].kind = KindOf(blocks'[b].src)
      BY <2>4, <2>10, <3>2
    <3> QED
      BY <3>1, <3>3 DEF KindsFit
  <2>6. CurrentIsOpen'
    <3>1. KindOf(s) # "none"
      BY DEF KindOf
    <3>2. \A b \in DOMAIN blocks : ~blocks'[b].open /\ b # n
      BY <2>2, <2>3, <2>4 DEF BlocksInv, CurrentIsOpen
    <3> QED
      BY <2>3, <2>4, <2>10, <3>1, <3>2 DEF CurrentIsOpen
  <2>7. ToolsRecorded'
    <3>1. \A b \in DOMAIN blocks : s \in Tools => blocks[b].src # s
      <4>1. CASE s \in Tools
        <5>1. toolBlock[s] = NoBlock
          BY <2>3, <4>1 DEF NeedsBlock
        <5>2. \A b \in DOMAIN blocks : b # NoBlock
          BY <1>0, LenProperties DEF NoBlock
        <5> QED
          BY <4>1, <5>1, <5>2 DEF BlocksInv, ToolsRecorded
      <4> QED
        BY <4>1
    <3>2. \A t \in Tools : toolBlock'[t] \in {NoBlock} \cup DOMAIN blocks'
      BY <2>3, <2>4 DEF BlocksInv, ToolsRecorded
    <3>3. \A t \in Tools, b \in DOMAIN blocks : toolBlock'[t] = b <=> blocks'[b].src = t
      BY <2>2, <2>3, <2>4, <3>1 DEF BlocksInv, ToolsRecorded
    <3>4. \A t \in Tools : toolBlock'[t] = n <=> blocks'[n].src = t
      <4>1. \A t \in Tools : toolBlock[t] # n
        BY <2>4 DEF BlocksInv, ToolsRecorded, NoBlock
      <4> QED
        BY <2>3, <2>10, <4>1
    <3> QED
      BY <2>4, <3>2, <3>3, <3>4 DEF ToolsRecorded
  <2>8. FragmentsInOwnBlock'
    <3>1. \A b \in DOMAIN blocks : FragmentsOwn(blocks'[b])
      BY <2>2, OwnOfEach DEF BlocksInv
    <3>2. FragmentsOwn(blocks'[n])
      BY <2>10 DEF FragmentsOwn
    <3>3. \A b \in DOMAIN blocks' : FragmentsOwn(blocks'[b])
      BY <2>4, <3>1, <3>2
    <3> QED
      BY <3>3 DEF FragmentsInOwnBlock, FragmentsOwn
  <2> QED
    BY <2>2, <2>5, <2>6, <2>7, <2>8 DEF BlocksInv
<1>3. CASE WriteDelta
  <2> DEFINE s == Part.src
             t == Target(Part.src)
             f == [src |-> Part.src, type |-> DeltaType(Part.src)]
  <2>1. s \in Sources
    BY <1>3, PartOfChunk DEF WriteDelta
  <2>2. /\ t \in DOMAIN blocks
        /\ blocks[t].src = s
        /\ blocks[t].kind = KindOf(s)
        /\ DeltaType(s) \in Contract!DeltasOf(KindOf(s))
        /\ f \in Contract!Fragment
    BY <1>3, <2>1, TargetBlock DEF WriteDelta
  <2>3. /\ blocks' \in Seq(Block)
        /\ Len(blocks') = Len(blocks)
        /\ DOMAIN blocks' = DOMAIN blocks
        /\ \A c \in DOMAIN blocks \ {t} : blocks'[c] = blocks[c]
        /\ blocks'[t] = IF blocks[t].open
                        THEN [blocks[t] EXCEPT !.frags = Append(@, f)]
                        ELSE [blocks[t] EXCEPT !.late = Append(@, f)]
    BY <1>3, <2>2, ReceiveEffect DEF WriteDelta
  <2>4. /\ f.src = blocks[t].src
        /\ f.type \in Contract!DeltasOf(blocks[t].kind)
    BY <2>2
  <2>5. UNCHANGED <<curKind, curIndex, nextIndex, toolBlock>>
    BY <1>3 DEF WriteDelta, blockVars
  <2> HIDE DEF s, t, f
  <2>6. blocks[t] \in Block
    BY <1>0, <2>2, BlockAt
  <2>7. \A c \in DOMAIN blocks :
           /\ blocks'[c].src = blocks[c].src
           /\ blocks'[c].kind = blocks[c].kind
           /\ blocks'[c].open = blocks[c].open
    BY <2>3, <2>6 DEF Block
  <2>8. Positions' /\ KindsFit' /\ ToolsRecorded' /\ CurrentIsOpen'
    BY <2>3, <2>5, <2>7 DEF BlocksInv, Positions, KindsFit, ToolsRecorded, CurrentIsOpen
  <2>9. FragmentsInOwnBlock'
    <3>1. ASSUME NEW frags \in Seq(Contract!Fragment),
                 \A m \in DOMAIN frags :
                    /\ frags[m].src = blocks[t].src
                    /\ frags[m].type \in Contract!DeltasOf(blocks[t].kind)
          PROVE  \A m \in DOMAIN Append(frags, f) :
                    /\ Append(frags, f)[m].src = blocks[t].src
                    /\ Append(frags, f)[m].type \in Contract!DeltasOf(blocks[t].kind)
      <4>1. /\ DOMAIN frags = 1 .. Len(frags)
            /\ DOMAIN Append(frags, f) = 1 .. Len(frags) + 1
            /\ Append(frags, f)[Len(frags) + 1] = f
            /\ \A m \in 1 .. Len(frags) : Append(frags, f)[m] = frags[m]
            /\ Len(frags) \in Nat
        <5>1. /\ Append(frags, f) \in Seq(Contract!Fragment)
              /\ Len(Append(frags, f)) = Len(frags) + 1
              /\ Append(frags, f)[Len(frags) + 1] = f
              /\ \A m \in 1 .. Len(frags) : Append(frags, f)[m] = frags[m]
          BY <2>2, AppendProperties
        <5> QED
          BY <5>1, LenProperties
      <4> QED
        BY <2>4, <3>1, <4>1
    <3>2. /\ blocks[t].frags \in Seq(Contract!Fragment)
          /\ blocks[t].late \in Seq(Contract!Fragment)
      BY <2>6 DEF Block
    <3>3. FragmentsOwn(blocks[t])
      BY <2>2, OwnOfEach DEF BlocksInv
    <3>4. FragmentsOwn(blocks'[t])
      <4>1. CASE blocks[t].open
        <5>1. /\ blocks'[t].frags = Append(blocks[t].frags, f)
              /\ blocks'[t].late = blocks[t].late
          BY <2>3, <2>6, <4>1 DEF Block
        <5> QED
          BY <2>2, <2>7, <3>1, <3>2, <3>3, <5>1, SMTT(30) DEF FragmentsOwn
      <4>2. CASE ~blocks[t].open
        <5>1. /\ blocks'[t].late = Append(blocks[t].late, f)
              /\ blocks'[t].frags = blocks[t].frags
          BY <2>3, <2>6, <4>2 DEF Block
        <5> QED
          BY <2>2, <2>7, <3>1, <3>2, <3>3, <5>1 DEF FragmentsOwn
      <4> QED
        BY <4>1, <4>2
    <3>5. \A c \in DOMAIN blocks \ {t} : FragmentsOwn(blocks'[c])
      BY <2>3, OwnOfEach DEF BlocksInv
    <3>6. \A c \in DOMAIN blocks' : FragmentsOwn(blocks'[c])
      BY <2>2, <2>3, <3>4, <3>5
    <3> QED
      BY <3>6 DEF FragmentsInOwnBlock, FragmentsOwn
  <2> QED
    BY <2>3, <2>8, <2>9 DEF BlocksInv
<1>4. CASE UNCHANGED <<blocks, curKind, curIndex, nextIndex, toolBlock>>
  BY <1>0, <1>4 DEF BlocksInv, Positions, CurrentIsOpen, KindsFit, ToolsRecorded,
                    FragmentsInOwnBlock
<1> QED
  BY <1>1, <1>2, <1>3, <1>4, BlockSteps

-----------------------------------------------------------------------------
(* Type correctness                                                        *)

\* A chunk is a sequence of parts, and so are the parts of it that are handled:
\* all but a hidden reasoning.
LEMMA ChunkParts ==
    ASSUME NEW c \in Chunks
    PROVE  /\ c \in Seq(Parts)
           /\ Handled(c) \in Seq(Parts)
           /\ \/ Handled(c) = c
              \/ c # <<>> /\ ~Visible(Head(c).src) /\ Handled(c) = Tail(c)
<1>1. PICK n \in 0 .. MaxParts : c \in [1 .. n -> Parts]
  BY DEF Chunks
<1>2. n \in Nat
  BY ConstantsOK
<1>3. c \in Seq(Parts)
  BY <1>1, <1>2
<1>4. c # <<>> => Tail(c) \in Seq(Parts) /\ Head(c) = c[1]
  BY <1>3, HeadTailProperties
<1> QED
  BY <1>3, <1>4 DEF Handled

\* The number of fragments of a source in a sequence of parts.
LEMMA FragmentsType ==
    ASSUME NEW c \in Seq(Parts), NEW s
    PROVE  FragmentsOf(c, s) \in Nat
<1>1. IsFiniteSet(DOMAIN c)
  BY LenProperties, FS_Interval
<1>2. {n \in DOMAIN c : c[n].src = s /\ c[n].text} \in SUBSET DOMAIN c
  OBVIOUS
<1>3. IsFiniteSet({n \in DOMAIN c : c[n].src = s /\ c[n].text})
  BY <1>1, <1>2, FS_Subset
<1> QED
  BY <1>3, FS_CardinalityType DEF FragmentsOf

\* What the client is told is of its vocabulary, whatever finish_reason says.
LEMMA TranslationTypes ==
    /\ \A reason, called_ : TranslateStopReason(reason, called_) \in Contract!StopReasons
    /\ \A u \in [input : Nat, cached : Nat] :
          /\ TranslateUsage(u) \in [input : Nat, cached : Nat]
          /\ FinalUsage(u) \in [input : Nat, cached : Nat]
<1>1. ASSUME NEW reason, NEW calls
      PROVE  TranslateStopReason(reason, calls) \in Contract!StopReasons
  <2>1. CASE reason \in {"stop", "content_filter"}
    BY <2>1 DEF TranslateStopReason, Contract!StopReasons
  <2>2. CASE reason = "length"
    BY <2>2 DEF TranslateStopReason, Contract!StopReasons
  <2>3. CASE reason \in {"tool_calls", "function_call"}
    BY <2>3 DEF TranslateStopReason, Contract!StopReasons
  <2>4. CASE reason \notin {"stop", "content_filter", "length", "tool_calls",
                            "function_call"}
    BY <2>4 DEF TranslateStopReason, Contract!StopReasons
  <2> QED
    BY <2>1, <2>2, <2>3, <2>4
<1>2. ASSUME NEW u \in [input : Nat, cached : Nat]
      PROVE  /\ TranslateUsage(u) \in [input : Nat, cached : Nat]
             /\ FinalUsage(u) \in [input : Nat, cached : Nat]
  <2>1. u.input \in Nat /\ u.cached \in Nat /\ u = [input |-> u.input, cached |-> u.cached]
    OBVIOUS
  <2>2. TranslateUsage(u) \in [input : Nat, cached : Nat]
    <3>1. CASE u.cached = 0
      BY <2>1, <3>1 DEF TranslateUsage
    <3>2. CASE u.cached # 0 /\ u.input > u.cached
      <4>1. u.input - u.cached \in Nat
        BY <2>1, <3>2
      <4> QED
        BY <2>1, <3>2, <4>1 DEF TranslateUsage
    <3>3. CASE u.cached # 0 /\ ~(u.input > u.cached)
      BY <2>1, <3>3 DEF TranslateUsage
    <3> QED
      BY <3>1, <3>2, <3>3
  <2>3. FinalUsage(u) \in [input : Nat, cached : Nat]
    <3>1. EstimatedInput \in Nat
      BY ConstantsOK
    <3> QED
      BY <2>1, <3>1 DEF FinalUsage
  <2> QED
    BY <2>2, <2>3
<1> QED
  BY <1>1, <1>2

\* A chunk adds to the counts.
LEMMA CountsType ==
    ASSUME NEW count \in [Sources -> Nat], NEW c \in Seq(Parts)
    PROVE  [s \in Sources |-> count[s] + FragmentsOf(c, s)] \in [Sources -> Nat]
BY FragmentsType

\* Each step keeps the types if it keeps the blocks'.
LEMMA StepType ==
    ASSUME TypeOK, blocks' \in Seq(Block)
    PROVE  Read \/ Write => TypeOK'
<1> USE DEF TypeOK, Working, Contract!Phases, blockVars, resultVars, clientVars,
            backendVars
<1>1. ASSUME NEW c \in Chunks, NEW reason \in FinishReasons \cup {""}, ReadChunk(c, reason)
      PROVE  TypeOK'
  <2>1. c \in Seq(Parts) /\ Handled(c) \in Seq(Parts)
    BY ChunkParts
  <2>2. sent' \in [Sources -> Nat]
    <3>1. [s \in Sources |-> sent[s] + FragmentsOf(c, s)] \in [Sources -> Nat]
      BY <2>1, CountsType
    <3> QED
      BY <1>1, <3>1 DEF ReadChunk
  <2>3. called' \subseteq Tools
    BY <1>1 DEF ReadChunk, ToolsIn
  <2> QED
    BY <1>1, <2>1, <2>2, <2>3 DEF ReadChunk
<1>2. ASSUME NEW u \in Usages, ReadUsage(u)
      PROVE  TypeOK'
  <2>1. usage' \in [input : Nat, cached : Nat]
    BY <1>2, ConstantsOK, TranslationTypes DEF ReadUsage
  <2> QED
    BY <1>2, <2>1, EmptySeq DEF ReadUsage
<1>3. CASE ReadEnd
  BY <1>3 DEF ReadEnd
<1>4. ASSUME NEW type \in ErrorTypes \cup {""}, ReadFailure(type)
      PROVE  TypeOK'
  BY <1>4 DEF ReadFailure
<1>5. CASE WriteMessageStart \/ WriteMessageStop \/ WriteError \/ WriteFails
  BY <1>5 DEF WriteMessageStart, WriteMessageStop, WriteError, WriteFails
<1>6. CASE WriteBlockStop
  BY <1>6 DEF WriteBlockStop
<1>7. CASE WriteBlockStart
  <2>1. curKind' \in Contract!BlockKinds
    BY <1>7 DEF WriteBlockStart, KindOf, Contract!BlockKinds
  <2>2. curIndex' \in Nat /\ nextIndex' \in Nat
    <3>1. curIndex' = nextIndex /\ nextIndex' = nextIndex + 1
      BY <1>7 DEF WriteBlockStart
    <3>2. nextIndex \in Nat
      OBVIOUS
    <3> HIDE DEF TypeOK
    <3> QED
      BY <3>1, <3>2
  <2>3. toolBlock' \in [Tools -> Nat]
    BY <1>7 DEF WriteBlockStart
  <2> QED
    BY <1>7, <2>1, <2>2, <2>3 DEF WriteBlockStart
<1>8. CASE WriteDelta
  <2>1. todo' \in Seq(Parts)
    BY <1>8, PartOfChunk DEF WriteDelta
  <2> QED
    BY <1>8, <2>1 DEF WriteDelta
<1>9. CASE SkipEmptyArguments
  <2>1. todo' \in Seq(Parts)
    BY <1>9, PartOfChunk DEF SkipEmptyArguments
  <2> QED
    BY <1>9, <2>1 DEF SkipEmptyArguments
<1>10. CASE ChunkDone
  BY <1>10, TranslationTypes DEF ChunkDone
<1>11. CASE WriteMessageDelta
  <2>1. stop' \in Contract!StopReasons \cup {"none"} /\ reported' \in [input : Nat, cached : Nat]
    BY <1>11, TranslationTypes DEF WriteMessageDelta, Contract!StopReasons
  <2> QED
    BY <1>11, <2>1 DEF WriteMessageDelta
<1>12. ASSUME NEW tools \in SUBSET Tools, NEW reason \in FinishReasons \cup {""},
              SkipChunk(tools, reason)
       PROVE  TypeOK'
  <2>1. /\ called' \subseteq Tools /\ upstream' \in {"live", "finished", "closed"}
        /\ callSkipped' \in BOOLEAN
    BY <1>12 DEF SkipChunk
  <2>2. UNCHANGED <<sent, pc, todo, finish, started, curKind, curIndex, nextIndex,
                    toolBlock, usage, stopReason, sawToolCalls, errKind, phase, stop,
                    reported>>
    BY <1>12 DEF SkipChunk
  <2>3. /\ curKind' \in Contract!BlockKinds \cup {"none"}
        /\ stopReason' \in Contract!StopReasons \cup {"none"}
        /\ phase' \in Contract!Phases
        /\ stop' \in Contract!StopReasons \cup {"none"}
    BY <2>2, Zenon
  <2>4. /\ todo' \in Seq(Parts)
        /\ sent' \in [Sources -> Nat] /\ toolBlock' \in [Tools -> Nat]
        /\ usage' \in [input : Nat, cached : Nat]
        /\ reported' \in [input : Nat, cached : Nat]
    BY <2>2, Zenon
  <2>5. /\ pc' \in Working \cup {"reading", "returned"}
        /\ finish' \in FinishReasons \cup {""}
        /\ started' \in BOOLEAN /\ sawToolCalls' \in BOOLEAN
        /\ curIndex' \in Nat /\ nextIndex' \in Nat
        /\ errKind' \in ErrorTypes \cup {"", "api_error"}
    BY <2>2, Zenon
  <2> QED
    BY <2>1, <2>3, <2>4, <2>5, Zenon
<1> QED
  BY <1>1, <1>2, <1>3, <1>4, <1>5, <1>6, <1>7, <1>8, <1>9, <1>10, <1>11, <1>12
     DEF Read, Write

LEMMA TypeInductive ==
    ASSUME TypeOK, BlocksInv, [Next]_vars
    PROVE  TypeOK'
<1>1. CASE Read \/ Write
  BY <1>1, BlocksInductive, StepType
<1>2. CASE UNCHANGED vars
  <2>1. UNCHANGED <<upstream, sent, called, callSkipped, pc, todo, finish, started, curKind,
                    curIndex, nextIndex, toolBlock, usage, stopReason, sawToolCalls, errKind,
                    phase, blocks, stop, reported>>
    BY <1>2 DEF vars, backendVars, blockVars, resultVars, clientVars
  <2>2. /\ curKind' \in Contract!BlockKinds \cup {"none"}
        /\ stopReason' \in Contract!StopReasons \cup {"none"}
        /\ phase' \in Contract!Phases
        /\ stop' \in Contract!StopReasons \cup {"none"}
    BY <2>1, Zenon DEF TypeOK
  <2>3. /\ blocks' \in Seq(Block) /\ todo' \in Seq(Parts)
        /\ sent' \in [Sources -> Nat] /\ toolBlock' \in [Tools -> Nat]
        /\ usage' \in [input : Nat, cached : Nat]
        /\ reported' \in [input : Nat, cached : Nat]
    BY <2>1, Zenon DEF TypeOK
  <2>4. /\ upstream' \in {"live", "finished", "closed"}
        /\ called' \subseteq Tools
        /\ callSkipped' \in BOOLEAN
        /\ pc' \in Working \cup {"reading", "returned"}
        /\ finish' \in FinishReasons \cup {""}
        /\ started' \in BOOLEAN /\ sawToolCalls' \in BOOLEAN
        /\ curIndex' \in Nat /\ nextIndex' \in Nat
        /\ errKind' \in ErrorTypes \cup {"", "api_error"}
    BY <2>1, Zenon DEF TypeOK
  <2> QED
    BY <2>2, <2>3, <2>4, Zenon DEF TypeOK
<1> QED
  BY <1>1, <1>2 DEF Next, Done

\* Nothing of it has begun.
LEMMA InitEstablishes == Init => TypeOK /\ BlocksInv
<1> SUFFICES ASSUME Init PROVE TypeOK /\ BlocksInv
  OBVIOUS
<1>0. blocks = <<>> /\ todo = <<>>
  BY DEF Init
<1>1. DOMAIN blocks = {} /\ Len(blocks) = 0 /\ blocks \in Seq(Block) /\ todo \in Seq(Parts)
  BY <1>0, EmptySeq
<1>2. TypeOK
  BY <1>1 DEF Init, TypeOK, Contract!Phases, NoBlock, NoUsage, Working
<1>3. BlocksInv
  <2>1. /\ nextIndex = 1
        /\ curKind = "none"
        /\ \A t \in Tools : toolBlock[t] = NoBlock
    BY DEF Init
  <2> QED
    BY <1>1, <2>1 DEF BlocksInv, Positions, CurrentIsOpen, KindsFit, ToolsRecorded,
                      FragmentsInOwnBlock
<1> QED
  BY <1>2, <1>3

LEMMA AlwaysInPlace == Spec => [](TypeOK /\ BlocksInv)
<1>1. TypeOK /\ BlocksInv /\ [Next]_vars => (TypeOK /\ BlocksInv)'
  BY TypeInductive, BlocksInductive
<1> QED
  BY <1>1, InitEstablishes, PTL DEF Spec

-----------------------------------------------------------------------------
(* Implementation of the contract                                          *)

\* What the client has seen of the response follows the translator.
PhaseFits ==
    /\ pc \in {"reading", "chunk", "finish", "fail"} =>
          phase = IF started THEN "streaming" ELSE "waiting"
    /\ pc = "stop" => phase = "settled"

LEMMA PhaseInductive ==
    ASSUME PhaseFits, [Next]_vars
    PROVE  PhaseFits'
<1>1. CASE Read
  <2>1. \/ pc' = "chunk" /\ pc = "reading"
        \/ pc' = "finish" /\ pc = "reading"
        \/ pc' = "fail" /\ pc = "reading"
        \/ pc' = pc /\ pc = "reading"
    BY <1>1 DEF Read, Reading, ReadChunk, SkipChunk, ReadUsage, ReadEnd, ReadFailure
  <2>2. UNCHANGED <<started, phase>>
    BY <1>1 DEF Read, ReadChunk, SkipChunk, ReadUsage, ReadEnd, ReadFailure, blockVars,
                clientVars
  <2> QED
    BY <2>1, <2>2 DEF PhaseFits
<1>2. CASE WriteMessageStart \/ WriteMessageDelta \/ WriteMessageStop \/ WriteError \/ WriteFails
  BY <1>2 DEF PhaseFits, WriteMessageStart, WriteMessageDelta, WriteMessageStop, WriteError,
              WriteFails, blockVars
<1>3. CASE WriteBlockStop \/ WriteBlockStart
  BY <1>3 DEF PhaseFits, InPart, WriteBlockStop, WriteBlockStart
<1>4. CASE WriteDelta \/ SkipEmptyArguments \/ ChunkDone
  <2>1. pc = "chunk" /\ pc' \in {"chunk", "reading"}
    BY <1>4 DEF WriteDelta, SkipEmptyArguments, ChunkDone, InPart
  <2>2. UNCHANGED <<started, phase>>
    BY <1>4 DEF WriteDelta, SkipEmptyArguments, ChunkDone, blockVars, clientVars
  <2> QED
    BY <2>1, <2>2 DEF PhaseFits
<1>5. CASE UNCHANGED vars
  BY <1>5 DEF PhaseFits, vars, blockVars, clientVars
<1> QED
  BY <1>1, <1>2, <1>3, <1>4, <1>5 DEF Next, Write, Done

\* Whenever no block is current, none is open at the client.
LEMMA NoneOpen ==
    ASSUME BlocksInv, curKind = "none"
    PROVE  Contract!OpenBlocks = {}
BY DEF BlocksInv, CurrentIsOpen, Contract!OpenBlocks, Timely

\* While it works on a chunk the response is being streamed.
LEMMA InPartStreams ==
    ASSUME PhaseFits, InPart
    PROVE  phase = "streaming"
BY DEF PhaseFits, InPart

\* Closing, opening and writing to a block are the contract's events; to write to
\* a block that is closed is none.
LEMMA CloseImplements ==
    ASSUME TypeOK, BlocksInv, PhaseFits, WriteBlockStop
    PROVE  Contract!ContentBlockStop(curIndex) /\ curIndex \in DOMAIN Timely
<1>1. curIndex \in DOMAIN blocks /\ blocks[curIndex].open
  BY DEF WriteBlockStop, BlocksInv, CurrentIsOpen
<1>2. /\ DOMAIN blocks' = DOMAIN blocks
      /\ \A c \in DOMAIN blocks :
            blocks'[c] = IF c = curIndex THEN [blocks[curIndex] EXCEPT !.open = FALSE]
                         ELSE blocks[c]
  BY <1>1, CloseEffect DEF WriteBlockStop
<1>3. blocks[curIndex] \in Block
  BY <1>1, BlockAt DEF TypeOK
<1>4. Timely' = [Timely EXCEPT ![curIndex].open = FALSE]
  <2> DEFINE b == blocks[curIndex]
             y == [src |-> b.src, kind |-> b.kind, open |-> FALSE, frags |-> b.frags]
  <2>1. /\ blocks'[curIndex].src = b.src
        /\ blocks'[curIndex].kind = b.kind
        /\ blocks'[curIndex].open = FALSE
        /\ blocks'[curIndex].frags = b.frags
    BY <1>1, <1>2, <1>3 DEF Block
  <2>2. Timely' = [c \in DOMAIN blocks |-> IF c = curIndex THEN y ELSE Timely[c]]
    BY <1>1, <1>2, <2>1 DEF Timely
  <2>3. [Timely EXCEPT ![curIndex].open = FALSE] =
           [c \in DOMAIN blocks |-> IF c = curIndex THEN y ELSE Timely[c]]
    <3>1. Timely = [c \in DOMAIN blocks |-> Timely[c]]
      BY DEF Timely
    <3>2. [Timely[curIndex] EXCEPT !.open = FALSE] = y
      <4>1. Timely[curIndex] = [src |-> b.src, kind |-> b.kind, open |-> b.open,
                                frags |-> b.frags]
        BY <1>1 DEF Timely
      <4> HIDE DEF b
      <4>2. \A value : [Timely[curIndex] EXCEPT !.open = value] =
                         [src |-> b.src, kind |-> b.kind, open |-> value,
                          frags |-> b.frags]
        BY <4>1
      <4> QED
        BY <4>2, Zenon
    <3> HIDE DEF y
    <3> QED
      BY <1>1, <3>1, <3>2
  <2> QED
    BY <2>2, <2>3
<1>5. phase = "streaming" /\ UNCHANGED <<phase, stop>>
  BY InPartStreams DEF WriteBlockStop, PhaseFits
<1> QED
  BY <1>1, <1>4, <1>5 DEF Contract!ContentBlockStop, Contract!OpenBlocks, Timely

\* A block is opened in the next position, with no other open.
LEMMA OpenImplements ==
    ASSUME TypeOK, BlocksInv, PhaseFits, WriteBlockStart
    PROVE  Contract!ContentBlockStart(Part.src, KindOf(Part.src))
<1> DEFINE s == Part.src
           n == Len(blocks) + 1
           x == [src |-> s, kind |-> KindOf(s), open |-> TRUE, frags |-> <<>>]
<1>1. s \in Sources
  BY PartOfChunk DEF WriteBlockStart
<1>2. /\ DOMAIN blocks = 1 .. Len(blocks)
      /\ DOMAIN blocks' = 1 .. n
      /\ blocks'[n] = [src |-> s, kind |-> KindOf(s), open |-> TRUE, frags |-> <<>>,
                       late |-> <<>>]
      /\ \A b \in DOMAIN blocks : blocks'[b] = blocks[b]
  BY <1>1, OpenEffect DEF WriteBlockStart
<1>3. Len(blocks) \in Nat
  BY LenProperties DEF TypeOK
<1> HIDE DEF s
<1>4. /\ Timely \in Seq(Contract!Block)
      /\ Len(Timely) = Len(blocks)
  <2>1. \A b \in 1 .. Len(blocks) : Timely[b] \in Contract!Block
    <3>1. \A b \in DOMAIN blocks : blocks[b] \in Block
      BY BlockAt DEF TypeOK
    <3> QED
      BY <1>2, <3>1 DEF Timely, Block, Contract!Block
  <2>2. Timely \in [1 .. Len(blocks) -> Contract!Block]
    BY <1>2, <2>1 DEF Timely
  <2> QED
    BY <1>3, <2>2
<1>5. Timely' = Append(Timely, x)
  <2>1. Timely' = [b \in 1 .. n |-> IF b = n THEN x ELSE Timely[b]]
    <3>1. Timely' = [b \in 1 .. n |-> [src |-> blocks'[b].src, kind |-> blocks'[b].kind,
                                       open |-> blocks'[b].open,
                                       frags |-> blocks'[b].frags]]
      BY <1>2 DEF Timely
    <3>2. \A b \in 1 .. n : b # n => b \in DOMAIN blocks
      BY <1>2, <1>3
    <3>3. /\ blocks'[n].src = s
          /\ blocks'[n].kind = KindOf(s)
          /\ blocks'[n].open = TRUE
          /\ blocks'[n].frags = <<>>
      BY <1>2
    <3>4. \A b \in DOMAIN blocks :
             Timely[b] = [src |-> blocks[b].src, kind |-> blocks[b].kind,
                          open |-> blocks[b].open, frags |-> blocks[b].frags]
      BY DEF Timely
    <3> HIDE DEF n
    <3> QED
      BY <1>2, <3>1, <3>2, <3>3, <3>4
  <2>2. Append(Timely, x) = [b \in 1 .. n |-> IF b = n THEN x ELSE Timely[b]]
    BY <1>3, <1>4
  <2> QED
    BY <2>1, <2>2
<1>6. Contract!OpenBlocks = {}
  BY NoneOpen DEF WriteBlockStart
<1>7. phase = "streaming" /\ UNCHANGED <<phase, stop>>
  BY InPartStreams DEF WriteBlockStart
<1> QED
  BY <1>5, <1>6, <1>7 DEF Contract!ContentBlockStart, s

\* A delta in time is the contract's; a late one the client does not see.
LEMMA DeltaImplements ==
    ASSUME TypeOK, BlocksInv, PhaseFits, WriteDelta
    PROVE  \/ \E b \in DOMAIN Timely, type \in Contract!DeltaTypes :
                 Contract!ContentBlockDelta(b, type)
           \/ UNCHANGED Contract!vars
<1> DEFINE s == Part.src
           t == Target(Part.src)
           f == [src |-> Part.src, type |-> DeltaType(Part.src)]
<1>1. s \in Sources
  BY PartOfChunk DEF WriteDelta
<1>2. /\ t \in DOMAIN blocks
      /\ blocks[t].src = s
      /\ blocks[t].kind = KindOf(s)
      /\ DeltaType(s) \in Contract!DeltasOf(KindOf(s))
      /\ f \in Contract!Fragment
  BY <1>1, TargetBlock DEF WriteDelta
<1>3. /\ DOMAIN blocks' = DOMAIN blocks
      /\ \A c \in DOMAIN blocks \ {t} : blocks'[c] = blocks[c]
      /\ blocks'[t] = IF blocks[t].open
                      THEN [blocks[t] EXCEPT !.frags = Append(@, f)]
                      ELSE [blocks[t] EXCEPT !.late = Append(@, f)]
  BY <1>2, ReceiveEffect DEF WriteDelta
<1>4. phase = "streaming" /\ UNCHANGED <<phase, stop>>
  BY InPartStreams DEF WriteDelta
<1>5. blocks[t] \in Block
  BY <1>2, BlockAt DEF TypeOK
<1>6. DeltaType(s) \in Contract!DeltaTypes
  BY <1>2 DEF Contract!Fragment
<1> HIDE DEF t
<1>7. CASE ~blocks[t].open
  <2>1. Timely' = Timely
    BY <1>2, <1>3, <1>5, <1>7, SMTT(30) DEF Timely, Block
  <2> QED
    BY <1>4, <2>1 DEF Contract!vars
<1>8. CASE blocks[t].open
  <2>1. Timely' = [Timely EXCEPT ![t].frags = Append(@, f)]
    <3> DEFINE b == blocks[t]
               y == [src |-> b.src, kind |-> b.kind, open |-> b.open,
                     frags |-> Append(b.frags, f)]
    <3>1. /\ blocks'[t].src = b.src
          /\ blocks'[t].kind = b.kind
          /\ blocks'[t].open = b.open
          /\ blocks'[t].frags = Append(b.frags, f)
      BY <1>3, <1>5, <1>8 DEF Block
    <3> HIDE DEF f
    <3>2. Timely' = [c \in DOMAIN blocks |-> IF c = t THEN y ELSE Timely[c]]
      BY <1>2, <1>3, <3>1 DEF Timely
    <3>3. [Timely EXCEPT ![t].frags = Append(@, f)] =
             [c \in DOMAIN blocks |-> IF c = t THEN y ELSE Timely[c]]
      <4>1. Timely = [c \in DOMAIN blocks |-> Timely[c]]
        BY DEF Timely
      <4>2. [Timely[t] EXCEPT !.frags = Append(@, f)] = y
        <5>1. Timely[t] = [src |-> b.src, kind |-> b.kind, open |-> b.open,
                           frags |-> b.frags]
          BY <1>2 DEF Timely
        <5> HIDE DEF b
        <5> QED
          BY <5>1, SMTT(30)
      <4> HIDE DEF y
      <4> QED
        BY <1>2, <4>1, <4>2
    <3> QED
      BY <3>2, <3>3
  <2>2. /\ t \in Contract!OpenBlocks
        /\ Timely[t].src = s
        /\ Timely[t].kind = KindOf(s)
    BY <1>2, <1>8 DEF Contract!OpenBlocks, Timely
  <2>3. Contract!ContentBlockDelta(t, DeltaType(s))
    BY <1>2, <1>4, <2>1, <2>2 DEF Contract!ContentBlockDelta
  <2>4. t \in DOMAIN Timely
    BY <1>2 DEF Timely
  <2> QED
    BY <1>6, <2>3, <2>4
<1> QED
  BY <1>7, <1>8

\* Before message_start the client has nothing.
LEMMA InitImplements == Init => Contract!Init
<1> SUFFICES ASSUME Init PROVE Contract!Init
  OBVIOUS
<1>1. blocks = <<>> /\ phase = "waiting" /\ stop = "none"
  BY DEF Init
<1>2. DOMAIN Timely = 1 .. 0
  BY <1>1, EmptySeq DEF Timely
<1>3. Timely \in [1 .. 0 -> Contract!Block]
  BY <1>2 DEF Timely
<1>4. Timely = <<>>
  <2>1. Timely \in Seq(Contract!Block) /\ Len(Timely) = 0
    BY <1>3
  <2> QED
    BY <2>1, EmptySeq
<1> QED
  BY <1>1, <1>4 DEF Contract!Init

\* Every step is an event of the contract, or the client does not see it.
LEMMA StepImplements ==
    ASSUME TypeOK, BlocksInv, PhaseFits, [Next]_vars
    PROVE  [Contract!Next]_(Contract!vars)
<1>1. ASSUME UNCHANGED clientVars
      PROVE  UNCHANGED Contract!vars
  BY <1>1 DEF clientVars, Contract!vars, Timely
<1>2. CASE Read
  <2>1. UNCHANGED clientVars
    BY <1>2 DEF Read, ReadChunk, SkipChunk, ReadUsage, ReadEnd, ReadFailure
  <2> QED
    BY <1>1, <2>1
<1>3. CASE SkipEmptyArguments \/ ChunkDone \/ UNCHANGED vars
  <2>1. UNCHANGED clientVars
    BY <1>3 DEF SkipEmptyArguments, ChunkDone, vars
  <2> QED
    BY <1>1, <2>1
<1>4. CASE WriteMessageStart
  <2>1. Contract!MessageStart
    <3>1. phase = "waiting" /\ phase' = "streaming" /\ UNCHANGED <<blocks, stop>>
      BY <1>4 DEF WriteMessageStart, PhaseFits
    <3> QED
      BY <3>1 DEF Contract!MessageStart, Timely
  <2> QED
    BY <2>1 DEF Contract!Next
<1>5. CASE WriteBlockStop
  <2>1. Contract!ContentBlockStop(curIndex) /\ curIndex \in DOMAIN Timely
    BY <1>5, CloseImplements
  <2> QED
    BY <2>1 DEF Contract!Next
<1>6. CASE WriteBlockStart
  <2>1. Contract!ContentBlockStart(Part.src, KindOf(Part.src))
    BY <1>6, OpenImplements
  <2>2. Part.src \in Sources
    BY <1>6, PartOfChunk DEF WriteBlockStart
  <2>3. KindOf(Part.src) \in Contract!BlockKinds
    BY DEF KindOf, Contract!BlockKinds
  <2> QED
    BY <2>1, <2>2, <2>3 DEF Contract!Next
<1>7. CASE WriteDelta
  BY <1>7, DeltaImplements DEF Contract!Next
<1>8. CASE WriteMessageDelta
  <2>1. /\ phase = "streaming" /\ phase' = "settled"
        /\ curKind = "none" /\ UNCHANGED blocks
    BY <1>8 DEF WriteMessageDelta, PhaseFits
  <2>2. stop' \in Contract!StopReasons
    BY <1>8 DEF WriteMessageDelta, TypeOK, Contract!StopReasons
  <2>3. Contract!MessageDelta
    BY <2>1, <2>2, NoneOpen DEF Contract!MessageDelta, Timely
  <2> QED
    BY <2>3 DEF Contract!Next
<1>9. CASE WriteMessageStop
  <2>1. phase = "settled" /\ phase' = "stopped" /\ UNCHANGED <<blocks, stop>>
    BY <1>9 DEF WriteMessageStop, PhaseFits
  <2>2. Contract!MessageStop
    BY <2>1 DEF Contract!MessageStop, Timely
  <2> QED
    BY <2>2 DEF Contract!Next
<1>10. CASE WriteError
  <2>1. /\ phase = "streaming" /\ phase' = "errored"
        /\ curKind = "none" /\ UNCHANGED <<blocks, stop>>
    BY <1>10 DEF WriteError, PhaseFits
  <2>2. Contract!Error
    BY <2>1, NoneOpen DEF Contract!Error, Timely
  <2> QED
    BY <2>2 DEF Contract!Next
<1>11. CASE WriteFails
  <2>1. /\ phase \in {"waiting", "streaming", "settled"} /\ phase' = "cut"
        /\ UNCHANGED <<blocks, stop>>
    BY <1>11 DEF WriteFails, Working, PhaseFits
  <2>2. Contract!Cut
    BY <2>1 DEF Contract!Cut, Timely
  <2> QED
    BY <2>2 DEF Contract!Next
<1> QED
  BY <1>2, <1>3, <1>4, <1>5, <1>6, <1>7, <1>8, <1>9, <1>10, <1>11 DEF Next, Write, Done

LEMMA AlwaysPhaseFits == Spec => []PhaseFits
<1>1. Init => PhaseFits
  BY DEF Init, PhaseFits
<1> QED
  BY <1>1, PhaseInductive, PTL DEF Spec

-----------------------------------------------------------------------------
(* Every fragment is on its way or at the client                           *)

\* A part handled is one less to handle.
LEMMA FragmentsOfTail ==
    ASSUME NEW c \in Seq(Parts), c # <<>>, NEW s
    PROVE  FragmentsOf(c, s) = FragmentsOf(Tail(c), s)
              + (IF Head(c).src = s /\ Head(c).text THEN 1 ELSE 0)
<1> DEFINE A == {n \in DOMAIN c : c[n].src = s /\ c[n].text}
           B == {n \in DOMAIN Tail(c) : Tail(c)[n].src = s /\ Tail(c)[n].text}
           next == [n \in B |-> n + 1]
<1>1. /\ Head(c) = c[1]
      /\ DOMAIN c = 1 .. Len(c)
      /\ DOMAIN Tail(c) = 1 .. Len(c) - 1
      /\ \A n \in 1 .. Len(c) - 1 : Tail(c)[n] = c[n + 1]
      /\ Len(c) \in Nat \ {0}
  <2>1. /\ Tail(c) \in Seq(Parts)
        /\ Len(Tail(c)) = Len(c) - 1
        /\ \A n \in 1 .. Len(Tail(c)) : Tail(c)[n] = c[n + 1]
    BY HeadTailProperties
  <2>2. DOMAIN c = 1 .. Len(c) /\ DOMAIN Tail(c) = 1 .. Len(Tail(c))
    BY <2>1, LenProperties
  <2>3. Len(c) \in Nat \ {0}
    BY EmptySeq
  <2>4. Head(c) = c[1]
    OBVIOUS
  <2> QED
    BY <2>1, <2>2, <2>3, <2>4
<1>2. next \in Bijection(B, A \ {1})
  <2>1. next \in [B -> A \ {1}]
    <3>1. ASSUME NEW n \in B
          PROVE  n + 1 \in A \ {1}
      BY <1>1
    <3> QED
      BY <3>1
  <2>2. \A a, b \in B : next[a] = next[b] => a = b
    BY <1>1
  <2>3. \A m \in A \ {1} : \E n \in B : next[n] = m
    <3>1. ASSUME NEW m \in A \ {1}
          PROVE  m - 1 \in B /\ (m - 1) + 1 = m
      BY <1>1
    <3> QED
      BY <3>1
  <2> HIDE DEF next, A, B
  <2> QED
    BY <2>1, <2>2, <2>3, Fun_IsBij
<1>3. IsFiniteSet(A) /\ IsFiniteSet(B)
  <2>1. IsFiniteSet(DOMAIN c) /\ IsFiniteSet(DOMAIN Tail(c))
    BY <1>1, FS_Interval
  <2>2. A \in SUBSET DOMAIN c /\ B \in SUBSET DOMAIN Tail(c)
    OBVIOUS
  <2> HIDE DEF A, B
  <2> QED
    BY <2>1, <2>2, FS_Subset
<1>4. 1 \in A <=> Head(c).src = s /\ Head(c).text
  BY <1>1
<1> HIDE DEF A, B, next
<1>5. Cardinality(B) = Cardinality(A \ {1})
  BY <1>2, <1>3, FS_Bijection DEF ExistsBijection
<1>6. Cardinality(A) \in Nat /\ Cardinality(B) \in Nat
  BY <1>3, FS_CardinalityType
<1>7. Cardinality(A \ {1}) = IF 1 \in A THEN Cardinality(A) - 1 ELSE Cardinality(A)
  BY <1>3, FS_RemoveElement
<1>8. Cardinality(A) = Cardinality(B) + (IF Head(c).src = s /\ Head(c).text THEN 1 ELSE 0)
  BY <1>4, <1>5, <1>6, <1>7
<1> QED
  BY <1>8 DEF FragmentsOf, A, B

\* Nothing is left of an empty chunk.
LEMMA NoFragments == \A s : FragmentsOf(<<>>, s) = 0
<1> TAKE s
<1>1. {n \in DOMAIN <<>> : <<>>[n].src = s /\ <<>>[n].text} = {}
  BY EmptySeq
<1> QED
  BY <1>1, FS_EmptySet DEF FragmentsOf

\* What is handled of a chunk holds every visible fragment of it.
LEMMA HandledFragments ==
    ASSUME NEW c \in Chunks, NEW s, Visible(s)
    PROVE  FragmentsOf(Handled(c), s) = FragmentsOf(c, s)
<1>1. CASE Handled(c) = c
  BY <1>1
<1>2. CASE c # <<>> /\ ~Visible(Head(c).src) /\ Handled(c) = Tail(c)
  <2>1. c \in Seq(Parts) /\ Head(c).src # s
    BY <1>2, ChunkParts
  <2>2. FragmentsOf(Tail(c), s) \in Nat
    BY <1>2, <2>1, ChunkParts, FragmentsType
  <2> QED
    BY <1>2, <2>1, <2>2, FragmentsOfTail
<1> QED
  BY <1>1, <1>2, ChunkParts

\* A fragment has a place at the client when it is among those of a block, in time
\* or late.
LEMMA PlaceOf ==
    ASSUME NEW s, NEW p
    PROVE  p \in Received(s) <=>
              \E b \in DOMAIN blocks :
                 \/ \E n \in DOMAIN blocks[b].frags :
                       blocks[b].frags[n].src = s /\ p = <<b, "frags", n>>
                 \/ \E n \in DOMAIN blocks[b].late :
                       blocks[b].late[n].src = s /\ p = <<b, "late", n>>
BY DEF Received

\* Fragments stay where they are while only blocks are opened and closed.
LEMMA PlacesStay ==
    ASSUME NEW s,
           \A b \in DOMAIN blocks : /\ blocks'[b].frags = blocks[b].frags
                                    /\ blocks'[b].late = blocks[b].late,
           DOMAIN blocks \subseteq DOMAIN blocks',
           \A b \in DOMAIN blocks' \ DOMAIN blocks : /\ DOMAIN blocks'[b].frags = {}
                                                     /\ DOMAIN blocks'[b].late = {}
    PROVE  Received(s)' = Received(s)
BY DEF Received

\* The places in one block.
Places(b, x, s) ==
    {<<b, "frags", n>> : n \in {m \in DOMAIN x.frags : x.frags[m].src = s}} \cup
    {<<b, "late", n>> : n \in {m \in DOMAIN x.late : x.late[m].src = s}}

\* Received, block by block.
LEMMA ReceivedIn ==
    ASSUME NEW s
    PROVE  Received(s) = UNION {Places(b, blocks[b], s) : b \in DOMAIN blocks}
BY DEF Received, Places

\* A delta adds one place for its source, and none for another one.
LEMMA DeltaAddsPlace ==
    ASSUME TypeOK, BlocksInv, WriteDelta, NEW r
    PROVE  \/ r # Part.src /\ Received(r)' = Received(r)
           \/ /\ r = Part.src
              /\ \E p : p \notin Received(r) /\ Received(r)' = Received(r) \cup {p}
<1> DEFINE s == Part.src
           t == Target(Part.src)
           f == [src |-> Part.src, type |-> DeltaType(Part.src)]
<1>1. s \in Sources
  BY PartOfChunk DEF WriteDelta
<1>2. t \in DOMAIN blocks /\ f \in Contract!Fragment
  BY <1>1, TargetBlock DEF WriteDelta
<1>3. /\ DOMAIN blocks' = DOMAIN blocks
      /\ \A c \in DOMAIN blocks \ {t} : blocks'[c] = blocks[c]
      /\ blocks'[t] = IF blocks[t].open
                      THEN [blocks[t] EXCEPT !.frags = Append(@, f)]
                      ELSE [blocks[t] EXCEPT !.late = Append(@, f)]
  BY <1>2, ReceiveEffect DEF WriteDelta
<1>4. blocks[t] \in Block
  BY <1>2, BlockAt DEF TypeOK
<1>5. f.src = s
  OBVIOUS
<1> HIDE DEF s, t, f
<1>6. ASSUME NEW frags \in Seq(Contract!Fragment)
      PROVE  /\ Len(frags) + 1 \notin DOMAIN frags
             /\ DOMAIN Append(frags, f) = DOMAIN frags \cup {Len(frags) + 1}
             /\ Append(frags, f)[Len(frags) + 1].src = s
             /\ \A m \in DOMAIN frags : Append(frags, f)[m] = frags[m]
  <2>1. /\ Append(frags, f) \in Seq(Contract!Fragment)
        /\ Len(Append(frags, f)) = Len(frags) + 1
        /\ Append(frags, f)[Len(frags) + 1] = f
        /\ \A m \in 1 .. Len(frags) : Append(frags, f)[m] = frags[m]
    BY <1>2, AppendProperties
  <2>2. /\ DOMAIN frags = 1 .. Len(frags)
        /\ DOMAIN Append(frags, f) = 1 .. Len(frags) + 1
        /\ Len(frags) \in Nat
    BY <2>1, LenProperties
  <2> QED
    BY <1>5, <2>1, <2>2
<1>7. blocks[t].frags \in Seq(Contract!Fragment) /\ blocks[t].late \in Seq(Contract!Fragment)
  BY <1>4 DEF Block
<1>8. CASE blocks[t].open
  <2> DEFINE p == <<t, "frags", Len(blocks[t].frags) + 1>>
  <2>1. /\ blocks'[t].frags = Append(blocks[t].frags, f)
        /\ blocks'[t].late = blocks[t].late
    BY <1>3, <1>4, <1>8 DEF Block
  <2>2. p \notin Received(r)
    BY <1>6, <1>7, PlaceOf
  <2>3. \A b \in DOMAIN blocks \ {t} : Places(b, blocks'[b], r) = Places(b, blocks[b], r)
    BY <1>3
  <2>4. Places(t, blocks'[t], r) =
           Places(t, blocks[t], r) \cup (IF r = s THEN {p} ELSE {})
    <3>1. {n \in DOMAIN blocks'[t].frags : blocks'[t].frags[n].src = r} =
             {n \in DOMAIN blocks[t].frags : blocks[t].frags[n].src = r}
                \cup (IF r = s THEN {Len(blocks[t].frags) + 1} ELSE {})
      BY <1>6, <1>7, <2>1
    <3> QED
      BY <2>1, <3>1 DEF Places
  <2> HIDE DEF p
  <2>5. Received(r)' = Received(r) \cup (IF r = s THEN {p} ELSE {})
    <3>1. Received(r)' = UNION {Places(b, blocks'[b], r) : b \in DOMAIN blocks'}
      BY DEF Received, Places
    <3> QED
      BY <1>2, <1>3, <2>3, <2>4, <3>1, ReceivedIn
  <2> QED
    BY <2>2, <2>5 DEF s
<1>9. CASE ~blocks[t].open
  <2> DEFINE p == <<t, "late", Len(blocks[t].late) + 1>>
  <2>1. /\ blocks'[t].late = Append(blocks[t].late, f)
        /\ blocks'[t].frags = blocks[t].frags
    BY <1>3, <1>4, <1>9 DEF Block
  <2>2. p \notin Received(r)
    BY <1>6, <1>7, PlaceOf
  <2>3. \A b \in DOMAIN blocks \ {t} : Places(b, blocks'[b], r) = Places(b, blocks[b], r)
    BY <1>3
  <2>4. Places(t, blocks'[t], r) =
           Places(t, blocks[t], r) \cup (IF r = s THEN {p} ELSE {})
    <3>1. {n \in DOMAIN blocks'[t].late : blocks'[t].late[n].src = r} =
             {n \in DOMAIN blocks[t].late : blocks[t].late[n].src = r}
                \cup (IF r = s THEN {Len(blocks[t].late) + 1} ELSE {})
      BY <1>6, <1>7, <2>1
    <3> QED
      BY <2>1, <3>1 DEF Places
  <2> HIDE DEF p
  <2>5. Received(r)' = Received(r) \cup (IF r = s THEN {p} ELSE {})
    <3>1. Received(r)' = UNION {Places(b, blocks'[b], r) : b \in DOMAIN blocks'}
      BY DEF Received, Places
    <3> QED
      BY <1>2, <1>3, <2>3, <2>4, <3>1, ReceivedIn
  <2> QED
    BY <2>2, <2>5 DEF s
<1> QED
  BY <1>8, <1>9

\* No other step moves a fragment.
LEMMA OthersKeepPlaces ==
    ASSUME TypeOK, BlocksInv, [Next]_vars, ~WriteDelta, NEW s
    PROVE  Received(s)' = Received(s)
<1>1. CASE WriteBlockStop
  <2>1. curIndex \in DOMAIN blocks
    BY <1>1 DEF WriteBlockStop, BlocksInv, CurrentIsOpen
  <2>2. /\ DOMAIN blocks' = DOMAIN blocks
        /\ \A c \in DOMAIN blocks :
              blocks'[c] = IF c = curIndex THEN [blocks[curIndex] EXCEPT !.open = FALSE]
                           ELSE blocks[c]
    BY <1>1, <2>1, CloseEffect DEF WriteBlockStop
  <2>3. blocks[curIndex] \in Block
    BY <2>1, BlockAt DEF TypeOK
  <2>4. \A b \in DOMAIN blocks : /\ blocks'[b].frags = blocks[b].frags
                                 /\ blocks'[b].late = blocks[b].late
    BY <2>2, <2>3 DEF Block
  <2> QED
    BY <2>2, <2>4, PlacesStay
<1>2. CASE WriteBlockStart
  <2>1. Part.src \in Sources
    BY <1>2, PartOfChunk DEF WriteBlockStart
  <2>2. /\ DOMAIN blocks = 1 .. Len(blocks)
        /\ DOMAIN blocks' = 1 .. Len(blocks) + 1
        /\ blocks'[Len(blocks) + 1] =
              [src |-> Part.src, kind |-> KindOf(Part.src), open |-> TRUE,
               frags |-> <<>>, late |-> <<>>]
        /\ \A b \in DOMAIN blocks : blocks'[b] = blocks[b]
    BY <1>2, <2>1, OpenEffect DEF WriteBlockStart
  <2>3. Len(blocks) \in Nat
    BY LenProperties DEF TypeOK
  <2>4. DOMAIN blocks \subseteq DOMAIN blocks' /\ DOMAIN blocks' \ DOMAIN blocks = {Len(blocks) + 1}
    BY <2>2, <2>3
  <2>5. \A b \in DOMAIN blocks' \ DOMAIN blocks : /\ DOMAIN blocks'[b].frags = {}
                                                  /\ DOMAIN blocks'[b].late = {}
    BY <2>2, <2>4, EmptySeq
  <2> QED
    BY <2>2, <2>4, <2>5, PlacesStay
<1>3. CASE UNCHANGED blocks
  BY <1>3 DEF Received
<1> QED
  BY <1>1, <1>2, <1>3, BlockSteps

\* What the client does not hold yet is among the parts still to handle.
LedgerInv ==
    /\ pc = "reading" => todo = <<>>
    /\ \A s \in Sources : IsFiniteSet(Received(s))
    /\ pc \in {"reading", "chunk"} =>
          \A s \in Sources : Visible(s) =>
             Cardinality(Received(s)) + FragmentsOf(todo, s) = sent[s]

\* With nothing left of a chunk, everything is at the client.
LEMMA NothingOwed ==
    ASSUME LedgerInv, todo = <<>>, pc \in {"reading", "chunk"},
           NEW s \in Sources, Visible(s)
    PROVE  Cardinality(Received(s)) = sent[s] /\ sent[s] \in Nat
<1>1. Cardinality(Received(s)) + 0 = sent[s]
  BY NoFragments DEF LedgerInv
<1>2. Cardinality(Received(s)) \in Nat
  BY FS_CardinalityType DEF LedgerInv
<1> QED
  BY <1>1, <1>2

\* No step loses a fragment, or counts one twice.
LEMMA LedgerInductive ==
    ASSUME TypeOK, BlocksInv, LedgerInv, [Next]_vars
    PROVE  LedgerInv'
<1>1. CASE WriteDelta
  <2>1. /\ pc = "chunk" /\ pc' = pc /\ sent' = sent
        /\ todo # <<>> /\ todo' = Tail(todo) /\ Part = Head(todo) /\ Part.text
    BY <1>1 DEF WriteDelta, InPart, Part, backendVars
  <2>2. todo \in Seq(Parts)
    BY DEF TypeOK
  <2>5. ASSUME NEW s \in Sources
        PROVE  /\ IsFiniteSet(Received(s)')
               /\ Visible(s) =>
                     Cardinality(Received(s)') + FragmentsOf(Tail(todo), s) = sent[s]
    <3>1. IsFiniteSet(Received(s)) /\ Cardinality(Received(s)) \in Nat
      BY FS_CardinalityType DEF LedgerInv
    <3>2. /\ FragmentsOf(todo, s) = FragmentsOf(Tail(todo), s)
                 + (IF Head(todo).src = s /\ Head(todo).text THEN 1 ELSE 0)
      BY <2>1, <2>2, FragmentsOfTail
    <3>3. FragmentsOf(Tail(todo), s) \in Nat
      BY <2>1, <2>2, HeadTailProperties, FragmentsType
    <3>4. Visible(s) => Cardinality(Received(s)) + FragmentsOf(todo, s) = sent[s]
      BY <2>1 DEF LedgerInv
    <3>5. CASE s = Part.src
      <4>0. PICK p : p \notin Received(s) /\ Received(s)' = Received(s) \cup {p}
        BY <1>1, <3>5, DeltaAddsPlace
      <4>1. /\ IsFiniteSet(Received(s)')
            /\ Cardinality(Received(s)') = Cardinality(Received(s)) + 1
        BY <3>1, <4>0, FS_AddElement
      <4> QED
        BY <2>1, <3>1, <3>2, <3>3, <3>4, <3>5, <4>1
    <3>6. CASE s # Part.src
      <4>1. Received(s)' = Received(s)
        BY <1>1, <3>6, DeltaAddsPlace
      <4> QED
        BY <2>1, <3>1, <3>2, <3>3, <3>4, <3>6, <4>1
    <3> QED
      BY <3>5, <3>6
  <2> QED
    BY <2>1, <2>5 DEF LedgerInv, Visible
<1>2. CASE ~WriteDelta
  <2>1. \A s \in Sources : Received(s)' = Received(s)
    BY <1>2, OthersKeepPlaces
  <2>2. \A s \in Sources : IsFiniteSet(Received(s)')
    BY <2>1 DEF LedgerInv
  <2>3. ASSUME NEW c \in Chunks, NEW reason \in FinishReasons \cup {""}, ReadChunk(c, reason)
        PROVE  LedgerInv'
    <3>1. /\ pc = "reading" /\ pc' = "chunk" /\ todo' = Handled(c) /\ todo = <<>>
          /\ sent' = [s \in Sources |-> sent[s] + FragmentsOf(c, s)]
      BY <2>3 DEF ReadChunk, Reading, LedgerInv
    <3>2. ASSUME NEW s \in Sources, Visible(s)
          PROVE  Cardinality(Received(s)') + FragmentsOf(Handled(c), s) = sent'[s]
      <4>1. Cardinality(Received(s)) = sent[s] /\ sent[s] \in Nat
        BY <3>1, <3>2, NothingOwed
      <4>2. FragmentsOf(Handled(c), s) = FragmentsOf(c, s)
        BY <3>2, HandledFragments
      <4>4. sent'[s] = sent[s] + FragmentsOf(c, s) /\ FragmentsOf(c, s) \in Nat
        <5>1. FragmentsOf(c, s) \in Nat
          BY ChunkParts, FragmentsType
        <5> QED
          BY <3>1, <5>1
      <4>5. Received(s)' = Received(s)
        BY <2>1
      <4>6. Cardinality(Received(s)') = sent[s]
        BY <4>1, <4>5, Zenon
      <4> QED
        BY <4>1, <4>2, <4>4, <4>6
    <3> QED
      BY <2>2, <3>1, <3>2 DEF LedgerInv, Visible
  <2>4. ASSUME NEW u \in Usages, ReadUsage(u)
        PROVE  LedgerInv'
    <3>1. pc = "reading" /\ pc' = "chunk" /\ todo' = <<>> /\ todo = <<>> /\ sent' = sent
      BY <2>4 DEF ReadUsage, Reading, LedgerInv, backendVars
    <3> QED
      BY <2>1, <2>2, <3>1 DEF LedgerInv, Visible
  <2>5. CASE ReadEnd \/ \E type \in ErrorTypes \cup {""} : ReadFailure(type)
    <3>1. pc' \notin {"reading", "chunk"}
      BY <2>5 DEF ReadEnd, ReadFailure
    <3> QED
      BY <2>2, <3>1 DEF LedgerInv
  <2>6. CASE SkipEmptyArguments
    <3>1. /\ pc = "chunk" /\ pc' = pc /\ sent' = sent
          /\ todo # <<>> /\ todo' = Tail(todo) /\ ~Head(todo).text
      BY <2>6 DEF SkipEmptyArguments, InPart, Part, backendVars
    <3>2. todo \in Seq(Parts)
      BY DEF TypeOK
    <3>3. ASSUME NEW s \in Sources
          PROVE  FragmentsOf(Tail(todo), s) = FragmentsOf(todo, s)
      <4>1. FragmentsOf(Tail(todo), s) \in Nat
        BY <3>1, <3>2, HeadTailProperties, FragmentsType
      <4> QED
        BY <3>1, <3>2, <4>1, FragmentsOfTail
    <3> QED
      BY <2>1, <2>2, <3>1, <3>3 DEF LedgerInv, Visible
  <2>7. CASE ChunkDone
    <3>1. pc = "chunk" /\ pc' = "reading" /\ todo = <<>> /\ todo' = todo /\ sent' = sent
      BY <2>7 DEF ChunkDone, backendVars
    <3> QED
      BY <2>1, <2>2, <3>1 DEF LedgerInv, Visible
  <2>8. CASE \/ WriteMessageStart \/ WriteBlockStop \/ WriteBlockStart
             \/ UNCHANGED vars
    <3>1. UNCHANGED <<pc, todo, sent>>
      BY <2>8 DEF WriteMessageStart, WriteBlockStop, WriteBlockStart, vars, backendVars
    <3> QED
      BY <2>1, <2>2, <3>1 DEF LedgerInv, Visible
  <2>9. CASE WriteMessageDelta \/ WriteMessageStop \/ WriteError \/ WriteFails
    <3>1. pc' \notin {"reading", "chunk"}
      BY <2>9 DEF WriteMessageDelta, WriteMessageStop, WriteError, WriteFails
    <3> QED
      BY <2>2, <3>1 DEF LedgerInv
  <2>10. CASE \E tools \in SUBSET Tools, reason \in FinishReasons \cup {""} :
                 SkipChunk(tools, reason)
    <3>1. UNCHANGED <<pc, todo, sent>>
      BY <2>10 DEF SkipChunk
    <3> QED
      BY <2>1, <2>2, <3>1 DEF LedgerInv, Visible
  <2> QED
    BY <1>2, <2>3, <2>4, <2>5, <2>6, <2>7, <2>8, <2>9, <2>10 DEF Next, Read, Write, Done
<1> QED
  BY <1>1, <1>2

LEMMA AlwaysLedger == Spec => []LedgerInv
<1>1. Init => LedgerInv
  <2> SUFFICES ASSUME Init PROVE LedgerInv
    OBVIOUS
  <2>1. blocks = <<>> /\ todo = <<>> /\ sent = [s \in Sources |-> 0]
    BY DEF Init
  <2>2. \A s \in Sources : Received(s) = {}
    BY <2>1, EmptySeq DEF Received
  <2>3. \A s \in Sources : /\ IsFiniteSet(Received(s))
                           /\ Cardinality(Received(s)) + FragmentsOf(todo, s) = sent[s]
    BY <2>1, <2>2, NoFragments, FS_EmptySet
  <2> QED
    BY <2>1, <2>3 DEF LedgerInv
<1>2. TypeOK /\ BlocksInv /\ LedgerInv /\ [Next]_vars => LedgerInv'
  BY LedgerInductive
<1> QED
  BY <1>1, <1>2, AlwaysInPlace, PTL DEF Spec

-----------------------------------------------------------------------------
(* What the client is told at the end                                      *)

\* The tool calls of a chunk are those of its first part and of the rest.
LEMMA ToolsOfTail ==
    ASSUME NEW c \in Seq(Parts), c # <<>>
    PROVE  ToolsIn(c) = ToolsIn(Tail(c)) \cup ({Head(c).src} \cap Tools)
<1>1. /\ DOMAIN c = 1 .. Len(c)
      /\ Len(c) \in Nat \ {0}
      /\ DOMAIN Tail(c) = 1 .. Len(c) - 1
      /\ Head(c) = c[1]
      /\ \A n \in 1 .. Len(c) - 1 : Tail(c)[n] = c[n + 1]
  <2>1. /\ Tail(c) \in Seq(Parts)
        /\ Len(Tail(c)) = Len(c) - 1
        /\ \A n \in 1 .. Len(Tail(c)) : Tail(c)[n] = c[n + 1]
    BY HeadTailProperties
  <2>2. DOMAIN c = 1 .. Len(c) /\ DOMAIN Tail(c) = 1 .. Len(Tail(c))
    BY <2>1, LenProperties
  <2>3. Len(c) \in Nat \ {0} /\ Head(c) = c[1]
    BY EmptySeq
  <2> QED
    BY <2>1, <2>2, <2>3
<1>2. \A n \in DOMAIN c : n # 1 => n - 1 \in DOMAIN Tail(c) /\ Tail(c)[n - 1] = c[n]
  BY <1>1
<1>3. \A n \in DOMAIN Tail(c) : n + 1 \in DOMAIN c /\ Tail(c)[n] = c[n + 1]
  BY <1>1
<1>4. 1 \in DOMAIN c
  BY <1>1
<1>5. {c[n].src : n \in DOMAIN c} =
         {Tail(c)[n].src : n \in DOMAIN Tail(c)} \cup {Head(c).src}
  BY <1>1, <1>2, <1>3, <1>4
<1> QED
  BY <1>5 DEF ToolsIn

LEMMA NoTools == ToolsIn(<<>>) = {}
BY EmptySeq DEF ToolsIn

\* No tool call is hidden.
LEMMA ToolsHandled ==
    ASSUME NEW c \in Chunks
    PROVE  ToolsIn(Handled(c)) = ToolsIn(c)
<1>1. CASE Handled(c) = c
  BY <1>1
<1>2. CASE c # <<>> /\ ~Visible(Head(c).src) /\ Handled(c) = Tail(c)
  <2>1. c \in Seq(Parts) /\ Head(c).src \notin Tools
    BY <1>2, ChunkParts, ConstantsOK DEF Visible
  <2>2. ToolsIn(c) = ToolsIn(Tail(c)) \cup ({Head(c).src} \cap Tools)
    BY <1>2, <2>1, ToolsOfTail
  <2>3. ToolsIn(c) = ToolsIn(Tail(c))
    BY <2>1, <2>2
  <2> QED
    BY <1>2, <2>3
<1> QED
  BY <1>1, <1>2, ChunkParts

\* The tool calls that have a block.
Opened == {t \in Tools : toolBlock[t] # NoBlock}

\* A tool call that was streamed has its block, or will once the chunk is handled,
\* if no chunk with a part of one was skipped.
CalledAreShown ==
    /\ phase # "cut" /\ ~callSkipped => called = Opened \cup ToolsIn(todo)
    /\ phase # "cut" /\ pc # "chunk" => todo = <<>>

\* No more tool calls come once the translator has a reason, and it knows whether
\* there were any if no chunk with a part of one was skipped.
ReasonFits ==
    /\ finish # "" \/ stopReason # "none" => upstream # "live"
    /\ ~callSkipped =>
          /\ sawToolCalls <=> called # {}
          /\ finish \in {"tool_calls", "function_call"} => called # {}
          /\ finish \in {"stop", "content_filter"} => called = {}
          /\ stopReason \notin {"none", "max_tokens"} =>
                (stopReason = "tool_use" <=> called # {})

\* What it reports is what it has recorded.
Recorded ==
    /\ \E u \in Usages \cup {NoUsage} : usage = TranslateUsage(u)
    /\ phase \in {"settled", "stopped"} =>
          /\ stop = IF stopReason = "none" THEN "end_turn" ELSE stopReason
          /\ reported = FinalUsage(usage)

\* What was called is shown, whatever step is taken.
LEMMA CalledInductive ==
    ASSUME TypeOK, BlocksInv, PhaseFits, CalledAreShown, [Next]_vars
    PROVE  CalledAreShown'
<1>1. ASSUME NEW c \in Chunks, NEW reason \in FinishReasons \cup {""}, ReadChunk(c, reason)
      PROVE  CalledAreShown'
  <2>1. /\ pc = "reading" /\ pc' = "chunk" /\ todo' = Handled(c) /\ phase' = phase
        /\ called' = called \cup ToolsIn(c) /\ callSkipped' = callSkipped
        /\ Opened' = Opened
    BY <1>1 DEF ReadChunk, Reading, blockVars, clientVars, Opened
  <2>2. phase # "cut" /\ ~callSkipped => called = Opened
    BY <2>1, NoTools DEF CalledAreShown
  <2> QED
    BY <2>1, <2>2, ToolsHandled DEF CalledAreShown
<1>2. ASSUME NEW u \in Usages, ReadUsage(u)
      PROVE  CalledAreShown'
  <2>1. /\ pc = "reading" /\ todo' = <<>> /\ phase' = phase
        /\ called' = called /\ callSkipped' = callSkipped /\ Opened' = Opened
    BY <1>2 DEF ReadUsage, Reading, backendVars, blockVars, clientVars, Opened
  <2> QED
    BY <2>1 DEF CalledAreShown
<1>3. CASE ReadEnd \/ \E type \in ErrorTypes \cup {""} : ReadFailure(type)
  <2>1. /\ pc = "reading" /\ todo' = todo /\ phase' = phase
        /\ called' = called /\ callSkipped' = callSkipped /\ Opened' = Opened
    BY <1>3 DEF ReadEnd, ReadFailure, Reading, backendVars, blockVars, clientVars, Opened
  <2> QED
    BY <2>1 DEF CalledAreShown
<1>4. CASE WriteMessageStart \/ WriteBlockStop
  <2>1. /\ pc' = pc /\ todo' = todo /\ called' = called /\ callSkipped' = callSkipped /\ Opened' = Opened
    BY <1>4 DEF WriteMessageStart, WriteBlockStop, backendVars, Opened
  <2>2. phase # "cut"
    BY <1>4 DEF WriteMessageStart, WriteBlockStop, InPart, PhaseFits
  <2> QED
    BY <2>1, <2>2 DEF CalledAreShown
<1>5. CASE WriteBlockStart
  <2> DEFINE s == Part.src
  <2>1. /\ pc' = pc /\ pc = "chunk" /\ todo' = todo /\ called' = called /\ callSkipped' = callSkipped /\ phase' = phase
        /\ toolBlock' = [t \in Tools |-> IF t = s THEN nextIndex ELSE toolBlock[t]]
        /\ todo # <<>> /\ s = Head(todo).src
    BY <1>5 DEF WriteBlockStart, InPart, backendVars, Part
  <2>2. nextIndex # NoBlock
    <3>1. Len(blocks) \in Nat
      BY LenProperties DEF TypeOK
    <3> QED
      BY <3>1 DEF BlocksInv, Positions, NoBlock
  <2> HIDE DEF s
  <2>3. Opened' = Opened \cup ({s} \cap Tools)
    BY <2>1, <2>2 DEF Opened
  <2>4. {s} \cap Tools \subseteq ToolsIn(todo)
    BY <2>1, ToolsOfTail DEF TypeOK
  <2> QED
    BY <2>1, <2>3, <2>4 DEF CalledAreShown
<1>6. CASE WriteDelta \/ SkipEmptyArguments
  <2>1. /\ pc' = pc /\ pc = "chunk" /\ called' = called /\ callSkipped' = callSkipped /\ phase' = phase /\ Opened' = Opened
        /\ todo # <<>> /\ todo' = Tail(todo) /\ ~NeedsBlock(Head(todo).src)
    BY <1>6 DEF WriteDelta, SkipEmptyArguments, InPart, backendVars, blockVars, clientVars,
                Part, Opened
  <2>2. {Head(todo).src} \cap Tools \subseteq Opened
    BY <2>1 DEF NeedsBlock, Opened
  <2>3. ToolsIn(todo) = ToolsIn(Tail(todo)) \cup ({Head(todo).src} \cap Tools)
    BY <2>1, ToolsOfTail DEF TypeOK
  <2> QED
    BY <2>1, <2>2, <2>3 DEF CalledAreShown
<1>7. CASE ChunkDone
  <2>1. /\ todo = <<>> /\ todo' = todo /\ called' = called /\ callSkipped' = callSkipped /\ phase' = phase
        /\ Opened' = Opened
    BY <1>7 DEF ChunkDone, backendVars, blockVars, clientVars, Opened
  <2> QED
    BY <2>1 DEF CalledAreShown
<1>8. CASE WriteMessageDelta \/ WriteMessageStop \/ WriteError
  <2>1. /\ pc \in {"finish", "stop", "fail"} /\ todo' = todo /\ called' = called /\ callSkipped' = callSkipped
        /\ Opened' = Opened
    BY <1>8 DEF WriteMessageDelta, WriteMessageStop, WriteError, backendVars, blockVars, Opened
  <2>2. phase # "cut"
    BY <2>1 DEF PhaseFits
  <2> QED
    BY <2>1, <2>2 DEF CalledAreShown
<1>9. CASE WriteFails
  BY <1>9 DEF WriteFails, CalledAreShown
<1>10. CASE UNCHANGED vars
  <2>1. UNCHANGED <<phase, called, callSkipped, toolBlock, todo, pc>>
    BY <1>10 DEF vars, backendVars, blockVars, clientVars
  <2> QED
    BY <2>1 DEF CalledAreShown, Opened
<1>11. ASSUME NEW tools \in SUBSET Tools, NEW reason \in FinishReasons \cup {""},
              SkipChunk(tools, reason)
       PROVE  CalledAreShown'
  <2>1. /\ pc' = pc /\ todo' = todo /\ phase' = phase /\ Opened' = Opened
        /\ called' = called \cup tools /\ callSkipped' = (callSkipped \/ tools # {})
    BY <1>11 DEF SkipChunk, blockVars, clientVars, Opened
  <2>2. ~callSkipped' => called' = called /\ ~callSkipped
    BY <2>1
  <2> QED
    BY <2>1, <2>2 DEF CalledAreShown
<1> QED
  BY <1>1, <1>2, <1>3, <1>4, <1>5, <1>6, <1>7, <1>8, <1>9, <1>10, <1>11
     DEF Next, Read, Write, Done

\* Whether the reason given to the client says "tool_use" depends on the calls.
LEMMA TranslatedReason ==
    ASSUME NEW reason, NEW calls \in BOOLEAN,
           reason \in {"tool_calls", "function_call"} => calls,
           reason \in {"stop", "content_filter"} => ~calls,
           TranslateStopReason(reason, calls) # "max_tokens"
    PROVE  TranslateStopReason(reason, calls) = "tool_use" <=> calls
<1>1. CASE reason \in {"stop", "content_filter"}
  BY <1>1 DEF TranslateStopReason
<1>2. CASE reason = "length"
  BY <1>2 DEF TranslateStopReason
<1>3. CASE reason \in {"tool_calls", "function_call"}
  BY <1>3 DEF TranslateStopReason
<1>4. CASE reason \notin {"stop", "content_filter", "length", "tool_calls",
                          "function_call"}
  BY <1>4 DEF TranslateStopReason
<1> QED
  BY <1>1, <1>2, <1>3, <1>4

\* The reason fits, whatever step is taken.
LEMMA ReasonInductive ==
    ASSUME TypeOK, ReasonFits, [Next]_vars
    PROVE  ReasonFits'
<1>1. ASSUME NEW c \in Chunks, NEW reason \in FinishReasons \cup {""}, ReadChunk(c, reason)
      PROVE  ReasonFits'
  <2>1. /\ upstream = "live" /\ finish' = reason /\ stopReason' = stopReason
        /\ called' = called \cup ToolsIn(c)
        /\ upstream' = IF reason # "" THEN "finished" ELSE "live"
        /\ sawToolCalls' = (sawToolCalls \/ ToolsIn(c) # {})
        /\ Truthful(reason, called') /\ callSkipped' = callSkipped
    BY <1>1 DEF ReadChunk
  <2>2. stopReason = "none"
    BY <2>1 DEF ReasonFits
  <2>3. ~callSkipped => (sawToolCalls' <=> called' # {})
    BY <2>1 DEF ReasonFits
  <2>4. /\ finish' \in {"tool_calls", "function_call"} => called' # {}
        /\ finish' \in {"stop", "content_filter"} => called' = {}
    BY <2>1 DEF Truthful
  <2> QED
    BY <2>1, <2>2, <2>3, <2>4 DEF ReasonFits
<1>2. ASSUME NEW u \in Usages, ReadUsage(u)
      PROVE  ReasonFits'
  <2>1. finish' = "" /\ UNCHANGED <<upstream, called, callSkipped, stopReason, sawToolCalls>>
    BY <1>2 DEF ReadUsage, backendVars
  <2> QED
    BY <2>1 DEF ReasonFits
<1>3. CASE ReadEnd \/ \E type \in ErrorTypes \cup {""} : ReadFailure(type)
  <2>1. upstream' = "closed" /\ UNCHANGED <<finish, called, callSkipped, stopReason, sawToolCalls>>
    BY <1>3 DEF ReadEnd, ReadFailure, resultVars
  <2> QED
    BY <2>1 DEF ReasonFits
<1>4. CASE ChunkDone
  <2>1. /\ UNCHANGED <<upstream, finish, called, callSkipped, sawToolCalls>>
        /\ stopReason' = IF finish = "" THEN stopReason
                         ELSE TranslateStopReason(finish, sawToolCalls)
    BY <1>4 DEF ChunkDone, backendVars
  <2>2. CASE finish = ""
    BY <2>1, <2>2 DEF ReasonFits
  <2>3. CASE finish # ""
    <3>1. /\ sawToolCalls \in BOOLEAN
          /\ ~callSkipped /\ finish \in {"tool_calls", "function_call"} => sawToolCalls
          /\ ~callSkipped /\ finish \in {"stop", "content_filter"} => ~sawToolCalls
      BY DEF ReasonFits, TypeOK
    <3>2. ~callSkipped /\ stopReason' # "max_tokens" => (stopReason' = "tool_use" <=> sawToolCalls)
      BY <2>1, <2>3, <3>1, TranslatedReason
    <3> QED
      BY <2>1, <2>3, <3>2 DEF ReasonFits
  <2> QED
    BY <2>2, <2>3
<1>5. CASE \/ WriteMessageStart \/ WriteBlockStop \/ WriteBlockStart \/ WriteDelta
           \/ SkipEmptyArguments
  <2>1. UNCHANGED <<upstream, finish, called, callSkipped, stopReason, sawToolCalls>>
    BY <1>5 DEF WriteMessageStart, WriteBlockStop, WriteBlockStart, WriteDelta,
                SkipEmptyArguments, backendVars, resultVars
  <2> QED
    BY <2>1 DEF ReasonFits
<1>6. CASE \/ WriteMessageDelta \/ WriteMessageStop \/ WriteError \/ WriteFails
           \/ UNCHANGED vars
  <2>1. UNCHANGED <<upstream, finish, called, callSkipped, stopReason, sawToolCalls>>
    BY <1>6 DEF WriteMessageDelta, WriteMessageStop, WriteError, WriteFails, vars,
                backendVars, resultVars
  <2> QED
    BY <2>1 DEF ReasonFits
<1>7. ASSUME NEW tools \in SUBSET Tools, NEW reason \in FinishReasons \cup {""},
             SkipChunk(tools, reason)
      PROVE  ReasonFits'
  <2>1. /\ upstream = "live" /\ UNCHANGED <<finish, stopReason, sawToolCalls>>
        /\ called' = called \cup tools /\ callSkipped' = (callSkipped \/ tools # {})
    BY <1>7 DEF SkipChunk, resultVars
  <2>2. stopReason = "none" /\ finish = ""
    BY <2>1 DEF ReasonFits
  <2>3. ~callSkipped' => called' = called /\ ~callSkipped
    BY <2>1
  <2> QED
    BY <2>1, <2>2, <2>3 DEF ReasonFits
<1> QED
  BY <1>1, <1>2, <1>3, <1>4, <1>5, <1>6, <1>7 DEF Next, Read, Write, Done

\* And so does what is reported.
LEMMA RecordedInductive ==
    ASSUME PhaseFits, Recorded, [Next]_vars
    PROVE  Recorded'
<1>1. ASSUME NEW u \in Usages, ReadUsage(u)
      PROVE  Recorded'
  <2>1. /\ usage' = TranslateUsage(u)
        /\ pc = "reading" /\ phase' = phase
    BY <1>1 DEF ReadUsage, Reading, clientVars
  <2>2. phase \notin {"settled", "stopped"}
    BY <2>1 DEF PhaseFits
  <2> QED
    BY <2>1, <2>2 DEF Recorded
<1>2. CASE WriteMessageDelta
  <2>1. /\ UNCHANGED <<usage, stopReason>>
        /\ stop' = IF stopReason = "none" THEN "end_turn" ELSE stopReason
        /\ reported' = FinalUsage(usage)
    BY <1>2 DEF WriteMessageDelta, resultVars
  <2> QED
    BY <2>1 DEF Recorded
<1>3. CASE WriteMessageStop \/ WriteError \/ WriteFails \/ UNCHANGED vars
  <2>1. /\ UNCHANGED <<usage, stopReason, stop, reported>>
        /\ phase' \in {"settled", "stopped"} => phase \in {"settled", "stopped"}
    BY <1>3 DEF WriteMessageStop, WriteError, WriteFails, vars, resultVars, clientVars, PhaseFits
  <2> QED
    BY <2>1 DEF Recorded
<1>4. CASE \/ \E c \in Chunks, reason \in FinishReasons \cup {""} : ReadChunk(c, reason)
           \/ \E tools \in SUBSET Tools, reason \in FinishReasons \cup {""} :
                 SkipChunk(tools, reason)
           \/ ReadEnd \/ \E type \in ErrorTypes \cup {""} : ReadFailure(type)
           \/ ChunkDone
  <2>1. pc \in {"reading", "chunk"} /\ UNCHANGED <<usage, phase>>
    BY <1>4 DEF ReadChunk, SkipChunk, ReadEnd, ReadFailure, ChunkDone, Reading,
                resultVars, clientVars
  <2>2. phase \notin {"settled", "stopped"}
    BY <2>1 DEF PhaseFits
  <2> QED
    BY <2>1, <2>2 DEF Recorded
<1>5. CASE \/ WriteMessageStart \/ WriteBlockStop \/ WriteBlockStart \/ WriteDelta
           \/ SkipEmptyArguments
  <2>1. UNCHANGED usage /\ phase' \notin {"settled", "stopped"}
    BY <1>5 DEF WriteMessageStart, WriteBlockStop, WriteBlockStart, WriteDelta,
                SkipEmptyArguments, InPart, resultVars, clientVars, PhaseFits
  <2> QED
    BY <2>1 DEF Recorded
<1> QED
  BY <1>1, <1>2, <1>3, <1>4, <1>5 DEF Next, Read, Write, Done

LEMMA AlwaysReported == Spec => [](CalledAreShown /\ ReasonFits /\ Recorded)
<1>1. Init => CalledAreShown /\ ReasonFits /\ Recorded
  <2> SUFFICES ASSUME Init PROVE CalledAreShown /\ ReasonFits /\ Recorded
    OBVIOUS
  <2>1. called = {} /\ Opened = {} /\ todo = <<>>
    BY DEF Init, Opened
  <2>2. CalledAreShown
    BY <2>1, NoTools DEF CalledAreShown
  <2>3. ReasonFits
    BY <2>1 DEF Init, ReasonFits
  <2>4. usage = TranslateUsage(NoUsage) /\ phase = "waiting"
    BY DEF Init, TranslateUsage, NoUsage
  <2> QED
    BY <2>2, <2>3, <2>4 DEF Recorded
<1>2. /\ TypeOK /\ BlocksInv /\ PhaseFits /\ CalledAreShown /\ ReasonFits /\ Recorded
      /\ [Next]_vars
      => (CalledAreShown /\ ReasonFits /\ Recorded)'
  BY CalledInductive, ReasonInductive, RecordedInductive
<1> QED
  BY <1>1, <1>2, AlwaysInPlace, AlwaysPhaseFits, PTL DEF Spec

\* A block of a tool call stands for each call, and for nothing else.
LEMMA ToolBlocks ==
    ASSUME TypeOK, BlocksInv
    PROVE  Opened # {} <=> \E b \in DOMAIN blocks : blocks[b].kind = "tool_use"
<1>1. ASSUME NEW t \in Opened
      PROVE  \E b \in DOMAIN blocks : blocks[b].kind = "tool_use"
  <2>1. toolBlock[t] \in DOMAIN blocks /\ blocks[toolBlock[t]].src = t
    BY <1>1 DEF Opened, BlocksInv, ToolsRecorded
  <2>2. KindOf(t) = "tool_use"
    BY <1>1, ConstantsOK DEF Opened, KindOf
  <2> QED
    BY <2>1, <2>2 DEF BlocksInv, KindsFit
<1>2. ASSUME NEW b \in DOMAIN blocks, blocks[b].kind = "tool_use"
      PROVE  Opened # {}
  <2>1. blocks \in Seq(Block)
    BY DEF TypeOK
  <2>2. blocks[b].src \in Tools
    <3>1. blocks[b].src \in Sources /\ KindOf(blocks[b].src) = "tool_use"
      BY <1>2, <2>1, BlockAt DEF Block, BlocksInv, KindsFit
    <3> QED
      BY <3>1 DEF KindOf, Sources
  <2>3. toolBlock[blocks[b].src] = b /\ b # NoBlock
    BY <2>1, <2>2, BlockAt DEF BlocksInv, ToolsRecorded, NoBlock
  <2> QED
    BY <2>2, <2>3 DEF Opened
<1> QED
  BY <1>1, <1>2

\* Cached tokens are told apart and none is lost; an estimate stands in for zero.
LEMMA UsageTold ==
    ASSUME NEW u \in [input : Nat, cached : Nat]
    PROVE  LET told == FinalUsage(TranslateUsage(u))
           IN  /\ EstimatedInput > 0 => told.input + told.cached > 0
               /\ u.input > 0 /\ u.cached <= u.input => told.input + told.cached = u.input
<1> DEFINE v == TranslateUsage(u)
<1>1. /\ v.input = IF u.cached = 0 THEN u.input
                   ELSE IF u.input > u.cached THEN u.input - u.cached ELSE 0
      /\ v.cached = u.cached
      /\ v \in [input : Nat, cached : Nat]
  BY TranslationTypes DEF TranslateUsage
<1> HIDE DEF v
<1>2. /\ FinalUsage(v).cached = v.cached
      /\ FinalUsage(v).input = IF v.input + v.cached = 0 THEN EstimatedInput ELSE v.input
  BY <1>1 DEF FinalUsage
<1>3. /\ EstimatedInput > 0 => FinalUsage(v).input + FinalUsage(v).cached > 0
      /\ u.input > 0 /\ u.cached <= u.input =>
            FinalUsage(v).input + FinalUsage(v).cached = u.input
  BY <1>1, <1>2, ConstantsOK
<1> QED
  BY <1>3 DEF v

-----------------------------------------------------------------------------
(* Theorems                                                                *)

\* Every variable keeps its type, for any tool calls, chunks and finish reasons.
THEOREM TypeCorrect == Spec => []TypeOK
BY AlwaysInPlace, PTL

\* Every fragment is in the block of its own source, however the arguments of
\* however many tool calls interleave (toolCall).
THEOREM OwnBlock == Spec => []FragmentsInOwnBlock
<1>1. BlocksInv => FragmentsInOwnBlock
  BY DEF BlocksInv
<1> QED
  BY <1>1, AlwaysInPlace, PTL

\* No tool call is shown twice (toolBlock).
THEOREM OneBlockPerCall == Spec => []OneBlockPerToolCall
<1>1. BlocksInv => OneBlockPerToolCall
  BY DEF BlocksInv, ToolsRecorded, OneBlockPerToolCall
<1> QED
  BY <1>1, AlwaysInPlace, PTL

\* Late fragments apart, each write is one event of a streamed response, in its
\* order and with one block open at a time, or invisible to the client.
THEOREM Implementation == Spec => ImplementsContract
<1>1. TypeOK /\ BlocksInv /\ PhaseFits /\ [Next]_vars => [Contract!Next]_(Contract!vars)
  BY StepImplements
<1> QED
  BY <1>1, InitImplements, AlwaysInPlace, AlwaysPhaseFits, PTL
     DEF Spec, ImplementsContract, Contract!Spec

\* Whenever the translator waits for a frame, the client holds every visible
\* fragment read so far, for chunks of any number of parts (choice).
THEOREM NothingIsLost == Spec => []NothingLost
<1>1. LedgerInv => NothingLost
  <2> SUFFICES ASSUME LedgerInv, pc = "reading", NEW s \in Sources, Visible(s)
               PROVE  Cardinality(Received(s)) = sent[s]
    BY DEF NothingLost
  <2>1. todo = <<>>
    BY DEF LedgerInv
  <2> QED
    BY <2>1, NothingOwed
<1> QED
  BY <1>1, AlwaysLedger, PTL

\* stop_reason says "tool_use" exactly when the response holds a tool call, unless
\* it was cut short by its length or by a chunk of a tool call that did not parse; the
\* usage told is the usage reported, or an estimate in place of zero
\* (TranslateStopReason, translateUsage, finish).
THEOREM ReportsAreTrue == Spec => []ReportIsTrue
<1>1. ASSUME TypeOK, BlocksInv, PhaseFits, CalledAreShown, ReasonFits, Recorded
      PROVE  ReportIsTrue
  <2>1. StopReasonMatchesContent
    <3> SUFFICES ASSUME phase \in {"settled", "stopped"},
                        stopReason \notin {"none", "max_tokens"}, ~callSkipped
                 PROVE  stop = "tool_use" <=>
                           \E b \in DOMAIN blocks : blocks[b].kind = "tool_use"
      BY DEF StopReasonMatchesContent
    <3>1. stop = stopReason /\ (stopReason = "tool_use" <=> called # {})
      BY <1>1 DEF Recorded, ReasonFits
    <3>2. called = Opened
      <4>1. pc # "chunk"
        BY <1>1 DEF PhaseFits
      <4> QED
        BY <1>1, <4>1, NoTools DEF CalledAreShown
    <3> QED
      BY <1>1, <3>1, <3>2, ToolBlocks
  <2>2. UsageIsReal
    <3> SUFFICES ASSUME phase \in {"settled", "stopped"}
                 PROVE  /\ EstimatedInput > 0 => reported.input + reported.cached > 0
                        /\ \E u \in Usages \cup {NoUsage} :
                              /\ usage = TranslateUsage(u)
                              /\ u.input > 0 /\ u.cached <= u.input =>
                                    reported.input + reported.cached = u.input
      BY DEF UsageIsReal
    <3>1. PICK u \in Usages \cup {NoUsage} : usage = TranslateUsage(u)
      BY <1>1 DEF Recorded
    <3>2. u \in [input : Nat, cached : Nat]
      BY ConstantsOK DEF NoUsage
    <3>3. reported = FinalUsage(TranslateUsage(u))
      BY <1>1, <3>1 DEF Recorded
    <3> QED
      BY <3>1, <3>2, <3>3, UsageTold
  <2> QED
    BY <2>1, <2>2 DEF ReportIsTrue
<1> QED
  BY <1>1, AlwaysInPlace, AlwaysPhaseFits, AlwaysReported, PTL

=============================================================================
