-------------------------- MODULE CodexStreamProofs --------------------------
(***************************************************************************)
(* Theorems about CodexStream, for any set of items, types and keys.       *)
(***************************************************************************)
EXTENDS CodexStream, SequenceTheorems, FiniteSetTheorems, TLAPS

\* What the proofs need to know of a step that touches the client's blocks:
\* the sequence it leaves, position by position.

\* Appending a block adds one position and leaves the others alone.
LEMMA AppendedBlock ==
    ASSUME NEW s \in Seq(Contract!Block), NEW x \in Contract!Block
    PROVE  /\ Append(s, x) \in Seq(Contract!Block)
           /\ Len(Append(s, x)) = Len(s) + 1
           /\ DOMAIN Append(s, x) = 1..(Len(s) + 1)
           /\ Append(s, x)[Len(s) + 1] = x
           /\ \A b \in 1..Len(s) : Append(s, x)[b] = s[b]
  BY AppendProperties

\* Replacing a block by another one changes that position only.
LEMMA ReplacedBlock ==
    ASSUME NEW s \in Seq(Contract!Block), NEW b \in DOMAIN s,
           NEW x \in Contract!Block
    PROVE  /\ [s EXCEPT ![b] = x] \in Seq(Contract!Block)
           /\ Len([s EXCEPT ![b] = x]) = Len(s)
           /\ DOMAIN [s EXCEPT ![b] = x] = DOMAIN s
           /\ \A c \in DOMAIN s :
                 [s EXCEPT ![b] = x][c] = IF c = b THEN x ELSE s[c]
  BY ExceptSeq, LenProperties

\* A position of the client's sequence holds a block.
LEMMA BlockAt ==
    ASSUME NEW s \in Seq(Contract!Block), NEW b \in DOMAIN s
    PROVE  s[b] \in Contract!Block
  BY ElementOfSeq, LenProperties

\* No position is 0, the mark of an output index without a block.
LEMMA PositionsPositive ==
    ASSUME NEW s \in Seq(Contract!Block), NEW b \in DOMAIN s
    PROVE  b \in Nat /\ b # NoBlock
  BY LenProperties DEF NoBlock

\* A block that is closed or that receives a fragment is still a block.
LEMMA BlockUpdates ==
    ASSUME NEW x \in Contract!Block, NEW f \in Contract!Fragment
    PROVE  /\ [x EXCEPT !.open = FALSE] \in Contract!Block
           /\ [x EXCEPT !.frags = Append(@, f)] \in Contract!Block
  BY AppendProperties DEF Contract!Block

\* The types the model gives to a new block and to a delta are the contract's.
LEMMA ModelTypes ==
    ASSUME NEW i \in Items
    PROVE  /\ BlockKind(i) \in Contract!BlockKinds
           /\ DeltaType(i) \in Contract!DeltaTypes
           /\ DeltaType(i) \in Contract!DeltasOf(BlockKind(i))
           /\ [src |-> i, kind |-> BlockKind(i), open |-> TRUE, frags |-> <<>>]
                 \in Contract!Block
           /\ [src |-> i, type |-> DeltaType(i)] \in Contract!Fragment
           /\ [src |-> i, type |-> "signature_delta"] \in Contract!Fragment
  <1>1. ItemType[i] \in ItemTypes
    BY ConstantsOK
  <1>2. BlockKind(i) \in Contract!BlockKinds
    BY <1>1 DEF BlockKind, ItemTypes, Contract!BlockKinds
  <1>3. DeltaType(i) \in Contract!DeltaTypes
    BY <1>1 DEF DeltaType, ItemTypes, Contract!DeltaTypes
  <1>4. DeltaType(i) \in Contract!DeltasOf(BlockKind(i))
    BY <1>1 DEF DeltaType, BlockKind, ItemTypes, Contract!DeltasOf
  <1>5. [src |-> i, kind |-> BlockKind(i), open |-> TRUE, frags |-> <<>>]
           \in Contract!Block
    BY <1>2, EmptySeq DEF Contract!Block
  <1>6. QED
    BY <1>2, <1>3, <1>4, <1>5 DEF Contract!Fragment, Contract!DeltaTypes

\* Counting one more below the bound stays within it.
LEMMA BoundedStep ==
    ASSUME NEW m \in Nat, NEW n \in 0..m, n < m
    PROVE  n + 1 \in 0..m
  OBVIOUS

-----------------------------------------------------------------------------
(* Type correctness.                                                       *)

\* The initial values have their types.
LEMMA InitType == Init => TypeOK
  <1> SUFFICES ASSUME Init PROVE TypeOK
    OBVIOUS
  <1>1. blocks \in Seq(Contract!Block)
    BY EmptySeq DEF Init
  <1>2. cur \in Items
    BY ConstantsOK DEF Init
  <1>3. sent \in [Items -> 0..MaxDeltas] /\ item \in [Items -> {"pending", "open", "done"}]
    <2>1. MaxDeltas \in Nat
      BY ConstantsOK
    <2>2. 0 \in 0..MaxDeltas
      BY <2>1
    <2>3. sent = [i \in Items |-> 0]
      BY DEF Init
    <2>4. item = [i \in Items |-> "pending"]
      BY DEF Init
    <2>5. sent \in [Items -> 0..MaxDeltas]
      BY <2>2, <2>3
    <2>6. QED
      BY <2>4, <2>5
  <1>4. blockFor \in [Keys -> Nat]
    BY DEF Init, NoBlock
  <1>5. usage \in [input : Nat, cached : Nat] /\ reported \in [input : Nat, cached : Nat]
    BY DEF Init, NoUsage
  <1>6. QED
    BY <1>1, <1>2, <1>3, <1>4, <1>5 DEF Init, TypeOK, Phases, Contract!Phases

\* Reading a frame keeps every type.
LEMMA ReadType == TypeOK /\ Read => TypeOK'
  <1> SUFFICES ASSUME TypeOK, Read PROVE TypeOK'
    OBVIOUS
  <1> USE DEF TypeOK, Handlers, Reading, backendVars, blockVars, resultVars,
              clientVars
  <1>1. CASE ReadCreated
    BY <1>1 DEF ReadCreated
  <1>2. ASSUME NEW i \in Items, ReadItemAdded(i) PROVE TypeOK'
    BY <1>2 DEF ReadItemAdded, Announces
  <1>3. ASSUME NEW i \in Items, ReadDelta(i) PROVE TypeOK'
    <2>1. sent' \in [Items -> 0..MaxDeltas]
      <3>0. MaxDeltas \in Nat
        BY ConstantsOK
      <3>1. sent[i] \in 0..MaxDeltas
        OBVIOUS
      <3>2. sent[i] < MaxDeltas
        BY <1>3 DEF ReadDelta, Streams
      <3>3. sent[i] + 1 \in 0..MaxDeltas
        BY <3>0, <3>1, <3>2, BoundedStep
      <3>4. QED
        BY <1>3, <3>3 DEF ReadDelta, Streams
    <2>2. pc' \in {"reading", "delta", "openDelta"}
      BY <1>3 DEF ReadDelta
    <2>3. QED
      BY <1>3, <2>1, <2>2 DEF ReadDelta, Streams
  <1>4. ASSUME NEW i \in Items, NEW encrypted \in BOOLEAN,
               ReadItemDone(i, encrypted)
        PROVE  TypeOK'
    <2>1. pc' \in {"reading", "sign", "close"}
      BY <1>4 DEF ReadItemDone
    <2>2. QED
      BY <1>4, <2>1 DEF ReadItemDone, Completes
  <1>5. ASSUME NEW u \in Usages, ReadCompleted(u) \/ ReadIncomplete(u)
        PROVE  TypeOK'
    BY <1>5, ConstantsOK DEF ReadCompleted, ReadIncomplete, Ends
  <1>6. ASSUME NEW code \in UpstreamCodes, ReadFailed(code) PROVE TypeOK'
    BY <1>6, ConstantsOK DEF ReadFailed, Ends
  <1>7. CASE ReadEOF
    BY <1>7 DEF ReadEOF
  <1>8. CASE ReadError
    BY <1>8 DEF ReadError
  <1>9. CASE SkipFrame
    BY <1>9 DEF SkipFrame, Announces, Completes
  <1>10. QED
    BY <1>1, <1>2, <1>3, <1>4, <1>5, <1>6, <1>7, <1>8, <1>9 DEF Read

\* What closing the block of a key does to the translator's map and to the
\* client's blocks.
LEMMA StopBlockEffect ==
    ASSUME TypeOK, NEW k \in Keys, StopBlock(k)
    PROVE  /\ blockFor' \in [Keys -> Nat]
           /\ blocks' \in Seq(Contract!Block)
           /\ Len(blocks') = Len(blocks)
           /\ DOMAIN blocks' = DOMAIN blocks
           /\ \A b \in DOMAIN blocks :
                 blocks'[b] = IF b = blockFor[k]
                              THEN [blocks[b] EXCEPT !.open = FALSE]
                              ELSE blocks[b]
  <1>1. blockFor' \in [Keys -> Nat]
    BY DEF TypeOK, StopBlock, NoBlock
  <1>2. CASE blockFor[k] \notin DOMAIN blocks
    <2>1. blocks' = blocks
      BY <1>2, LenProperties DEF StopBlock, TypeOK
    <2>2. QED
      BY <1>1, <1>2, <2>1 DEF TypeOK
  <1>3. CASE blockFor[k] \in DOMAIN blocks
    <2> DEFINE x == [blocks[blockFor[k]] EXCEPT !.open = FALSE]
    <2>1. blocks[blockFor[k]] \in Contract!Block
      BY <1>3, BlockAt DEF TypeOK
    <2>2. x \in Contract!Block
      BY <2>1 DEF Contract!Block
    <2>3. blocks' = [blocks EXCEPT ![blockFor[k]] = x]
      BY <1>3 DEF StopBlock
    <2> HIDE DEF x
    <2>4. /\ blocks' \in Seq(Contract!Block)
          /\ Len(blocks') = Len(blocks)
          /\ DOMAIN blocks' = DOMAIN blocks
          /\ \A b \in DOMAIN blocks :
                blocks'[b] = IF b = blockFor[k] THEN x ELSE blocks[b]
      BY <1>3, <2>2, <2>3, ReplacedBlock DEF TypeOK
    <2>5. QED
      BY <1>1, <2>4 DEF x
  <1>4. QED
    BY <1>2, <1>3

\* What sending the client a fragment of item cur for block b does.
LEMMA DeliverEffect ==
    ASSUME TypeOK, NEW b, NEW type \in Contract!DeltaTypes, Deliver(b, type)
    PROVE  /\ blocks' \in Seq(Contract!Block)
           /\ Len(blocks') = Len(blocks)
           /\ DOMAIN blocks' = DOMAIN blocks
           /\ \A c \in DOMAIN blocks :
                 blocks'[c] = IF c = b /\ OpenAtClient(b)
                              THEN [blocks[c] EXCEPT !.frags =
                                       Append(@, [src |-> cur, type |-> type])]
                              ELSE blocks[c]
           /\ phase' = IF OpenAtClient(b) THEN phase ELSE "confused"
  <1>1. CASE ~OpenAtClient(b)
    BY <1>1 DEF Deliver, TypeOK
  <1>2. CASE OpenAtClient(b)
    <2> DEFINE x == [blocks[b] EXCEPT !.frags =
                        Append(@, [src |-> cur, type |-> type])]
    <2>1. b \in DOMAIN blocks
      BY <1>2 DEF OpenAtClient
    <2>2. blocks[b] \in Contract!Block
      BY <2>1, BlockAt DEF TypeOK
    <2>3. x \in Contract!Block
      <3>1. [src |-> cur, type |-> type] \in Contract!Fragment
        BY DEF TypeOK, Contract!Fragment
      <3>2. QED
        BY <2>2, <3>1, BlockUpdates
    <2>4. blocks' = [blocks EXCEPT ![b] = x] /\ phase' = phase
      BY <1>2 DEF Deliver
    <2> HIDE DEF x
    <2>5. /\ blocks' \in Seq(Contract!Block)
          /\ Len(blocks') = Len(blocks)
          /\ DOMAIN blocks' = DOMAIN blocks
          /\ \A c \in DOMAIN blocks :
                blocks'[c] = IF c = b THEN x ELSE blocks[c]
      BY <2>1, <2>3, <2>4, ReplacedBlock DEF TypeOK
    <2>6. QED
      BY <1>2, <2>4, <2>5 DEF x
  <1>3. QED
    BY <1>1, <1>2

\* What opening a block for item cur does.
LEMMA BlockStartEffect ==
    ASSUME TypeOK, WriteBlockStart, nextIndex = Len(blocks) + 1
    PROVE  /\ blocks' \in Seq(Contract!Block)
           /\ Len(blocks') = nextIndex
           /\ DOMAIN blocks' = DOMAIN blocks \cup {nextIndex}
           /\ nextIndex \notin DOMAIN blocks
           /\ \A b \in DOMAIN blocks : blocks'[b] = blocks[b]
           /\ blocks'[nextIndex] = [src |-> cur, kind |-> BlockKind(cur),
                                    open |-> TRUE, frags |-> <<>>]
  <1> DEFINE x == [src |-> cur, kind |-> BlockKind(cur), open |-> TRUE,
                   frags |-> <<>>]
  <1>0. blocks \in Seq(Contract!Block)
    BY DEF TypeOK
  <1>1. x \in Contract!Block
    BY ModelTypes DEF TypeOK
  <1>2. blocks' = Append(blocks, x)
    BY DEF WriteBlockStart
  <1>3. DOMAIN blocks = 1..Len(blocks) /\ Len(blocks) \in Nat
    BY LenProperties DEF TypeOK
  <1> HIDE DEF x
  <1>4. /\ blocks' \in Seq(Contract!Block)
        /\ Len(blocks') = Len(blocks) + 1
        /\ DOMAIN blocks' = 1..(Len(blocks) + 1)
        /\ blocks'[Len(blocks) + 1] = x
        /\ \A b \in 1..Len(blocks) : blocks'[b] = blocks[b]
    BY <1>0, <1>1, <1>2, AppendedBlock
  <1>5. QED
    BY <1>3, <1>4 DEF x

\* Writing an event keeps every type. TrackingInv gives the position a key
\* maps to.
LEMMA WriteType == TypeOK /\ TrackingInv /\ Write => TypeOK'
  <1> SUFFICES ASSUME TypeOK, TrackingInv, Write PROVE TypeOK'
    OBVIOUS
  <1> DEFINE Rest == /\ upstream' \in {"new", "live", "ended", "closed"}
                     /\ item' \in [Items -> {"pending", "open", "done"}]
                     /\ sent' \in [Items -> 0..MaxDeltas]
                     /\ cur' \in Items
                     /\ usage' \in [input : Nat, cached : Nat]
                     /\ stopReason' \in {"none", "max_tokens"}
                     /\ sawToolCall' \in BOOLEAN
                     /\ errKind' \in UpstreamCodes \cup {"", "api_error"}
  <1>1. Rest
    BY DEF TypeOK, Write, WriteMessageStart, WriteBlockStart, WriteDelta,
           WriteSignature, WriteBlockStop, CloseLowest, WriteMessageDelta,
           WriteMessageStop, WriteError, WriteFails, backendVars, resultVars
  <1>2. phase' \in Phases
    BY DEF TypeOK, Write, WriteMessageStart, WriteBlockStart, WriteDelta,
           WriteSignature, WriteBlockStop, CloseLowest, WriteMessageDelta,
           WriteMessageStop, WriteError, WriteFails, Enter, Deliver,
           Phases, Contract!Phases
  <1>3. CASE WriteMessageStart \/ WriteMessageStop \/ WriteError \/ WriteFails
    <2>1. /\ pc' \in Handlers \cup {"reading", "returned"}
          /\ started' \in BOOLEAN
          /\ UNCHANGED <<blockFor, curIndex, nextIndex, blocks, stop, reported>>
      BY <1>3 DEF TypeOK, WriteMessageStart, WriteMessageStop, WriteError,
                  WriteFails, blockVars, Handlers
    <2>2. QED
      BY <1>1, <1>2, <2>1 DEF TypeOK
  <1>4. CASE WriteBlockStart
    <2>1. blocks' \in Seq(Contract!Block)
      BY <1>4, BlockStartEffect DEF TrackingInv
    <2>2. /\ pc' \in Handlers \cup {"reading", "returned"}
          /\ UNCHANGED <<started, stop, reported>>
      BY <1>4 DEF TypeOK, WriteBlockStart, Handlers
    <2>3. nextIndex \in Nat /\ blockFor \in [Keys -> Nat]
      BY DEF TypeOK
    <2>4. curIndex' \in Nat /\ nextIndex' \in Nat
      BY <1>4, <2>3 DEF WriteBlockStart
    <2>5. blockFor' \in [Keys -> Nat]
      BY <1>4, <2>3 DEF WriteBlockStart
    <2>6. QED
      BY <1>1, <1>2, <2>1, <2>2, <2>4, <2>5 DEF TypeOK
  <1>5. CASE WriteDelta \/ WriteSignature
    <2>1. blocks' \in Seq(Contract!Block)
      <3>1. DeltaType(cur) \in Contract!DeltaTypes
        BY ModelTypes DEF TypeOK
      <3>2. "signature_delta" \in Contract!DeltaTypes
        BY DEF Contract!DeltaTypes
      <3>3. QED
        BY <1>5, <3>1, <3>2, DeliverEffect DEF WriteDelta, WriteSignature
    <2>2. /\ pc' \in Handlers \cup {"reading", "returned"}
          /\ UNCHANGED <<started, blockFor, curIndex, nextIndex, stop, reported>>
      BY <1>5 DEF TypeOK, WriteDelta, WriteSignature, blockVars, Handlers
    <2>3. QED
      BY <1>1, <1>2, <2>1, <2>2 DEF TypeOK
  <1>6. CASE WriteBlockStop
    <2>1. Key[cur] \in Keys
      BY ConstantsOK DEF TypeOK
    <2>2. blockFor' \in [Keys -> Nat] /\ blocks' \in Seq(Contract!Block)
      BY <1>6, <2>1, StopBlockEffect DEF WriteBlockStop
    <2>3. /\ pc' \in Handlers \cup {"reading", "returned"}
          /\ UNCHANGED <<started, curIndex, nextIndex, stop, reported>>
      BY <1>6 DEF TypeOK, WriteBlockStop
    <2>4. QED
      BY <1>1, <1>2, <2>2, <2>3 DEF TypeOK
  <1>7. CASE CloseLowest
    <2>1. blockFor' \in [Keys -> Nat] /\ blocks' \in Seq(Contract!Block)
      <3>1. PICK k \in Keys : StopBlock(k)
        BY <1>7 DEF CloseLowest, OpenKeys
      <3>2. QED
        BY <3>1, StopBlockEffect
    <2>2. UNCHANGED <<pc, started, curIndex, nextIndex, stop, reported>>
      BY <1>7 DEF CloseLowest
    <2>3. QED
      BY <1>1, <1>2, <2>1, <2>2 DEF TypeOK
  <1>8. CASE WriteMessageDelta
    <2>1. stop' \in Contract!StopReasons
      BY <1>8 DEF TypeOK, WriteMessageDelta, StopOf, Contract!StopReasons
    <2>2. reported' \in [input : Nat, cached : Nat]
      <3>1. usage.input \in Nat /\ usage.cached \in Nat
        BY DEF TypeOK
      <3>2. EstimatedInput \in Nat
        BY ConstantsOK
      <3>3. FinalUsage(usage) \in [input : Nat, cached : Nat]
        BY <3>1, <3>2 DEF FinalUsage
      <3>4. QED
        BY <1>8, <3>3 DEF WriteMessageDelta
    <2>3. /\ pc' \in Handlers \cup {"reading", "returned"}
          /\ UNCHANGED <<started, blockFor, curIndex, nextIndex, blocks>>
      BY <1>8 DEF TypeOK, WriteMessageDelta, blockVars, Handlers
    <2>4. QED
      BY <1>1, <1>2, <2>1, <2>2, <2>3 DEF TypeOK
  <1>9. QED
    BY <1>3, <1>4, <1>5, <1>6, <1>7, <1>8 DEF Write

-----------------------------------------------------------------------------
(* The translator's map and the client's open blocks.                      *)

\* No block is open and no key is mapped at the start.
LEMMA InitTracking == Init => TrackingInv
  <1> SUFFICES ASSUME Init PROVE TrackingInv
    OBVIOUS
  <1>1. OpenKeys = {} /\ \A k \in Keys : blockFor[k] = NoBlock
    BY DEF Init, OpenKeys
  <1>2. Len(blocks) = 0 /\ DOMAIN blocks = {}
    <2>1. blocks = <<>> /\ <<>> \in Seq(Contract!Block) /\ Len(<<>>) = 0
      BY EmptySeq DEF Init
    <2>2. DOMAIN blocks = 1..Len(blocks)
      BY <2>1, LenProperties
    <2>3. QED
      BY <2>1, <2>2
  <1>3. MapMatches
    BY <1>1, <1>2 DEF MapMatches
  <1>4. pc = "reading" /\ phase = "waiting" /\ nextIndex = 1
    BY DEF Init
  <1>5. QED
    BY <1>1, <1>2, <1>3, <1>4 DEF TrackingInv

\* Reading a frame touches neither the map nor the client.
LEMMA ReadTracking == TypeOK /\ TrackingInv /\ Read => TrackingInv'
  <1> SUFFICES ASSUME TypeOK, TrackingInv, Read PROVE TrackingInv'
    OBVIOUS
  <1>1. UNCHANGED <<blockFor, nextIndex, blocks, phase>>
    BY DEF Read, ReadCreated, ReadItemAdded, ReadDelta, ReadItemDone,
           ReadCompleted, ReadIncomplete, ReadFailed, ReadEOF, ReadError,
           SkipFrame, blockVars, clientVars
  <1>2. MapMatches' /\ OpenKeys' = OpenKeys
    BY <1>1 DEF TrackingInv, MapMatches, OpenKeys, OpenAtClient
  <1>3. pc = "reading" /\ pc' # "stop"
    BY DEF Read, ReadCreated, ReadItemAdded, ReadDelta, ReadItemDone,
           ReadCompleted, ReadIncomplete, ReadFailed, ReadEOF, ReadError,
           SkipFrame, Reading
  <1>4. phase \notin {"settled", "stopped", "errored"}
    BY <1>3 DEF TrackingInv
  <1>5. pc' \in {"open", "openDelta"} => ~HasBlock(cur)'
    BY <1>1 DEF Read, ReadCreated, ReadItemAdded, ReadDelta, ReadItemDone,
           ReadCompleted, ReadIncomplete, ReadFailed, ReadEOF, ReadError,
           SkipFrame, Reading, HasBlock
  <1>6. pc' \in {"delta", "close"} => HasBlock(cur)'
    BY <1>1 DEF Read, ReadCreated, ReadItemAdded, ReadDelta, ReadItemDone,
           ReadCompleted, ReadIncomplete, ReadFailed, ReadEOF, ReadError,
           SkipFrame, Reading, HasBlock
  <1>7. QED
    BY <1>1, <1>2, <1>3, <1>4, <1>5, <1>6 DEF TrackingInv

\* Closing the block of a key keeps the map and the client in agreement.
LEMMA StopBlockTracking ==
    ASSUME TypeOK, TrackingInv, NEW k \in OpenKeys, StopBlock(k)
    PROVE  /\ MapMatches'
           /\ OpenKeys' = OpenKeys \ {k}
           /\ \A l \in OpenKeys' : blockFor'[l] = blockFor[l]
           /\ Len(blocks') = Len(blocks)
  <1>1. k \in Keys /\ blockFor[k] # NoBlock
    BY DEF OpenKeys
  <1>2. /\ Len(blocks') = Len(blocks)
        /\ DOMAIN blocks' = DOMAIN blocks
        /\ \A b \in DOMAIN blocks :
              blocks'[b] = IF b = blockFor[k]
                           THEN [blocks[b] EXCEPT !.open = FALSE]
                           ELSE blocks[b]
    BY <1>1, StopBlockEffect
  <1>3. \A l \in Keys : blockFor'[l] = IF l = k THEN NoBlock ELSE blockFor[l]
    BY DEF StopBlock, TypeOK
  <1>4. OpenKeys' = OpenKeys \ {k}
    BY <1>3 DEF OpenKeys
  <1>5. ASSUME NEW l \in Keys, blockFor'[l] # NoBlock
        PROVE  OpenAtClient(blockFor[l])' /\ blockFor'[l] = blockFor[l]
    <2>1. l # k /\ blockFor'[l] = blockFor[l]
      BY <1>3, <1>5
    <2>2. blockFor[l] # blockFor[k]
      BY <1>5, <2>1 DEF TrackingInv, OpenKeys
    <2>3. blockFor[l] \in DOMAIN blocks /\ blocks[blockFor[l]].open
      BY <1>5, <2>1 DEF TrackingInv, MapMatches, OpenAtClient
    <2>4. QED
      BY <1>2, <2>1, <2>2, <2>3 DEF OpenAtClient
  <1>6. ASSUME NEW b \in DOMAIN blocks', blocks'[b].open
        PROVE  \E l \in Keys : blockFor'[l] = b
    <2>1. b \in DOMAIN blocks /\ b # blockFor[k]
      <3>1. b \in DOMAIN blocks
        BY <1>2
      <3>2. ASSUME b = blockFor[k] PROVE FALSE
        <4>1. blocks[b] \in Contract!Block
          BY <3>1, BlockAt DEF TypeOK
        <4>2. [blocks[b] EXCEPT !.open = FALSE].open = FALSE
          BY <4>1 DEF Contract!Block
        <4>3. QED
          BY <1>2, <1>6, <3>1, <3>2, <4>2
      <3>3. QED
        BY <3>1, <3>2
    <2>2. blocks[b].open
      BY <1>2, <1>6, <2>1
    <2>3. PICK l \in Keys : blockFor[l] = b
      BY <2>1, <2>2 DEF TrackingInv, MapMatches
    <2>4. QED
      BY <1>3, <2>1, <2>3
  <1>7. QED
    BY <1>2, <1>4, <1>5, <1>6 DEF MapMatches, OpenKeys, OpenAtClient

\* Writing an event opens or closes a block on both sides at once.
LEMMA WriteTracking == TypeOK /\ TrackingInv /\ Write => TrackingInv'
  <1> SUFFICES ASSUME TypeOK, TrackingInv, Write PROVE TrackingInv'
    OBVIOUS
  <1>0. Key[cur] \in Keys
    BY ConstantsOK DEF TypeOK
  <1>1. CASE WriteMessageStart
    BY <1>1 DEF TrackingInv, WriteMessageStart, Enter, MapMatches,
                OpenAtClient, OpenKeys, HasBlock
  <1>2. CASE WriteBlockStart
    <2>1. /\ Len(blocks') = nextIndex
          /\ DOMAIN blocks' = DOMAIN blocks \cup {nextIndex}
          /\ nextIndex \notin DOMAIN blocks
          /\ \A b \in DOMAIN blocks : blocks'[b] = blocks[b]
          /\ blocks'[nextIndex].open
      BY <1>2, BlockStartEffect DEF TrackingInv
    <2>2. /\ \A l \in Keys : blockFor'[l] =
                IF l = Key[cur] THEN nextIndex ELSE blockFor[l]
          /\ nextIndex' = nextIndex + 1
          /\ pc' \in {"delta", "reading"}
          /\ UNCHANGED <<cur, phase>>
      BY <1>2 DEF WriteBlockStart, TypeOK
    <2>3. nextIndex \in Nat \ {0}
      <3>1. Len(blocks) \in Nat
        BY LenProperties DEF TypeOK
      <3>2. QED
        BY <3>1 DEF TrackingInv
    <2>4. \A l \in OpenKeys : blockFor[l] \in DOMAIN blocks /\ blockFor[l] # nextIndex
      BY <2>1 DEF TrackingInv, MapMatches, OpenAtClient, OpenKeys
    <2>5. OpenKeys' = OpenKeys \cup {Key[cur]}
      BY <1>0, <2>2, <2>3 DEF OpenKeys, NoBlock
    <2>6. blockFor[Key[cur]] = NoBlock
      BY <1>2 DEF TrackingInv, WriteBlockStart, HasBlock
    <2>7. MapMatches'
      <3>1. ASSUME NEW l \in Keys, blockFor'[l] # NoBlock
            PROVE  OpenAtClient(blockFor[l])'
        <4>1. CASE l = Key[cur]
          BY <2>1, <2>2, <4>1 DEF OpenAtClient
        <4>2. CASE l # Key[cur]
          BY <2>1, <2>2, <3>1, <4>2
          DEF OpenAtClient, TrackingInv, MapMatches
        <4>3. QED
          BY <4>1, <4>2
      <3>2. ASSUME NEW b \in DOMAIN blocks', blocks'[b].open
            PROVE  \E l \in Keys : blockFor'[l] = b
        <4>1. CASE b = nextIndex
          BY <1>0, <2>2, <4>1
        <4>2. CASE b # nextIndex
          <5>1. b \in DOMAIN blocks /\ blocks[b].open
            BY <2>1, <3>2, <4>2
          <5>2. PICK l \in Keys : blockFor[l] = b
            BY <5>1 DEF TrackingInv, MapMatches
          <5>3. b # NoBlock
            BY <5>1, PositionsPositive DEF TypeOK
          <5>4. QED
            BY <2>2, <2>6, <5>2, <5>3
        <4>3. QED
          BY <4>1, <4>2
      <3>3. QED
        BY <3>1, <3>2 DEF MapMatches, OpenAtClient
    <2>8. \A l, m \in OpenKeys' : blockFor'[l] = blockFor'[m] => l = m
      <3>1. SUFFICES ASSUME NEW l \in OpenKeys', NEW m \in OpenKeys',
                            blockFor'[l] = blockFor'[m]
                     PROVE  l = m
        OBVIOUS
      <3>2. l \in Keys /\ m \in Keys
        BY DEF OpenKeys
      <3>3. CASE l = Key[cur]
        BY <2>2, <2>4, <2>5, <3>1, <3>2, <3>3
      <3>4. CASE m = Key[cur]
        BY <2>2, <2>4, <2>5, <3>1, <3>2, <3>4
      <3>5. CASE l # Key[cur] /\ m # Key[cur]
        BY <2>2, <2>5, <3>1, <3>2, <3>5 DEF TrackingInv
      <3>6. QED
        BY <3>3, <3>4, <3>5
    <2>9. nextIndex' = Len(blocks') + 1
      BY <2>1, <2>2
    <2>10. pc' = "delta" => HasBlock(cur)'
      BY <1>0, <2>2, <2>3 DEF HasBlock, NoBlock
    <2>11. phase' \notin {"settled", "stopped", "errored"}
      BY <1>2, <2>2 DEF TrackingInv, WriteBlockStart
    <2>12. QED
      BY <2>2, <2>7, <2>8, <2>9, <2>10, <2>11 DEF TrackingInv
  <1>3. CASE WriteDelta \/ WriteSignature
    <2>0. PICK type \in Contract!DeltaTypes : Deliver(Target(cur), type)
      <3>1. DeltaType(cur) \in Contract!DeltaTypes
        BY ModelTypes DEF TypeOK
      <3>2. "signature_delta" \in Contract!DeltaTypes
        BY DEF Contract!DeltaTypes
      <3>3. QED
        BY <1>3, <3>1, <3>2 DEF WriteDelta, WriteSignature
    <2> DEFINE b == Target(cur)
    <2>1. Deliver(b, type)
      BY <2>0
    <2> HIDE DEF b
    <2>2. /\ Len(blocks') = Len(blocks)
          /\ DOMAIN blocks' = DOMAIN blocks
          /\ \A c \in DOMAIN blocks :
                blocks'[c] = IF c = b /\ OpenAtClient(b)
                             THEN [blocks[c] EXCEPT !.frags =
                                      Append(@, [src |-> cur, type |-> type])]
                             ELSE blocks[c]
          /\ phase' \in {phase, "confused"}
      BY <2>1, DeliverEffect
    <2>3. \A c \in DOMAIN blocks : blocks'[c].open = blocks[c].open
      <3>1. SUFFICES ASSUME NEW c \in DOMAIN blocks
                     PROVE  blocks'[c].open = blocks[c].open
        OBVIOUS
      <3>2. blocks[c] \in Contract!Block
        BY BlockAt DEF TypeOK
      <3>3. QED
        BY <2>2, <3>2 DEF Contract!Block
    <2>4. /\ UNCHANGED <<blockFor, nextIndex, cur>>
          /\ pc \in {"delta", "sign"}
          /\ pc' \in {"reading", "close"}
          /\ pc' = "close" => HasBlock(cur)
      BY <1>3 DEF WriteDelta, WriteSignature, blockVars
    <2>5. MapMatches'
      BY <2>2, <2>3, <2>4 DEF TrackingInv, MapMatches, OpenAtClient
    <2>6. OpenKeys' = OpenKeys /\ HasBlock(cur)' = HasBlock(cur)
      BY <2>4 DEF OpenKeys, HasBlock
    <2>7. phase' \notin {"settled", "stopped", "errored"}
      BY <2>2, <2>4 DEF TrackingInv
    <2>8. QED
      BY <2>2, <2>4, <2>5, <2>6, <2>7 DEF TrackingInv
  <1>4. CASE WriteBlockStop
    <2>1. Key[cur] \in OpenKeys
      BY <1>0, <1>4 DEF TrackingInv, WriteBlockStop, HasBlock, OpenKeys
    <2>2. /\ StopBlock(Key[cur])
          /\ pc = "close" /\ pc' = "reading"
          /\ UNCHANGED <<cur, nextIndex, phase>>
      BY <1>4 DEF WriteBlockStop
    <2>3. /\ MapMatches'
          /\ OpenKeys' \subseteq OpenKeys
          /\ \A l \in OpenKeys' : blockFor'[l] = blockFor[l]
          /\ Len(blocks') = Len(blocks)
      BY <2>1, <2>2, StopBlockTracking
    <2>4. phase' \notin {"settled", "stopped", "errored"}
      BY <2>2 DEF TrackingInv
    <2>5. QED
      BY <2>2, <2>3, <2>4 DEF TrackingInv
  <1>5. CASE CloseLowest
    <2>1. PICK k \in OpenKeys : StopBlock(k)
      BY <1>5 DEF CloseLowest
    <2>2. /\ pc \in {"finish", "fail"}
          /\ UNCHANGED <<pc, cur, nextIndex, phase>>
      BY <1>5 DEF CloseLowest
    <2>3. /\ MapMatches'
          /\ OpenKeys' \subseteq OpenKeys
          /\ \A l \in OpenKeys' : blockFor'[l] = blockFor[l]
          /\ Len(blocks') = Len(blocks)
      BY <2>1, StopBlockTracking
    <2>4. phase' \notin {"settled", "stopped", "errored"}
      BY <2>2 DEF TrackingInv
    <2>5. QED
      BY <2>2, <2>3, <2>4 DEF TrackingInv
  <1>6. CASE WriteMessageDelta \/ WriteMessageStop \/ WriteError
    <2>1. /\ UNCHANGED <<cur, blockFor, nextIndex, blocks>>
          /\ pc' \in {"stop", "returned"}
          /\ OpenKeys = {}
      BY <1>6 DEF TrackingInv, WriteMessageDelta, WriteMessageStop, WriteError,
                  blockVars
    <2>2. OpenKeys' = {} /\ MapMatches'
      BY <2>1 DEF TrackingInv, OpenKeys, MapMatches, OpenAtClient
    <2>3. QED
      BY <2>1, <2>2 DEF TrackingInv
  <1>7. CASE WriteFails
    BY <1>7 DEF TrackingInv, WriteFails, Enter, MapMatches,
                OpenAtClient, OpenKeys, HasBlock, blockVars
  <1>8. QED
    BY <1>1, <1>2, <1>3, <1>4, <1>5, <1>6, <1>7 DEF Write

-----------------------------------------------------------------------------
(* Theorems that hold whatever the backend streams.                        *)

\* The map and the client agree, whatever the backend streams.
LEMMA TrackingIsInvariant == Spec => [](TypeOK /\ TrackingInv)
  <1>1. Init => TypeOK /\ TrackingInv
    BY InitType, InitTracking
  <1>2. TypeOK /\ TrackingInv /\ [Next]_vars => (TypeOK /\ TrackingInv)'
    <2> SUFFICES ASSUME TypeOK, TrackingInv, [Next]_vars
                 PROVE  (TypeOK /\ TrackingInv)'
      OBVIOUS
    <2>1. CASE Read
      BY <2>1, ReadType, ReadTracking
    <2>2. CASE Write
      BY <2>2, WriteType, WriteTracking
    <2>3. CASE UNCHANGED vars
      <3>1. /\ UNCHANGED <<upstream, item, sent, pc, cur, started, blockFor>>
            /\ UNCHANGED <<curIndex, nextIndex, usage, stopReason, sawToolCall>>
            /\ UNCHANGED <<errKind, phase, blocks, stop, reported>>
        BY <2>3 DEF vars, backendVars, blockVars, resultVars, clientVars
      <3>2. TypeOK'
        BY <3>1 DEF TypeOK
      <3>3. MapMatches' /\ OpenKeys' = OpenKeys
        BY <3>1 DEF TrackingInv, MapMatches, OpenKeys, OpenAtClient
      <3>4. TrackingInv'
        BY <3>1, <3>3 DEF TrackingInv, HasBlock
      <3>5. QED
        BY <3>2, <3>4
    <2>4. QED
      BY <2>1, <2>2, <2>3 DEF Next, Done
  <1>3. QED
    BY <1>1, <1>2, PTL DEF Spec

\* Every variable keeps its type.
THEOREM TypeCorrect == Spec => []TypeOK
  BY TrackingIsInvariant, PTL

\* As long as the client can be written to, the translator's map names exactly the
\* blocks it has open, even when frames are skipped and whatever the output indexes.
THEOREM MapTracks == Spec => []MapTracksOpenBlocks
  <1>1. TypeOK /\ TrackingInv => MapTracksOpenBlocks
    BY DEF TrackingInv, MapTracksOpenBlocks
  <1>2. QED
    BY <1>1, TrackingIsInvariant, PTL

\* No response ends, in success or in error, with a block open (finish, fail).
THEOREM ClosedAtEnd == Spec => []AllClosedAtEnd
  <1>1. TypeOK /\ TrackingInv => AllClosedAtEnd
    <2> SUFFICES ASSUME TypeOK, TrackingInv,
                        phase \in {"settled", "stopped", "errored"},
                        NEW b \in DOMAIN blocks, blocks[b].open
                 PROVE  FALSE
      BY DEF AllClosedAtEnd
    <2>1. PICK k \in Keys : blockFor[k] = b
      BY DEF TrackingInv, MapMatches
    <2>2. b # NoBlock
      BY PositionsPositive DEF TypeOK
    <2>3. k \in OpenKeys
      BY <2>1, <2>2 DEF OpenKeys
    <2>4. QED
      BY <2>3 DEF TrackingInv
  <1>2. QED
    BY <1>1, TrackingIsInvariant, PTL

-----------------------------------------------------------------------------
(* A well-behaved backend: whose fragments go where.                       *)

\* No item is in progress and no block exists at the start.
LEMMA InitOwnership == Init => OwnershipInv
  <1> SUFFICES ASSUME Init PROVE OwnershipInv
    OBVIOUS
  <1>1. OpenKeys = {} /\ pc = "reading" /\ phase = "waiting" /\ started = FALSE
    BY DEF Init, OpenKeys
  <1>2. \A i \in Items : item[i] # "open" /\ ~Active(i)
    BY <1>1 DEF Init, Active
  <1>3. DOMAIN blocks = {}
    <2>1. blocks = <<>> /\ <<>> \in Seq(Contract!Block) /\ Len(<<>>) = 0
      BY EmptySeq DEF Init
    <2>2. QED
      BY <2>1, LenProperties
  <1>4. KindsMatch /\ FragmentsInOwnBlock
    BY <1>3 DEF KindsMatch, FragmentsInOwnBlock
  <1>5. QED
    BY <1>1, <1>2, <1>4 DEF OwnershipInv, OneActivePerKey, OwnersActive,
       CurProgress, OpenItemsHaveBlocks, StartedFirst, PhaseFollows

\* Reading leaves the client and the map alone, so only the conjuncts about
\* the items in progress are at stake.
LEMMA ReadFrame ==
    ASSUME TypeOK, OwnershipInv, Read
    PROVE  /\ UNCHANGED <<started, blockFor, curIndex, nextIndex>>
           /\ UNCHANGED <<phase, blocks, stop, reported>>
           /\ OpenKeys' = OpenKeys
           /\ \A k \in Keys : Owner(k)' = Owner(k)
           /\ \A i \in Items : HasBlock(i)' = HasBlock(i) /\ Visible(i)' = Visible(i)
           /\ KindsMatch' /\ FragmentsInOwnBlock'
           /\ pc = "reading"
           /\ pc' \notin {"stop", "returned"}
           /\ PhaseFollows'
  <1>1. /\ UNCHANGED <<started, blockFor, curIndex, nextIndex>>
        /\ UNCHANGED <<phase, blocks, stop, reported>>
        /\ pc = "reading"
        /\ pc' \notin {"stop", "returned"}
    BY DEF Read, ReadCreated, ReadItemAdded, ReadDelta, ReadItemDone,
           ReadCompleted, ReadIncomplete, ReadFailed, ReadEOF, ReadError,
           SkipFrame, blockVars, clientVars, Reading
  <1>2. OpenKeys' = OpenKeys /\ \A k \in Keys : Owner(k)' = Owner(k)
    BY <1>1 DEF OpenKeys, Owner
  <1>3. \A i \in Items : HasBlock(i)' = HasBlock(i) /\ Visible(i)' = Visible(i)
    BY <1>1 DEF HasBlock, Visible
  <1>4. KindsMatch' /\ FragmentsInOwnBlock'
    BY <1>1 DEF OwnershipInv, KindsMatch, FragmentsInOwnBlock, BlockKind
  <1>5. PhaseFollows'
    BY <1>1 DEF OwnershipInv, PhaseFollows
  <1>6. QED
    BY <1>1, <1>2, <1>3, <1>4, <1>5

\* A mapped key names an open block, and so an item.
LEMMA OwnerIsItem ==
    ASSUME TypeOK, TrackingInv, NEW k \in OpenKeys
    PROVE  /\ blockFor[k] \in DOMAIN blocks
           /\ blocks[blockFor[k]].open
           /\ Owner(k) \in Items
  <1>1. blockFor[k] \in DOMAIN blocks /\ blocks[blockFor[k]].open
    BY DEF OpenKeys, TrackingInv, MapMatches, OpenAtClient
  <1>2. blocks[blockFor[k]] \in Contract!Block
    BY <1>1, BlockAt DEF TypeOK
  <1>3. QED
    BY <1>1, <1>2 DEF Owner, Contract!Block

\* Reading a frame keeps the items in progress and their blocks matched.
LEMMA ReadOwnership ==
    ASSUME WellBehaved, TypeOK, TrackingInv, OwnershipInv, Read
    PROVE  OwnershipInv'
  <1>0. /\ OneActivePerKey /\ OwnersActive /\ CurProgress
        /\ OpenItemsHaveBlocks /\ StartedFirst
    BY DEF OwnershipInv
  <1>1. \A i \in Items : Active(i) <=> item[i] = "open"
    BY ReadFrame DEF Active
  <1>2. StartedFirst'
    <2>1. pc' \in {"delta", "close", "sign"} => \E k \in Keys : blockFor[k] # NoBlock
      <3>1. ASSUME NEW i \in Items, ReadDelta(i), pc' \in {"delta", "close", "sign"}
            PROVE  HasBlock(i)
        BY <3>1 DEF ReadDelta
      <3>2. ASSUME NEW i \in Items, NEW encrypted \in BOOLEAN,
                   ReadItemDone(i, encrypted), pc' \in {"delta", "close", "sign"}
            PROVE  HasBlock(i)
        <4>1. pc = "reading" /\ item[i] = "open"
          BY <3>2 DEF ReadItemDone, Reading, Completes
        <4>2. CASE Visible(i)
          BY <1>0, <4>1, <4>2 DEF OpenItemsHaveBlocks
        <4>3. CASE ~Visible(i)
          BY <3>2, <4>3 DEF ReadItemDone
        <4>4. QED
          BY <4>2, <4>3
      <3>3. \A i \in Items : Key[i] \in Keys
        BY ConstantsOK
      <3>4. pc' \in {"delta", "close", "sign"} =>
               \E i \in Items : \/ ReadDelta(i)
                                \/ \E encrypted \in BOOLEAN : ReadItemDone(i, encrypted)
        BY DEF Read, ReadCreated, ReadItemAdded, ReadCompleted, ReadIncomplete,
               ReadFailed, ReadEOF, ReadError, SkipFrame, Reading
      <3>5. QED
        BY <3>1, <3>2, <3>3, <3>4 DEF HasBlock
    <2>2. pc' \in {"delta", "close", "sign"} => started
      BY <1>0, <2>1 DEF StartedFirst, OpenKeys
    <2>3. QED
      BY <1>0, <2>2, ReadFrame DEF StartedFirst
  <1>3. ASSUME NEW i \in Items, ReadItemAdded(i)
        PROVE  OneActivePerKey' /\ OwnersActive' /\ CurProgress' /\ OpenItemsHaveBlocks'
    <2>1. /\ item[i] = "pending"
          /\ item' = [item EXCEPT ![i] = "open"]
          /\ Sequential => \A j \in Items : item[j] # "open"
          /\ cur' = i
          /\ pc' = IF Visible(i) /\ ~HasBlock(i) THEN "open" ELSE "reading"
      BY <1>3 DEF ReadItemAdded, Announces
    <2>2. \A j \in Items : item'[j] = IF j = i THEN "open" ELSE item[j]
      BY <2>1 DEF TypeOK
    <2>3. \A j \in Items : Active(j)' <=> (Active(j) \/ j = i)
      BY <1>1, <2>1, <2>2 DEF Active
    <2>4. OneActivePerKey'
      BY <1>0, <1>1, <2>1, <2>3 DEF OneActivePerKey, WellBehaved
    <2>5. OwnersActive'
      <3>1. SUFFICES ASSUME NEW k \in OpenKeys
                     PROVE  Key[Owner(k)] = k /\ Active(Owner(k))'
        BY ReadFrame DEF OwnersActive, OpenKeys
      <3>2. Key[Owner(k)] = k /\ Active(Owner(k))
        BY <1>0, ReadFrame DEF OwnersActive
      <3>3. Owner(k)' = Owner(k)
        BY ReadFrame DEF OpenKeys
      <3>4. Active(Owner(k)) => item[Owner(k)] = "open"
        BY ReadFrame DEF Active
      <3>5. item'[Owner(k)] = "open"
        BY <2>2, <3>2, <3>4, OwnerIsItem
      <3>6. QED
        BY <3>2, <3>3, <3>5 DEF Active
    <2>6. CurProgress'
      BY <2>1, <2>2 DEF CurProgress
    <2>7. OpenItemsHaveBlocks'
      BY <1>0, <2>1, <2>2, ReadFrame DEF OpenItemsHaveBlocks
    <2>8. QED
      BY <2>4, <2>5, <2>6, <2>7
  <1>4. ASSUME UNCHANGED item, pc' \in {"reading", "created", "finish", "fail"}
        PROVE  OneActivePerKey' /\ OwnersActive' /\ CurProgress' /\ OpenItemsHaveBlocks'
    <2>1. \A j : Active(j)' <=> Active(j)
      BY <1>4, ReadFrame DEF Active
    <2>2. OneActivePerKey'
      BY <1>0, <2>1 DEF OneActivePerKey
    <2>3. OwnersActive'
      <3>1. \A k \in OpenKeys : Owner(k)' = Owner(k)
        BY ReadFrame DEF OpenKeys
      <3>2. QED
        BY <1>0, <1>4, <3>1, ReadFrame DEF OwnersActive, Active
    <2>4. CurProgress' /\ OpenItemsHaveBlocks'
      BY <1>0, <1>4, ReadFrame DEF CurProgress, OpenItemsHaveBlocks
    <2>5. QED
      BY <2>2, <2>3, <2>4
  <1>5. ASSUME NEW i \in Items, ReadDelta(i)
        PROVE  OneActivePerKey' /\ OwnersActive' /\ CurProgress' /\ OpenItemsHaveBlocks'
    <2>1. item[i] = "open" /\ UNCHANGED item /\ cur' = i
      BY <1>5 DEF ReadDelta, Streams
    <2>2. Visible(i) => HasBlock(i)
      BY <1>0, <2>1, ReadFrame DEF OpenItemsHaveBlocks
    <2>3. pc' \in {"reading", "delta"}
      BY <1>5, <2>2 DEF ReadDelta
    <2>4. \A j : Active(j)' <=> Active(j)
      BY <2>1, <2>3, ReadFrame DEF Active
    <2>5. OneActivePerKey'
      BY <1>0, <2>4 DEF OneActivePerKey
    <2>6. OwnersActive'
      <3>1. \A k \in OpenKeys : Owner(k)' = Owner(k)
        BY ReadFrame DEF OpenKeys
      <3>2. QED
        BY <1>0, <2>1, <2>3, <3>1, ReadFrame DEF OwnersActive, Active
    <2>7. CurProgress' /\ OpenItemsHaveBlocks'
      BY <1>0, <2>1, <2>3, ReadFrame DEF CurProgress, OpenItemsHaveBlocks
    <2>8. QED
      BY <2>5, <2>6, <2>7
  <1>6. ASSUME NEW i \in Items, NEW encrypted \in BOOLEAN, ReadItemDone(i, encrypted)
        PROVE  OneActivePerKey' /\ OwnersActive' /\ CurProgress' /\ OpenItemsHaveBlocks'
    <2>1. /\ item[i] = "open"
          /\ cur' = i
          /\ encrypted => ItemType[i] = "reasoning"
          /\ \A j \in Items : item'[j] = IF j = i THEN "done" ELSE item[j]
      BY <1>6 DEF ReadItemDone, Completes, TypeOK
    <2>2. Visible(i) => HasBlock(i)
      BY <1>0, <2>1, ReadFrame DEF OpenItemsHaveBlocks
    <2>3. /\ pc' \in {"reading", "sign", "close"}
          /\ HasBlock(i) => pc' \in {"sign", "close"}
          /\ pc' = "sign" => ItemType[i] = "reasoning" /\ HasBlock(i)
      BY <1>6, <2>1, <2>2 DEF ReadItemDone
    <2>4. \A j \in Items : Active(j)' => Active(j)
      BY <1>1, <2>1 DEF Active
    <2>5. OneActivePerKey'
      BY <1>0, <2>4 DEF OneActivePerKey
    <2>6. OwnersActive'
      <3>1. SUFFICES ASSUME NEW k \in OpenKeys
                     PROVE  Key[Owner(k)] = k /\ Active(Owner(k))'
        BY ReadFrame DEF OwnersActive, OpenKeys
      <3>2. Key[Owner(k)] = k /\ Active(Owner(k)) /\ blockFor[k] # NoBlock
        BY <1>0, ReadFrame DEF OwnersActive, OpenKeys
      <3>3. Owner(k)' = Owner(k)
        BY ReadFrame DEF OpenKeys
      <3>4. item[Owner(k)] = "open"
        BY <3>2, ReadFrame DEF Active
      <3>5. CASE Owner(k) = i
        BY <2>1, <2>3, <3>2, <3>3, <3>5 DEF Active, HasBlock
      <3>6. CASE Owner(k) # i
        <4>1. item'[Owner(k)] = "open"
          BY <2>1, <3>4, <3>6, OwnerIsItem
        <4>2. QED
          BY <3>2, <3>3, <4>1 DEF Active
      <3>7. QED
        BY <3>5, <3>6
    <2>7. CurProgress'
      BY <2>1, <2>3, ReadFrame DEF CurProgress
    <2>8. OpenItemsHaveBlocks'
      BY <1>0, <2>1, <2>3, ReadFrame DEF OpenItemsHaveBlocks
    <2>9. QED
      BY <2>5, <2>6, <2>7, <2>8
  <1>7. OneActivePerKey' /\ OwnersActive' /\ CurProgress' /\ OpenItemsHaveBlocks'
    <2>1. CASE ReadCreated
      BY <1>4, <2>1 DEF ReadCreated
    <2>2. CASE \E u \in Usages : ReadCompleted(u) \/ ReadIncomplete(u)
      BY <1>4, <2>2, ReadFrame DEF ReadCompleted, ReadIncomplete, Ends
    <2>3. CASE \E code \in UpstreamCodes : ReadFailed(code)
      BY <1>4, <2>3 DEF ReadFailed, Ends
    <2>4. CASE ReadEOF \/ ReadError
      BY <1>4, <2>4 DEF ReadEOF, ReadError
    <2>5. ~SkipFrame
      BY DEF SkipFrame, WellBehaved
    <2>6. QED
      BY <1>3, <1>5, <1>6, <2>1, <2>2, <2>3, <2>4, <2>5 DEF Read
  <1>8. QED
    BY <1>2, <1>7, ReadFrame DEF OwnershipInv

\* The step that sends cur a fragment of a type its block may carry.
LEMMA DeliverToOwner ==
    ASSUME TypeOK, TrackingInv, OwnershipInv, HasBlock(cur), Active(cur),
           pc # "returned", NEW type \in Contract!DeltasOf(BlockKind(cur)),
           type \in Contract!DeltaTypes, Deliver(Target(cur), type)
    PROVE  /\ Target(cur) \in DOMAIN blocks /\ blocks[Target(cur)].open
           /\ blocks[Target(cur)].src = cur
           /\ blocks[Target(cur)].kind = BlockKind(cur)
           /\ phase' = phase
           /\ KindsMatch' /\ FragmentsInOwnBlock'
           /\ \A k \in OpenKeys : blocks'[blockFor[k]].src = Owner(k)
  <1> DEFINE b == Target(cur)
  <1>0. Key[cur] \in OpenKeys /\ cur \in Items /\ b = blockFor[Key[cur]]
    BY ConstantsOK DEF TypeOK, OpenKeys, HasBlock, Target
  <1>1. b \in DOMAIN blocks /\ blocks[b].open /\ Owner(Key[cur]) \in Items
    BY <1>0, OwnerIsItem
  <1>2. blocks[b].src = cur
    <2>1. Key[Owner(Key[cur])] = Key[cur] /\ Active(Owner(Key[cur]))
      BY <1>0 DEF OwnershipInv, OwnersActive
    <2>2. Owner(Key[cur]) = cur
      BY <1>0, <1>1, <2>1 DEF OwnershipInv, OneActivePerKey
    <2>3. QED
      BY <1>0, <2>2 DEF Owner
  <1>3. blocks[b].kind = BlockKind(cur)
    BY <1>1, <1>2 DEF OwnershipInv, KindsMatch
  <1> HIDE DEF b
  <1>4. /\ DOMAIN blocks' = DOMAIN blocks
        /\ \A c \in DOMAIN blocks :
              blocks'[c] = IF c = b
                           THEN [blocks[c] EXCEPT !.frags =
                                    Append(@, [src |-> cur, type |-> type])]
                           ELSE blocks[c]
        /\ phase' = phase
    <2>1. OpenAtClient(b)
      BY <1>1 DEF OpenAtClient
    <2>2. Deliver(b, type)
      BY DEF b
    <2>3. QED
      BY <2>1, <2>2, DeliverEffect
  <1>5. \A c \in DOMAIN blocks : /\ blocks'[c].src = blocks[c].src
                                 /\ blocks'[c].kind = blocks[c].kind
    <2>1. SUFFICES ASSUME NEW c \in DOMAIN blocks
                   PROVE  /\ blocks'[c].src = blocks[c].src
                          /\ blocks'[c].kind = blocks[c].kind
      OBVIOUS
    <2>2. blocks[c] \in Contract!Block
      BY BlockAt DEF TypeOK
    <2>3. QED
      BY <1>4, <2>2 DEF Contract!Block
  <1>6. KindsMatch'
    BY <1>4, <1>5 DEF OwnershipInv, KindsMatch, BlockKind
  <1>7. FragmentsInOwnBlock'
    <2>1. SUFFICES ASSUME NEW c \in DOMAIN blocks, NEW n \in DOMAIN blocks'[c].frags
                   PROVE  /\ blocks'[c].frags[n].src = blocks[c].src
                          /\ blocks'[c].frags[n].type \in
                                Contract!DeltasOf(blocks[c].kind)
      BY <1>4, <1>5 DEF FragmentsInOwnBlock, Contract!DeltasOf
    <2>2. blocks[c] \in Contract!Block
      BY BlockAt DEF TypeOK
    <2>3. blocks[c].frags \in Seq(Contract!Fragment)
      BY <2>2 DEF Contract!Block
    <2>4. \A m \in DOMAIN blocks[c].frags :
             /\ blocks[c].frags[m].src = blocks[c].src
             /\ blocks[c].frags[m].type \in Contract!DeltasOf(blocks[c].kind)
      BY DEF OwnershipInv, FragmentsInOwnBlock
    <2>5. CASE c # b
      BY <1>4, <2>1, <2>4, <2>5
    <2>6. CASE c = b
      <3> DEFINE f == [src |-> cur, type |-> type]
      <3>1. f \in Contract!Fragment
        BY <1>0 DEF Contract!Fragment
      <3>2. blocks'[c].frags = Append(blocks[c].frags, f)
        BY <1>4, <2>2, <2>6 DEF Contract!Block
      <3> HIDE DEF f
      <3>3. /\ DOMAIN blocks'[c].frags = 1..(Len(blocks[c].frags) + 1)
            /\ DOMAIN blocks[c].frags = 1..Len(blocks[c].frags)
            /\ Len(blocks[c].frags) \in Nat
            /\ \A m \in 1..Len(blocks[c].frags) :
                  blocks'[c].frags[m] = blocks[c].frags[m]
            /\ blocks'[c].frags[Len(blocks[c].frags) + 1] = f
        BY <2>3, <3>1, <3>2, AppendProperties, LenProperties
      <3>4. CASE n = Len(blocks[c].frags) + 1
        BY <1>2, <1>3, <2>6, <3>3, <3>4 DEF f
      <3>5. CASE n # Len(blocks[c].frags) + 1
        <4>1. n \in 1..Len(blocks[c].frags)
          BY <2>1, <3>3, <3>5
        <4>2. QED
          BY <2>4, <3>3, <4>1
      <3>6. QED
        BY <3>4, <3>5
    <2>7. QED
      BY <2>5, <2>6
  <1>8. \A k \in OpenKeys : blocks'[blockFor[k]].src = Owner(k)
    BY <1>5, OwnerIsItem DEF Owner
  <1>9. QED
    BY <1>1, <1>2, <1>3, <1>4, <1>6, <1>7, <1>8 DEF b

\* Closing the block of a key does not touch what the blocks hold.
LEMMA StopBlockOwnership ==
    ASSUME TypeOK, TrackingInv, OwnershipInv, NEW k \in OpenKeys, StopBlock(k)
    PROVE  /\ KindsMatch' /\ FragmentsInOwnBlock'
           /\ OpenKeys' = OpenKeys \ {k}
           /\ \A l \in OpenKeys' : Owner(l)' = Owner(l)
  <1>1. /\ DOMAIN blocks' = DOMAIN blocks
        /\ \A b \in DOMAIN blocks :
              blocks'[b] = IF b = blockFor[k]
                           THEN [blocks[b] EXCEPT !.open = FALSE]
                           ELSE blocks[b]
    BY StopBlockEffect DEF OpenKeys
  <1>2. \A b \in DOMAIN blocks : /\ blocks'[b].src = blocks[b].src
                                 /\ blocks'[b].kind = blocks[b].kind
                                 /\ blocks'[b].frags = blocks[b].frags
    <2>1. SUFFICES ASSUME NEW b \in DOMAIN blocks
                   PROVE  /\ blocks'[b].src = blocks[b].src
                          /\ blocks'[b].kind = blocks[b].kind
                          /\ blocks'[b].frags = blocks[b].frags
      OBVIOUS
    <2>2. blocks[b] \in Contract!Block
      BY BlockAt DEF TypeOK
    <2>3. QED
      BY <1>1, <2>2 DEF Contract!Block
  <1>3. KindsMatch'
    BY <1>1, <1>2 DEF OwnershipInv, KindsMatch, BlockKind
  <1>4. FragmentsInOwnBlock'
    <2>1. SUFFICES ASSUME NEW b \in DOMAIN blocks, NEW n \in DOMAIN blocks'[b].frags
                   PROVE  /\ blocks'[b].frags[n].src = blocks[b].src
                          /\ blocks'[b].frags[n].type \in
                                Contract!DeltasOf(blocks[b].kind)
      BY <1>1, <1>2 DEF FragmentsInOwnBlock, Contract!DeltasOf
    <2>2. blocks'[b].frags = blocks[b].frags
      BY <1>2
    <2>3. QED
      BY <2>2 DEF OwnershipInv, FragmentsInOwnBlock
  <1>5. /\ OpenKeys' = OpenKeys \ {k}
        /\ \A l \in OpenKeys' : blockFor'[l] = blockFor[l]
    BY StopBlockTracking
  <1>6. \A l \in OpenKeys' : Owner(l)' = Owner(l)
    BY <1>2, <1>5, OwnerIsItem DEF Owner
  <1>7. QED
    BY <1>3, <1>4, <1>5, <1>6

\* Writing an event keeps the items in progress and their blocks matched.
LEMMA WriteOwnership ==
    ASSUME WellBehaved, TypeOK, TrackingInv, OwnershipInv, Write
    PROVE  OwnershipInv'
  <1>0. /\ OneActivePerKey /\ OwnersActive /\ CurProgress /\ OpenItemsHaveBlocks
        /\ KindsMatch /\ FragmentsInOwnBlock /\ StartedFirst /\ PhaseFollows
        /\ Key[cur] \in Keys /\ cur \in Items
    BY ConstantsOK DEF OwnershipInv, TypeOK
  <1>1. UNCHANGED item /\ UNCHANGED cur
    BY DEF Write, WriteMessageStart, WriteBlockStart, WriteDelta, WriteSignature,
           WriteBlockStop, CloseLowest, WriteMessageDelta, WriteMessageStop,
           WriteError, WriteFails, backendVars
  <1>2. ASSUME UNCHANGED <<blockFor, blocks>>, pc' \notin {"sign", "close"}
        PROVE  /\ KindsMatch' /\ FragmentsInOwnBlock' /\ OneActivePerKey'
               /\ OpenKeys' = OpenKeys
               /\ \A k : Owner(k)' = Owner(k)
               /\ \A i : HasBlock(i)' = HasBlock(i)
    <2>1. KindsMatch' /\ FragmentsInOwnBlock'
      BY <1>0, <1>2 DEF KindsMatch, FragmentsInOwnBlock, BlockKind
    <2>2. OneActivePerKey'
      BY <1>0, <1>1, <1>2 DEF OneActivePerKey, Active
    <2>3. QED
      BY <1>2, <2>1, <2>2 DEF OpenKeys, Owner, HasBlock
  <1>3. CASE WriteMessageStart
    <2>1. /\ pc \in {"created", "open", "openDelta", "finish", "fail"}
          /\ pc' = IF pc = "created" THEN "reading" ELSE pc
          /\ ~started /\ started' = TRUE
          /\ phase' = IF phase = "confused" THEN phase ELSE "streaming"
          /\ UNCHANGED <<blockFor, blocks>>
      BY <1>3 DEF WriteMessageStart, Enter
    <2>2. CurProgress'
      BY <1>0, <1>1, <2>1 DEF CurProgress
    <2>3. OwnersActive'
      BY <1>0, <1>1, <1>2, <2>1, <2>2 DEF OwnersActive, Active
    <2>4. OpenItemsHaveBlocks'
      BY <1>0, <1>1, <1>2, <2>1 DEF OpenItemsHaveBlocks, Visible
    <2>5. PhaseFollows' /\ StartedFirst'
      BY <1>0, <2>1 DEF PhaseFollows, StartedFirst
    <2>6. QED
      BY <1>2, <2>1, <2>2, <2>3, <2>4, <2>5 DEF OwnershipInv
  <1>4. CASE WriteBlockStart
    <2>1. /\ pc = "open" /\ pc' = "reading" /\ started
          /\ UNCHANGED <<started, phase>>
          /\ \A l \in Keys : blockFor'[l] =
                IF l = Key[cur] THEN nextIndex ELSE blockFor[l]
      BY <1>0, <1>4 DEF WriteBlockStart, CurProgress, TypeOK
    <2>2. /\ DOMAIN blocks' = DOMAIN blocks \cup {nextIndex}
          /\ nextIndex \notin DOMAIN blocks
          /\ \A b \in DOMAIN blocks : blocks'[b] = blocks[b]
          /\ blocks'[nextIndex] = [src |-> cur, kind |-> BlockKind(cur),
                                   open |-> TRUE, frags |-> <<>>]
      BY <1>4, BlockStartEffect DEF TrackingInv
    <2>3. nextIndex # NoBlock
      <3>1. Len(blocks) \in Nat
        BY LenProperties DEF TypeOK
      <3>2. QED
        BY <3>1 DEF TrackingInv, NoBlock
    <2>4. OpenKeys' = OpenKeys \cup {Key[cur]}
      BY <1>0, <2>1, <2>3 DEF OpenKeys
    <2>5. KindsMatch'
      <3>1. blocks'[nextIndex].kind = BlockKind(blocks'[nextIndex].src)
        BY <2>2
      <3>2. \A b \in DOMAIN blocks : blocks'[b].kind = BlockKind(blocks'[b].src)
        BY <1>0, <2>2 DEF KindsMatch
      <3>3. QED
        BY <2>2, <3>1, <3>2 DEF KindsMatch, BlockKind
    <2>6. FragmentsInOwnBlock'
      <3>1. DOMAIN <<>> = {}
        BY EmptySeq, LenProperties
      <3>2. blocks'[nextIndex].frags = <<>>
        BY <2>2
      <3>3. QED
        BY <1>0, <2>2, <3>1, <3>2 DEF FragmentsInOwnBlock, Contract!DeltasOf
    <2>7. \A j : Active(j)' <=> item[j] = "open"
      BY <1>1, <2>1 DEF Active
    <2>8. OneActivePerKey'
      BY <1>0, <2>7 DEF OneActivePerKey, Active
    <2>9. OwnersActive'
      <3>1. SUFFICES ASSUME NEW k \in OpenKeys'
                     PROVE  Key[Owner(k)'] = k /\ Active(Owner(k))'
        BY DEF OwnersActive
      <3>2. CASE k = Key[cur]
        <4>1. Owner(k)' = cur
          BY <1>0, <2>1, <2>2, <3>2 DEF Owner
        <4>2. QED
          BY <1>0, <1>1, <2>1, <3>2, <4>1 DEF CurProgress, Active
      <3>3. CASE k # Key[cur]
        <4>1. k \in OpenKeys /\ k \in Keys
          BY <2>4, <3>3 DEF OpenKeys
        <4>2. Owner(k)' = Owner(k)
          BY <2>1, <2>2, <3>3, <4>1, OwnerIsItem DEF Owner
        <4>3. QED
          BY <1>0, <1>1, <2>1, <4>1, <4>2 DEF OwnersActive, Active
      <3>4. QED
        BY <3>2, <3>3
    <2>10. OpenItemsHaveBlocks'
      <3>1. \A i \in Items : Key[i] \in Keys
        BY ConstantsOK
      <3>2. \A i \in Items : HasBlock(i) \/ i = cur => HasBlock(i)'
        BY <2>1, <2>3, <3>1 DEF HasBlock
      <3>3. QED
        BY <1>0, <1>1, <2>1, <3>2 DEF OpenItemsHaveBlocks, Visible
    <2>11. CurProgress' /\ StartedFirst' /\ PhaseFollows'
      BY <1>0, <2>1 DEF CurProgress, StartedFirst, PhaseFollows
    <2>12. QED
      BY <2>5, <2>6, <2>8, <2>9, <2>10, <2>11 DEF OwnershipInv
  <1>5. CASE WriteDelta \/ WriteSignature
    <2>1. /\ pc \in {"delta", "sign"}
          /\ pc = "delta" => pc' = "reading"
          /\ pc = "sign" => pc' = IF HasBlock(cur) THEN "close" ELSE "reading"
          /\ UNCHANGED <<blockFor, started>>
      BY <1>5 DEF WriteDelta, WriteSignature, blockVars
    <2>2. HasBlock(cur) /\ Active(cur)
      BY <1>0, <2>1 DEF TrackingInv, CurProgress, Active
    <2>3. PICK type \in Contract!DeltasOf(BlockKind(cur)) :
             type \in Contract!DeltaTypes /\ Deliver(Target(cur), type)
      <3>1. CASE WriteDelta
        BY <1>0, <3>1, ModelTypes DEF WriteDelta
      <3>2. CASE WriteSignature
        <4>1. BlockKind(cur) = "thinking"
          BY <1>0, <3>2 DEF WriteSignature, CurProgress, BlockKind
        <4>2. "signature_delta" \in Contract!DeltasOf(BlockKind(cur))
          BY <4>1 DEF Contract!DeltasOf
        <4>3. QED
          BY <3>2, <4>2 DEF WriteSignature, Contract!DeltaTypes
      <3>3. QED
        BY <1>5, <3>1, <3>2
    <2>4. /\ phase' = phase
          /\ KindsMatch' /\ FragmentsInOwnBlock'
          /\ \A k \in OpenKeys : blocks'[blockFor[k]].src = Owner(k)
      BY <2>1, <2>2, <2>3, DeliverToOwner
    <2>5. OpenKeys' = OpenKeys /\ \A i : HasBlock(i)' = HasBlock(i)
      BY <2>1 DEF OpenKeys, HasBlock
    <2>6. \A k \in OpenKeys : Owner(k)' = Owner(k)
      BY <2>1, <2>4 DEF Owner
    <2>7. /\ pc = "delta" => pc' = "reading"
          /\ pc = "sign" => pc' = "close"
      BY <2>1, <2>2
    <2>8. \A j : Active(j)' <=> Active(j)
      BY <1>1, <2>1, <2>7 DEF Active
    <2>9. OneActivePerKey'
      BY <1>0, <2>8 DEF OneActivePerKey
    <2>10. OwnersActive'
      <3>1. \A k \in OpenKeys : Key[Owner(k)] = k /\ Active(Owner(k))
        BY <1>0, <2>1 DEF OwnersActive
      <3>2. \A k \in OpenKeys : Active(Owner(k))'
        BY <1>1, <2>1, <2>6, <2>7, <3>1 DEF Active
      <3>3. QED
        BY <2>5, <2>6, <3>1, <3>2 DEF OwnersActive
    <2>11. CurProgress' /\ OpenItemsHaveBlocks'
      BY <1>0, <1>1, <2>1, <2>5, <2>7 DEF CurProgress, OpenItemsHaveBlocks, Visible
    <2>12. StartedFirst' /\ PhaseFollows'
      BY <1>0, <2>1, <2>4, <2>5, <2>7 DEF StartedFirst, PhaseFollows
    <2>13. QED
      BY <2>4, <2>9, <2>10, <2>11, <2>12 DEF OwnershipInv
  <1>6. CASE WriteBlockStop
    <2>1. /\ pc = "close" /\ pc' = "reading"
          /\ StopBlock(Key[cur])
          /\ Key[cur] \in OpenKeys
          /\ UNCHANGED <<started, phase>>
      BY <1>0, <1>6 DEF WriteBlockStop, TrackingInv, HasBlock, OpenKeys
    <2>2. /\ KindsMatch' /\ FragmentsInOwnBlock'
          /\ OpenKeys' = OpenKeys \ {Key[cur]}
          /\ \A l \in OpenKeys' : Owner(l)' = Owner(l)
      BY <2>1, StopBlockOwnership
    <2>3. item[cur] = "done" /\ Active(cur)
      BY <1>0, <2>1 DEF CurProgress, Active
    <2>4. \A j : Active(j)' <=> item[j] = "open"
      BY <1>1, <2>1 DEF Active
    <2>5. OneActivePerKey'
      BY <1>0, <2>4 DEF OneActivePerKey, Active
    <2>6. OwnersActive'
      <3>1. SUFFICES ASSUME NEW k \in OpenKeys'
                     PROVE  Key[Owner(k)] = k /\ item[Owner(k)] = "open"
        BY <2>2, <2>4, <1>1 DEF OwnersActive, Active
      <3>2. k \in OpenKeys /\ k # Key[cur]
        BY <2>2
      <3>3. Key[Owner(k)] = k /\ Active(Owner(k))
        BY <1>0, <2>1, <3>2 DEF OwnersActive
      <3>4. QED
        BY <3>2, <3>3 DEF Active
    <2>7. OpenItemsHaveBlocks'
      <3>1. SUFFICES ASSUME NEW i \in Items, item[i] = "open", Visible(i)
                     PROVE  HasBlock(i)'
        BY <1>1 DEF OpenItemsHaveBlocks, Visible
      <3>2. HasBlock(i)
        BY <1>0, <2>1, <3>1 DEF OpenItemsHaveBlocks
      <3>3. Key[i] # Key[cur]
        BY <1>0, <2>3, <3>1 DEF OneActivePerKey, Active
      <3>4. Key[i] \in Keys
        BY ConstantsOK
      <3>5. QED
        BY <2>1, <3>2, <3>3, <3>4 DEF HasBlock, StopBlock, TypeOK
    <2>8. CurProgress' /\ StartedFirst' /\ PhaseFollows'
      BY <1>0, <2>1, <2>2 DEF CurProgress, StartedFirst, PhaseFollows
    <2>9. QED
      BY <2>2, <2>5, <2>6, <2>7, <2>8 DEF OwnershipInv
  <1>7. CASE CloseLowest
    <2>1. /\ pc \in {"finish", "fail"} /\ UNCHANGED <<pc, started, phase>>
      BY <1>7 DEF CloseLowest
    <2>2. PICK k \in OpenKeys : StopBlock(k)
      BY <1>7 DEF CloseLowest
    <2>3. /\ KindsMatch' /\ FragmentsInOwnBlock'
          /\ OpenKeys' = OpenKeys \ {k}
          /\ \A l \in OpenKeys' : Owner(l)' = Owner(l)
      BY <2>2, StopBlockOwnership
    <2>4. \A j : Active(j)' <=> Active(j)
      BY <1>1, <2>1 DEF Active
    <2>5. OneActivePerKey'
      BY <1>0, <2>4 DEF OneActivePerKey
    <2>6. OwnersActive'
      <3>1. \A l \in OpenKeys' : Key[Owner(l)] = l /\ Active(Owner(l))
        BY <1>0, <2>1, <2>3 DEF OwnersActive
      <3>2. QED
        BY <1>1, <2>1, <2>3, <3>1 DEF OwnersActive, Active
    <2>7. /\ CurProgress' /\ OpenItemsHaveBlocks' /\ StartedFirst' /\ PhaseFollows'
      BY <1>0, <2>1, <2>3 DEF CurProgress, OpenItemsHaveBlocks, StartedFirst,
                              PhaseFollows
    <2>8. QED
      BY <2>3, <2>5, <2>6, <2>7 DEF OwnershipInv
  <1>8. CASE WriteMessageDelta \/ WriteMessageStop \/ WriteError \/ WriteFails
    <2>1. /\ pc' \in {"stop", "returned"}
          /\ pc' = "stop" => WriteMessageDelta /\ pc = "finish" /\ OpenKeys = {}
          /\ UNCHANGED <<blockFor, blocks, started>>
          /\ started \/ WriteMessageStop \/ WriteFails
      BY <1>8 DEF WriteMessageDelta, WriteMessageStop, WriteError, WriteFails,
                  blockVars
    <2>2. CurProgress' /\ OpenItemsHaveBlocks'
      BY <2>1 DEF CurProgress, OpenItemsHaveBlocks
    <2>3. OwnersActive'
      BY <1>2, <2>1 DEF OwnersActive
    <2>4. StartedFirst'
      BY <1>0, <1>2, <1>8, <2>1 DEF StartedFirst, WriteMessageDelta
    <2>5. PhaseFollows'
      <3>1. phase # "confused"
        BY <1>0 DEF PhaseFollows
      <3>2. phase' # "confused" /\ (pc' = "stop" => phase' = "settled" /\ started)
        BY <1>8, <2>1, <3>1 DEF WriteMessageDelta, WriteMessageStop, WriteError,
                                WriteFails, Enter
      <3>3. QED
        BY <2>1, <3>2 DEF PhaseFollows
    <2>6. QED
      BY <1>2, <2>1, <2>2, <2>3, <2>4, <2>5 DEF OwnershipInv
  <1>9. QED
    BY <1>3, <1>4, <1>5, <1>6, <1>7, <1>8 DEF Write

\* With a well-behaved backend, the items in progress own the blocks their
\* keys are mapped to.
LEMMA OwnershipIsInvariant ==
    ASSUME WellBehaved
    PROVE  Spec => [](TypeOK /\ TrackingInv /\ OwnershipInv)
  <1>1. Init => TypeOK /\ TrackingInv /\ OwnershipInv
    BY InitType, InitTracking, InitOwnership
  <1>2. (TypeOK /\ TrackingInv) /\ (TypeOK /\ TrackingInv)' /\ OwnershipInv /\ [Next]_vars
           => OwnershipInv'
    <2> SUFFICES ASSUME TypeOK, TrackingInv, OwnershipInv, [Next]_vars
                 PROVE  OwnershipInv'
      OBVIOUS
    <2>1. CASE Read
      BY <2>1, ReadOwnership
    <2>2. CASE Write
      BY <2>2, WriteOwnership
    <2>3. CASE UNCHANGED vars
      <3>1. /\ UNCHANGED <<item, pc, cur, started, blockFor, phase, blocks>>
        BY <2>3 DEF vars, backendVars, blockVars, clientVars
      <3>2. OpenKeys' = OpenKeys /\ \A k : Owner(k)' = Owner(k)
        BY <3>1 DEF OpenKeys, Owner
      <3>3. \A i : Active(i)' = Active(i) /\ HasBlock(i)' = HasBlock(i)
        BY <3>1 DEF Active, HasBlock
      <3>4. OneActivePerKey' /\ OwnersActive'
        BY <3>1, <3>2, <3>3 DEF OwnershipInv, OneActivePerKey, OwnersActive, Active
      <3>5. CurProgress' /\ OpenItemsHaveBlocks' /\ StartedFirst' /\ PhaseFollows'
        BY <3>1, <3>2, <3>3 DEF OwnershipInv, CurProgress, OpenItemsHaveBlocks,
                                StartedFirst, PhaseFollows, Visible
      <3>6. KindsMatch' /\ FragmentsInOwnBlock'
        BY <3>1 DEF OwnershipInv, KindsMatch, FragmentsInOwnBlock, BlockKind
      <3>7. QED
        BY <3>4, <3>5, <3>6 DEF OwnershipInv
    <2>4. QED
      BY <2>1, <2>2, <2>3 DEF Next, Done
  <1>3. QED
    BY <1>1, <1>2, TrackingIsInvariant, PTL DEF Spec

\* With a backend whose frames parse and whose items cannot be confused, every
\* fragment reaches the block of its own item, however the items interleave.
THEOREM OwnBlock ==
    ASSUME WellBehaved
    PROVE  Spec => []FragmentsInOwnBlock
  <1>1. TypeOK /\ TrackingInv /\ OwnershipInv => FragmentsInOwnBlock
    BY DEF OwnershipInv
  <1>2. QED
    BY <1>1, OwnershipIsInvariant, PTL

-----------------------------------------------------------------------------
(* The translator implements the contract of a streamed response.          *)

\* The contract's open blocks are the ones the map names.
LEMMA NoneOpen ==
    ASSUME TypeOK, TrackingInv, OpenKeys = {}
    PROVE  Contract!OpenBlocks = {}
  <1> SUFFICES ASSUME NEW b \in DOMAIN blocks, blocks[b].open PROVE FALSE
    BY DEF Contract!OpenBlocks
  <1>1. PICK k \in Keys : blockFor[k] = b
    BY DEF TrackingInv, MapMatches
  <1>2. b # NoBlock
    BY PositionsPositive DEF TypeOK
  <1>3. QED
    BY <1>1, <1>2 DEF OpenKeys

\* Each write is a step of the contract.
LEMMA WriteImplements ==
    ASSUME TypeOK, TrackingInv, OwnershipInv, Write
    PROVE  [Contract!Next]_(Contract!vars)
  <1>0. PhaseFollows /\ StartedFirst /\ CurProgress /\ cur \in Items /\ Key[cur] \in Keys
    BY ConstantsOK DEF OwnershipInv, TypeOK
  <1>1. CASE WriteMessageStart
    <2>1. Contract!MessageStart
      BY <1>0, <1>1 DEF WriteMessageStart, PhaseFollows, Enter, Contract!MessageStart
    <2>2. QED
      BY <2>1 DEF Contract!Next
  <1>2. CASE WriteBlockStart
    <2>1. phase = "streaming"
      BY <1>0, <1>2 DEF WriteBlockStart, PhaseFollows
    <2>2. Contract!ContentBlockStart(cur, BlockKind(cur))
      BY <1>2, <2>1 DEF WriteBlockStart, Contract!ContentBlockStart
    <2>3. BlockKind(cur) \in Contract!BlockKinds
      BY <1>0, ModelTypes
    <2>4. QED
      BY <1>0, <2>2, <2>3 DEF Contract!Next
  <1>3. ASSUME NEW type \in Contract!DeltasOf(BlockKind(cur)),
               type \in Contract!DeltaTypes, Deliver(Target(cur), type),
               HasBlock(cur), Active(cur), pc \in {"delta", "sign"}, UNCHANGED stop
        PROVE  Contract!Next
    <2> DEFINE b == Target(cur)
    <2>1. /\ b \in DOMAIN blocks /\ blocks[b].open
          /\ blocks[b].src = cur /\ blocks[b].kind = BlockKind(cur)
          /\ phase' = phase
      BY <1>3, DeliverToOwner
    <2>2. Deliver(b, type)
      BY <1>3
    <2>3. phase = "streaming"
      BY <1>0, <1>3 DEF PhaseFollows, StartedFirst
    <2> HIDE DEF b
    <2>4. blocks' = [blocks EXCEPT ![b].frags =
                        Append(@, [src |-> blocks[b].src, type |-> type])]
      BY <2>1, <2>2 DEF Deliver, OpenAtClient
    <2>5. b \in Contract!OpenBlocks
      BY <2>1 DEF Contract!OpenBlocks
    <2>6. Contract!ContentBlockDelta(b, type)
      BY <1>3, <2>1, <2>3, <2>4, <2>5
      DEF Contract!ContentBlockDelta, Contract!DeltasOf
    <2>7. QED
      BY <1>3, <2>1, <2>6 DEF Contract!Next
  <1>4. CASE WriteDelta
    <2>1. HasBlock(cur) /\ Active(cur) /\ pc = "delta" /\ UNCHANGED stop
      BY <1>0, <1>4 DEF TrackingInv, WriteDelta, CurProgress, Active
    <2>2. QED
      BY <1>0, <1>3, <1>4, <2>1, ModelTypes DEF WriteDelta
  <1>5. CASE WriteSignature
    <2>1. HasBlock(cur) /\ Active(cur) /\ pc = "sign" /\ UNCHANGED stop
      BY <1>0, <1>5 DEF WriteSignature, CurProgress, Active
    <2>2. "signature_delta" \in Contract!DeltasOf(BlockKind(cur))
      BY <1>0, <2>1 DEF CurProgress, BlockKind, Contract!DeltasOf
    <2>3. "signature_delta" \in Contract!DeltaTypes
      BY DEF Contract!DeltaTypes
    <2>4. QED
      BY <1>3, <1>5, <2>1, <2>2, <2>3 DEF WriteSignature
  <1>6. ASSUME NEW k \in OpenKeys, StopBlock(k), UNCHANGED <<phase, stop>>,
               pc \in {"close", "finish", "fail"}
        PROVE  Contract!Next
    <2>1. blockFor[k] \in DOMAIN blocks /\ blocks[blockFor[k]].open
      BY OwnerIsItem
    <2>2. phase = "streaming"
      BY <1>0, <1>6 DEF PhaseFollows, StartedFirst
    <2>3. Contract!ContentBlockStop(blockFor[k])
      BY <1>6, <2>1, <2>2
      DEF StopBlock, Contract!ContentBlockStop, Contract!OpenBlocks
    <2>4. QED
      BY <2>1, <2>3 DEF Contract!Next
  <1>7. CASE WriteBlockStop
    <2>1. Key[cur] \in OpenKeys
      BY <1>0, <1>7 DEF WriteBlockStop, TrackingInv, HasBlock, OpenKeys
    <2>2. QED
      BY <1>6, <1>7, <2>1 DEF WriteBlockStop
  <1>8. CASE CloseLowest
    BY <1>6, <1>8 DEF CloseLowest
  <1>9. CASE WriteMessageDelta
    <2>1. phase = "streaming" /\ Contract!OpenBlocks = {}
      BY <1>0, <1>9, NoneOpen DEF WriteMessageDelta, PhaseFollows
    <2>2. StopOf \in Contract!StopReasons
      BY DEF StopOf, TypeOK, Contract!StopReasons
    <2>3. Contract!MessageDelta
      BY <1>9, <2>1, <2>2 DEF WriteMessageDelta, Enter, Contract!MessageDelta
    <2>4. QED
      BY <2>3 DEF Contract!Next
  <1>10. CASE WriteMessageStop
    <2>1. Contract!MessageStop
      BY <1>0, <1>10
      DEF WriteMessageStop, PhaseFollows, StartedFirst, Enter, Contract!MessageStop
    <2>2. QED
      BY <2>1 DEF Contract!Next
  <1>11. CASE WriteError
    <2>1. phase = "streaming" /\ Contract!OpenBlocks = {}
      BY <1>0, <1>11, NoneOpen DEF WriteError, PhaseFollows
    <2>2. Contract!Error
      BY <1>11, <2>1 DEF WriteError, Enter, Contract!Error
    <2>3. QED
      BY <2>2 DEF Contract!Next
  <1>12. CASE WriteFails
    <2>1. phase \in {"waiting", "streaming", "settled"}
      BY <1>0, <1>12 DEF WriteFails, Handlers, PhaseFollows
    <2>2. Contract!Cut
      BY <1>12, <2>1 DEF WriteFails, Enter, Contract!Cut
    <2>3. QED
      BY <2>2 DEF Contract!Next
  <1>13. QED
    BY <1>1, <1>2, <1>4, <1>5, <1>7, <1>8, <1>9, <1>10, <1>11, <1>12 DEF Write

\* With a well-behaved backend, what the client sees is a behaviour of
\* AnthropicStream: every step of the translator is one event of the contract,
\* in its order, or nothing the client can see.
THEOREM Implementation ==
    ASSUME WellBehaved
    PROVE  Spec => ImplementsContract
  <1>1. Init => Contract!Init
    BY DEF Init, Contract!Init
  <1>2. TypeOK /\ TrackingInv /\ OwnershipInv /\ [Next]_vars
           => [Contract!Next]_(Contract!vars)
    <2> SUFFICES ASSUME TypeOK, TrackingInv, OwnershipInv, [Next]_vars
                 PROVE  [Contract!Next]_(Contract!vars)
      OBVIOUS
    <2>1. CASE Read
      BY <2>1, ReadFrame DEF Contract!vars
    <2>2. CASE Write
      BY <2>2, WriteImplements
    <2>3. CASE UNCHANGED vars
      BY <2>3 DEF vars, clientVars, Contract!vars
    <2>4. QED
      BY <2>1, <2>2, <2>3 DEF Next, Done
  <1>3. QED
    BY <1>1, <1>2, OwnershipIsInvariant, PTL
    DEF Spec, ImplementsContract, Contract!Spec

-----------------------------------------------------------------------------
(* What the client is told at the end.                                     *)

\* Some block at the client is a tool call.
ToolShown == \E b \in DOMAIN blocks : blocks[b].kind = "tool_use"

\* The tool call announced last has yet to be opened.
ToolDue == pc = "open" /\ ItemType[cur] = "function_call"

\* The flag is raised by the tool calls whose blocks the client has or gets next.
FlagIsContent ==
    /\ ToolShown \/ ToolDue => sawToolCall
    /\ sawToolCall => ToolShown \/ ToolDue \/ phase = "cut"

\* The message delta says what finish computes, and nothing changes after it.
Recorded ==
    phase \in {"settled", "stopped"} =>
        /\ pc \in {"stop", "returned"}
        /\ stop = StopOf
        /\ reported = FinalUsage(usage)

\* An item that is announced has no block yet: the item that has the key's block
\* would be in progress.
LEMMA AnnouncedHasNone ==
    ASSUME WellBehaved, TypeOK, TrackingInv, OwnershipInv, pc = "reading",
           NEW i \in Items, Announces(i)
    PROVE  ~HasBlock(i)
<1> SUFFICES ASSUME HasBlock(i) PROVE FALSE
  OBVIOUS
<1>1. Key[i] \in OpenKeys
  BY ConstantsOK DEF OpenKeys, HasBlock
<1> DEFINE o == Owner(Key[i])
<1>2. o \in Items /\ Key[o] = Key[i] /\ Active(o)
  BY <1>1, OwnerIsItem DEF OwnershipInv, OwnersActive
<1>3. item[o] = "open"
  BY <1>2 DEF Active
<1> QED
  BY <1>2, <1>3 DEF Announces, WellBehaved

\* Only opening a block changes which tool calls the client has.
LEMMA ToolsStay ==
    ASSUME TypeOK, TrackingInv, [Next]_vars, ~WriteBlockStart
    PROVE  ToolShown' <=> ToolShown
<1>1. ASSUME DOMAIN blocks' = DOMAIN blocks,
             \A b \in DOMAIN blocks : blocks'[b].kind = blocks[b].kind
      PROVE  ToolShown' <=> ToolShown
  BY <1>1 DEF ToolShown
<1>2. \A b \in DOMAIN blocks : blocks[b] \in Contract!Block
  BY BlockAt DEF TypeOK
<1>3. ASSUME NEW k \in Keys, StopBlock(k)
      PROVE  ToolShown' <=> ToolShown
  BY <1>1, <1>2, <1>3, StopBlockEffect DEF Contract!Block
<1>4. CASE WriteDelta \/ WriteSignature
  <2>1. PICK type \in Contract!DeltaTypes : Deliver(Target(cur), type)
    <3>1. DeltaType(cur) \in Contract!DeltaTypes /\ "signature_delta" \in Contract!DeltaTypes
      BY ModelTypes DEF TypeOK, Contract!DeltaTypes
    <3> QED
      BY <1>4, <3>1 DEF WriteDelta, WriteSignature
  <2>2. /\ DOMAIN blocks' = DOMAIN blocks
        /\ \A c \in DOMAIN blocks :
              blocks'[c] = IF c = Target(cur) /\ OpenAtClient(Target(cur))
                           THEN [blocks[c] EXCEPT !.frags =
                                    Append(@, [src |-> cur, type |-> type])]
                           ELSE blocks[c]
    BY <2>1, DeliverEffect
  <2> QED
    BY <1>1, <1>2, <2>2 DEF Contract!Block
<1>5. CASE WriteBlockStop
  <2>1. Key[cur] \in Keys
    BY ConstantsOK DEF TypeOK
  <2> QED
    BY <1>3, <1>5, <2>1 DEF WriteBlockStop
<1>6. CASE CloseLowest
  BY <1>3, <1>6 DEF CloseLowest, OpenKeys
<1>7. CASE UNCHANGED blocks
  BY <1>7 DEF ToolShown
<1>8. \/ UNCHANGED blocks
      \/ WriteDelta \/ WriteSignature \/ WriteBlockStop \/ CloseLowest
  BY DEF Next, Done, vars, clientVars, Read, ReadCreated, ReadItemAdded, ReadDelta,
         ReadItemDone, ReadCompleted, ReadIncomplete, ReadFailed, ReadEOF, ReadError,
         SkipFrame, Write, WriteMessageStart, WriteMessageDelta, WriteMessageStop,
         WriteError, WriteFails
<1> QED
  BY <1>4, <1>5, <1>6, <1>7, <1>8

\* The flag follows the tool calls.
LEMMA FlagInductive ==
    ASSUME WellBehaved, TypeOK, TrackingInv, OwnershipInv, FlagIsContent, [Next]_vars
    PROVE  FlagIsContent'
<1>1. CASE WriteBlockStart
  <2>1. /\ pc = "open" /\ pc' = "reading"
        /\ UNCHANGED <<cur, sawToolCall, phase>>
    BY <1>1 DEF WriteBlockStart, OwnershipInv, CurProgress, resultVars
  <2>2. /\ DOMAIN blocks' = DOMAIN blocks \cup {nextIndex}
        /\ nextIndex \notin DOMAIN blocks
        /\ \A b \in DOMAIN blocks : blocks'[b] = blocks[b]
        /\ blocks'[nextIndex].kind = BlockKind(cur)
    BY <1>1, BlockStartEffect DEF TrackingInv
  <2>3. BlockKind(cur) = "tool_use" <=> ItemType[cur] = "function_call"
    <3>1. ItemType[cur] \in ItemTypes
      BY ConstantsOK DEF TypeOK
    <3> QED
      BY <3>1 DEF BlockKind, ItemTypes
  <2>4. ToolShown' <=> ToolShown \/ ToolDue
    BY <2>1, <2>2, <2>3 DEF ToolShown, ToolDue
  <2>5. ~ToolDue'
    BY <2>1 DEF ToolDue
  <2> QED
    BY <2>1, <2>4, <2>5 DEF FlagIsContent
<1>2. ASSUME ~WriteBlockStart, UNCHANGED sawToolCall, pc' # "open",
             ToolDue => phase' = "cut", phase = "cut" => phase' = "cut"
      PROVE  FlagIsContent'
  <2>1. ToolShown' <=> ToolShown
    BY <1>2, ToolsStay
  <2>2. ~ToolDue'
    BY <1>2 DEF ToolDue
  <2> QED
    BY <1>2, <2>1, <2>2 DEF FlagIsContent
<1>3. ASSUME NEW i \in Items, ReadItemAdded(i)
      PROVE  FlagIsContent'
  <2>1. /\ pc = "reading" /\ cur' = i
        /\ pc' = IF Visible(i) THEN "open" ELSE "reading"
        /\ sawToolCall' = (sawToolCall \/ ItemType[i] = "function_call")
        /\ UNCHANGED phase
    BY <1>3, AnnouncedHasNone DEF ReadItemAdded, Reading, clientVars
  <2>2. ToolDue' <=> ItemType[i] = "function_call"
    BY <2>1 DEF ToolDue, Visible
  <2>3. ToolShown' <=> ToolShown
    BY <2>1, ToolsStay DEF WriteBlockStart
  <2>4. ~ToolDue
    BY <2>1 DEF ToolDue
  <2> QED
    BY <2>1, <2>2, <2>3, <2>4 DEF FlagIsContent
<1>4. CASE Read /\ ~\E i \in Items : ReadItemAdded(i)
  <2>1. pc = "reading" /\ pc' # "open" /\ UNCHANGED <<sawToolCall, phase>>
    BY <1>4 DEF Read, ReadCreated, ReadDelta, ReadItemDone, ReadCompleted,
                ReadIncomplete, ReadFailed, ReadEOF, ReadError, SkipFrame, Reading,
                resultVars, clientVars
  <2> QED
    BY <1>2, <2>1 DEF WriteBlockStart, ToolDue
<1>5. CASE UNCHANGED vars \/ Done
  <2>1. UNCHANGED <<pc, cur, sawToolCall, phase, blocks>>
    BY <1>5 DEF Done, vars, resultVars, clientVars
  <2> QED
    BY <2>1 DEF FlagIsContent, ToolShown, ToolDue
<1>6. CASE WriteMessageStart
  <2>1. /\ pc' = pc \/ (pc = "created" /\ pc' = "reading")
        /\ UNCHANGED <<cur, sawToolCall, blocks>>
        /\ pc # "returned"
    BY <1>6 DEF WriteMessageStart, resultVars
  <2>2. phase # "cut"
    BY <2>1 DEF OwnershipInv, PhaseFollows
  <2> QED
    BY <2>1, <2>2 DEF FlagIsContent, ToolShown, ToolDue
<1>7. CASE Write /\ ~WriteBlockStart /\ ~WriteMessageStart
  <2>1. /\ UNCHANGED sawToolCall /\ pc' # "open"
        /\ ToolDue => phase' = "cut" \/ phase = "confused"
        /\ phase = "cut" => phase' = "cut"
    <3>1. pc # "returned" => phase # "cut"
      BY DEF OwnershipInv, PhaseFollows
    <3>2. pc # "returned"
      BY <1>7 DEF Write, WriteDelta, WriteSignature, WriteBlockStop, CloseLowest,
                  WriteMessageDelta, WriteMessageStop, WriteError, WriteFails, Handlers
    <3> QED
      BY <1>7, <3>1, <3>2
         DEF Write, WriteDelta, WriteSignature, WriteBlockStop, CloseLowest,
             WriteMessageDelta, WriteMessageStop, WriteError, WriteFails, Enter, ToolDue,
             resultVars
  <2>2. phase # "confused"
    BY DEF OwnershipInv, PhaseFollows
  <2> QED
    BY <1>2, <1>7, <2>1, <2>2
<1> QED
  BY <1>1, <1>3, <1>4, <1>5, <1>6, <1>7 DEF Next

\* What was told stays true.
LEMMA RecordedInductive ==
    ASSUME TypeOK, TrackingInv, OwnershipInv, Recorded, [Next]_vars
    PROVE  Recorded'
<1>1. CASE WriteMessageDelta
  <2>1. /\ pc' = "stop" /\ stop' = StopOf /\ reported' = FinalUsage(usage)
        /\ UNCHANGED <<usage, stopReason, sawToolCall>>
    BY <1>1 DEF WriteMessageDelta, resultVars
  <2>2. StopOf' = StopOf /\ FinalUsage(usage)' = FinalUsage(usage)
    BY <2>1 DEF StopOf
  <2> QED
    BY <2>1, <2>2 DEF Recorded
<1>2. CASE ~WriteMessageDelta /\ phase' \in {"settled", "stopped"}
  <2>1. phase \in {"settled", "stopped"}
    <3>1. pc = "stop" => phase \in {"settled", "waiting"} /\ (phase = "waiting" => ~started)
      BY DEF OwnershipInv, PhaseFollows
    <3>2. pc = "stop" => started
      BY DEF OwnershipInv, StartedFirst
    <3> QED
     BY <1>2, <3>1, <3>2 DEF Next, Read, Write, Done, vars, clientVars, ReadCreated, ReadItemAdded,
                ReadDelta, ReadItemDone, ReadCompleted, ReadIncomplete, ReadFailed,
                ReadEOF, ReadError, SkipFrame, WriteMessageStart, WriteBlockStart,
                WriteDelta, WriteSignature, WriteBlockStop, CloseLowest,
                WriteMessageStop, WriteError, WriteFails, Enter, Deliver, TrackingInv
  <2>2. pc \in {"stop", "returned"}
    BY <2>1 DEF Recorded
  <2>3. WriteMessageStop \/ Done \/ UNCHANGED vars
    BY <1>2, <2>2
       DEF Next, Read, Write, ReadCreated, ReadItemAdded, ReadDelta, ReadItemDone,
           ReadCompleted, ReadIncomplete, ReadFailed, ReadEOF, ReadError, SkipFrame,
           Reading, WriteMessageStart, WriteBlockStart, WriteDelta, WriteSignature,
           WriteBlockStop, CloseLowest, WriteError, WriteFails, Enter
  <2>4. UNCHANGED <<stop, reported, usage, stopReason, sawToolCall>> /\ pc' \in {"stop", "returned"}
    BY <2>2, <2>3 DEF WriteMessageStop, Done, vars, resultVars, clientVars
  <2> QED
    BY <2>1, <2>4 DEF Recorded, StopOf
<1>3. CASE phase' \notin {"settled", "stopped"}
  BY <1>3 DEF Recorded
<1> QED
  BY <1>1, <1>2, <1>3

\* The arithmetic of the usage: an estimate in place of zero, and otherwise the
\* total the backend reports.
LEMMA UsageTold ==
    ASSUME NEW u \in [input : Nat, cached : Nat]
    PROVE  /\ EstimatedInput > 0 => FinalUsage(u).input + FinalUsage(u).cached > 0
           /\ u.input > 0 /\ u.cached <= u.input =>
                 FinalUsage(u).input + FinalUsage(u).cached = u.input
<1> DEFINE fresh == IF u.cached = 0 THEN u.input
                    ELSE IF u.input > u.cached THEN u.input - u.cached ELSE 0
<1>1. u.input \in Nat /\ u.cached \in Nat /\ EstimatedInput \in Nat
  BY ConstantsOK
<1>2. /\ FinalUsage(u).input = IF fresh + u.cached = 0 THEN EstimatedInput ELSE fresh
      /\ FinalUsage(u).cached = u.cached
  BY DEF FinalUsage
<1>3. /\ fresh \in Nat
      /\ u.cached <= u.input => fresh + u.cached = u.input
  BY <1>1
<1> HIDE DEF fresh
<1>4. CASE fresh + u.cached = 0
  <2>1. u.cached = 0 /\ fresh = 0
    BY <1>1, <1>3, <1>4
  <2>2. FinalUsage(u).input = EstimatedInput /\ FinalUsage(u).cached = 0
    BY <1>2, <1>4, <2>1
  <2>3. u.cached <= u.input => u.input = 0
    BY <1>1, <1>3, <1>4
  <2> QED
    BY <1>1, <2>2, <2>3
<1>5. CASE fresh + u.cached # 0
  <2>1. FinalUsage(u).input + FinalUsage(u).cached = fresh + u.cached
    BY <1>2, <1>5
  <2>2. fresh + u.cached > 0
    BY <1>1, <1>3, <1>5
  <2> QED
    BY <1>3, <2>1, <2>2
<1> QED
  BY <1>4, <1>5

\* What finish tells the client is what it was sent, whatever the backend reports
\* and however many tool calls it makes.
THEOREM ReportsAreTrue ==
    ASSUME WellBehaved
    PROVE  Spec => []ReportIsTrue
<1>1. Init => FlagIsContent /\ Recorded
  <2> SUFFICES ASSUME Init PROVE FlagIsContent /\ Recorded
    OBVIOUS
  <2>1. DOMAIN blocks = {}
    <3>1. blocks \in Seq(Contract!Block) /\ Len(blocks) = 0
      BY EmptySeq DEF Init
    <3> QED
      BY <3>1, LenProperties
  <2> QED
    BY <2>1 DEF Init, FlagIsContent, Recorded, ToolShown, ToolDue
<1>2. (TypeOK /\ TrackingInv /\ OwnershipInv) /\ FlagIsContent /\ Recorded /\ [Next]_vars
         => (FlagIsContent /\ Recorded)'
  <2> SUFFICES ASSUME TypeOK, TrackingInv, OwnershipInv, FlagIsContent, Recorded,
                      [Next]_vars
               PROVE  (FlagIsContent /\ Recorded)'
    OBVIOUS
  <2> QED
    BY FlagInductive, RecordedInductive
<1>3. TypeOK /\ FlagIsContent /\ Recorded => ReportIsTrue
  <2> SUFFICES ASSUME TypeOK, FlagIsContent, Recorded PROVE ReportIsTrue
    OBVIOUS
  <2>1. StopReasonMatchesContent
    <3> SUFFICES ASSUME phase \in {"settled", "stopped"}
                 PROVE  /\ stopReason = "none" => (stop = "tool_use" <=> ToolShown)
                        /\ stopReason # "none" => stop = stopReason
      BY DEF StopReasonMatchesContent, ToolShown
    <3>1. stop = StopOf /\ (sawToolCall <=> ToolShown)
      BY DEF Recorded, FlagIsContent, ToolDue
    <3> QED
      BY <3>1 DEF StopOf, TypeOK
  <2>2. UsageIsReal
    BY UsageTold DEF UsageIsReal, Recorded, TypeOK
  <2> QED
    BY <2>1, <2>2 DEF ReportIsTrue
<1> QED
  BY <1>1, <1>2, <1>3, OwnershipIsInvariant, PTL DEF Spec

-----------------------------------------------------------------------------
(* Nothing is lost, frames that cannot be parsed notwithstanding.          *)

\* Every item has an output_index of its own.
OwnKeys == \A i, j \in Items : Key[i] = Key[j] => i = j

\* The response goes on: none of the handlers that end it runs.
InPlay == pc \notin {"finish", "fail", "stop", "returned"}

\* The fragment in hand.
Owed(i) == IF cur = i /\ pc \in {"openDelta", "delta"} THEN 1 ELSE 0

\* The client holds what was read of an item, but for the fragment in hand, all of
\* it in the block the item still has.
Ledger(i) ==
    /\ IsFiniteSet(Held(i))
    /\ InPlay /\ Visible(i) => Cardinality(Held(i)) + Owed(i) = sent[i]
    /\ InPlay /\ item[i] = "pending" => ~HasBlock(i) /\ Held(i) = {}
    /\ InPlay /\ item[i] = "open" /\ Held(i) # {} => HasBlock(i)
    /\ InPlay /\ HasBlock(i) => \A p \in Held(i) : p[1] = blockFor[Key[i]]
    /\ \A p, q \in Held(i) : p[1] = q[1]

ItemInHand ==
    /\ pc \in {"open", "openDelta", "delta"} => item[cur] = "open"
    /\ pc \in {"openDelta", "delta"} => Visible(cur)
    /\ pc \in {"sign", "close"} => item[cur] = "done"

LedgerInv == ItemInHand /\ \A i \in Items : Ledger(i)

\* The places of item i's fragments in one block.
Places(b, x, i) ==
    {<<b, n>> : n \in {m \in DOMAIN x.frags : x.frags[m].src = i
                                              /\ x.frags[m].type = DeltaType(i)}}

\* Held, block by block.
LEMMA HeldIn ==
    ASSUME NEW i
    PROVE  Held(i) = UNION {Places(b, blocks[b], i) : b \in DOMAIN blocks}
BY DEF Held, Places

\* Fragments stay where they are while only blocks are opened and closed.
LEMMA HeldStays ==
    ASSUME NEW i,
           DOMAIN blocks \subseteq DOMAIN blocks',
           \A b \in DOMAIN blocks : blocks'[b].frags = blocks[b].frags,
           \A b \in DOMAIN blocks' \ DOMAIN blocks : DOMAIN blocks'[b].frags = {}
    PROVE  Held(i)' = Held(i)
<1>1. Held(i)' = UNION {Places(b, blocks'[b], i) : b \in DOMAIN blocks'}
  BY DEF Held, Places
<1>2. \A b \in DOMAIN blocks : Places(b, blocks'[b], i) = Places(b, blocks[b], i)
  BY DEF Places
<1>3. \A b \in DOMAIN blocks' \ DOMAIN blocks : Places(b, blocks'[b], i) = {}
  BY DEF Places
<1> QED
  BY <1>1, <1>2, <1>3, HeldIn

\* A delta adds one place, for the item it is about and if the client has the
\* block open; a signature adds none.
LEMMA DeliverAdds ==
    ASSUME TypeOK, NEW b, NEW type \in Contract!DeltaTypes, Deliver(b, type), NEW i
    PROVE  IF OpenAtClient(b) /\ i = cur /\ type = DeltaType(cur)
           THEN \E n : <<b, n>> \notin Held(i) /\ Held(i)' = Held(i) \cup {<<b, n>>}
           ELSE Held(i)' = Held(i)
<1> DEFINE f == [src |-> cur, type |-> type]
<1>1. CASE ~OpenAtClient(b)
  BY <1>1 DEF Deliver, Held
<1>2. CASE OpenAtClient(b)
  <2>1. /\ b \in DOMAIN blocks
        /\ DOMAIN blocks' = DOMAIN blocks
        /\ \A c \in DOMAIN blocks \ {b} : blocks'[c] = blocks[c]
        /\ blocks'[b] = [blocks[b] EXCEPT !.frags = Append(@, f)]
    BY <1>2, DeliverEffect DEF OpenAtClient
  <2>2. f \in Contract!Fragment /\ f.src = cur /\ f.type = type
    BY DEF TypeOK, Contract!Fragment
  <2> DEFINE frags == blocks[b].frags
             n == Len(frags) + 1
  <2>3. blocks[b] \in Contract!Block
    BY <2>1, BlockAt DEF TypeOK
  <2>4. frags \in Seq(Contract!Fragment)
    BY <2>3 DEF Contract!Block
  <2>5. blocks'[b].frags = Append(frags, f)
    BY <2>1, <2>3 DEF Contract!Block
  <2> HIDE DEF f
  <2>6. /\ n \notin DOMAIN frags
        /\ DOMAIN Append(frags, f) = DOMAIN frags \cup {n}
        /\ Append(frags, f)[n] = f
        /\ \A m \in DOMAIN frags : Append(frags, f)[m] = frags[m]
    <3>1. /\ Append(frags, f) \in Seq(Contract!Fragment)
          /\ Len(Append(frags, f)) = Len(frags) + 1
          /\ Append(frags, f)[Len(frags) + 1] = f
          /\ \A m \in 1 .. Len(frags) : Append(frags, f)[m] = frags[m]
      BY <2>2, <2>4, AppendProperties
    <3>2. /\ DOMAIN frags = 1 .. Len(frags)
          /\ DOMAIN Append(frags, f) = 1 .. (Len(frags) + 1)
          /\ Len(frags) \in Nat
      BY <2>4, <3>1, LenProperties
    <3> QED
      BY <3>1, <3>2
  <2> HIDE DEF n
  <2> DEFINE new == IF i = cur /\ type = DeltaType(cur) THEN {<<b, n>>} ELSE {}
  <2>7. <<b, n>> \notin Held(i)
    BY <2>6 DEF Held
  <2>8. \A c \in DOMAIN blocks \ {b} : Places(c, blocks'[c], i) = Places(c, blocks[c], i)
    BY <2>1
  <2>9. Places(b, blocks'[b], i) = Places(b, blocks[b], i) \cup new
    <3>1. {m \in DOMAIN blocks'[b].frags : blocks'[b].frags[m].src = i
                                           /\ blocks'[b].frags[m].type = DeltaType(i)} =
             {m \in DOMAIN frags : frags[m].src = i /\ frags[m].type = DeltaType(i)}
                \cup (IF i = cur /\ type = DeltaType(cur) THEN {n} ELSE {})
      BY <2>2, <2>5, <2>6
    <3> QED
      BY <3>1 DEF Places
  <2> HIDE DEF new
  <2>10. Held(i)' = Held(i) \cup new
    <3>1. Held(i)' = UNION {Places(c, blocks'[c], i) : c \in DOMAIN blocks'}
      BY DEF Held, Places
    <3> QED
      BY <2>1, <2>8, <2>9, <3>1, HeldIn
  <2> QED
    BY <1>2, <2>7, <2>10 DEF new
<1> QED
  BY <1>1, <1>2

\* Closing the block of a key moves no fragment.
LEMMA StopKeepsHeld ==
    ASSUME TypeOK, NEW k \in Keys, StopBlock(k), NEW i
    PROVE  Held(i)' = Held(i)
<1>1. \A b \in DOMAIN blocks : blocks[b] \in Contract!Block
  BY BlockAt DEF TypeOK
<1>2. /\ DOMAIN blocks' = DOMAIN blocks
      /\ \A b \in DOMAIN blocks : blocks'[b].frags = blocks[b].frags
  BY <1>1, StopBlockEffect DEF Contract!Block
<1> QED
  BY <1>2, HeldStays

LEMMA SentCounts ==
    ASSUME TypeOK, NEW i \in Items
    PROVE  sent[i] \in Nat
<1>1. MaxDeltas \in Nat /\ sent[i] \in 0 .. MaxDeltas
  BY ConstantsOK DEF TypeOK
<1> QED
  BY <1>1

\* Reading a frame: the fragment it brings, if it is shown, is in hand.
LEMMA ReadLedger ==
    ASSUME TypeOK, LedgerInv, Read
    PROVE  LedgerInv'
<1>0. /\ pc = "reading" /\ UNCHANGED <<blockFor, blocks>>
      /\ pc' # "stop" /\ pc' # "returned"
  BY DEF Read, ReadCreated, ReadItemAdded, ReadDelta, ReadItemDone, ReadCompleted,
         ReadIncomplete, ReadFailed, ReadEOF, ReadError, SkipFrame, blockVars,
         clientVars, Reading
<1>1. \A i : Held(i)' = Held(i) /\ HasBlock(i)' = HasBlock(i) /\ Owed(i) = 0
  BY <1>0 DEF Held, HasBlock, Owed
<1>2. \A i \in Items : sent[i] \in Nat
  BY SentCounts
<1>3. ASSUME NEW i \in Items,
             Visible(i) => sent'[i] = sent[i] + Owed(i)',
             item'[i] = "pending" => item[i] = "pending",
             item'[i] = "open" => item[i] \in {"pending", "open"}
      PROVE  Ledger(i)'
  <2>1. Ledger(i) /\ InPlay
    BY <1>0 DEF LedgerInv, InPlay
  <2>2. Visible(i) => Cardinality(Held(i)) = sent[i]
    <3>1. Cardinality(Held(i)) \in Nat
      BY <2>1, FS_CardinalityType DEF Ledger
    <3> QED
      BY <1>1, <2>1, <3>1 DEF Ledger
  <2>3. Visible(i) => Cardinality(Held(i)') + Owed(i)' = sent'[i]
    BY <1>1, <1>3, <2>2
  <2> QED
    BY <1>0, <1>1, <1>3, <2>1, <2>3 DEF Ledger, Visible
<1>4. ASSUME NEW j \in Items, ReadItemAdded(j)
      PROVE  LedgerInv'
  <2>1. /\ item[j] = "pending" /\ item' = [item EXCEPT ![j] = "open"]
        /\ sent' = sent /\ cur' = j /\ pc' \in {"open", "reading"}
    BY <1>4 DEF ReadItemAdded, Announces
  <2>2. \A i \in Items : item'[i] = IF i = j THEN "open" ELSE item[i]
    BY <2>1 DEF TypeOK
  <2>3. \A i \in Items : Owed(i)' = 0
    BY <2>1 DEF Owed
  <2>4. \A i \in Items : Ledger(i)'
    BY <1>2, <1>3, <2>1, <2>2, <2>3
  <2> QED
    BY <2>1, <2>2, <2>4 DEF LedgerInv, ItemInHand
<1>5. ASSUME NEW j \in Items, ReadDelta(j)
      PROVE  LedgerInv'
  <2>1. /\ item[j] = "open" /\ item' = item
        /\ sent' = [sent EXCEPT ![j] = @ + 1] /\ cur' = j
    BY <1>5 DEF ReadDelta, Streams
  <2>2. /\ Visible(j) => pc' \in {"delta", "openDelta"}
        /\ ~Visible(j) => pc' = "reading"
    BY <1>5 DEF ReadDelta
  <2>3. \A i \in Items : sent'[i] = IF i = j THEN sent[i] + 1 ELSE sent[i]
    BY <2>1 DEF TypeOK
  <2>4. \A i \in Items : Visible(i) => Owed(i)' = IF i = j THEN 1 ELSE 0
    BY <2>1, <2>2 DEF Owed
  <2>5. \A i \in Items : Visible(i) => sent'[i] = sent[i] + Owed(i)'
    BY <1>2, <2>3, <2>4
  <2>6. \A i \in Items : item[i] \in {"pending", "open", "done"}
    BY DEF TypeOK
  <2>7. \A i \in Items : Ledger(i)'
    BY <1>3, <2>1, <2>5, <2>6
  <2> QED
    BY <2>1, <2>2, <2>7 DEF LedgerInv, ItemInHand, Visible
<1>6. ASSUME NEW j \in Items, NEW encrypted \in BOOLEAN, ReadItemDone(j, encrypted)
      PROVE  LedgerInv'
  <2>1. /\ item[j] = "open" /\ item' = [item EXCEPT ![j] = "done"]
        /\ sent' = sent /\ cur' = j
    BY <1>6 DEF ReadItemDone, Completes
  <2>2. pc' \in {"sign", "close", "reading"}
    BY <1>6 DEF ReadItemDone
  <2>3. \A i \in Items : item'[i] = IF i = j THEN "done" ELSE item[i]
    BY <2>1 DEF TypeOK
  <2>4. \A i \in Items : Owed(i)' = 0
    BY <2>2 DEF Owed
  <2>5. \A i \in Items : Ledger(i)'
    BY <1>2, <1>3, <2>1, <2>3, <2>4
  <2> QED
    BY <2>1, <2>2, <2>3, <2>5 DEF LedgerInv, ItemInHand
<1>7. CASE SkipFrame
  <2>1. PICK j \in Items : Announces(j) \/ Completes(j)
    BY <1>7 DEF SkipFrame
  <2>2. /\ sent' = sent /\ pc' = "reading"
        /\ \/ item[j] = "pending" /\ item' = [item EXCEPT ![j] = "open"]
           \/ item[j] = "open" /\ item' = [item EXCEPT ![j] = "done"]
    BY <1>0, <1>7, <2>1 DEF SkipFrame, Announces, Completes
  <2>3. \A i \in Items : /\ Owed(i)' = 0
                         /\ item'[i] = "pending" => item[i] = "pending"
                         /\ item'[i] = "open" => item[i] \in {"pending", "open"}
    BY <2>2 DEF Owed, TypeOK
  <2>4. \A i \in Items : Ledger(i)'
    BY <1>2, <1>3, <2>2, <2>3
  <2> QED
    BY <2>2, <2>4 DEF LedgerInv, ItemInHand
<1>8. CASE \/ ReadCreated \/ ReadEOF \/ ReadError
           \/ \E u \in Usages : ReadCompleted(u) \/ ReadIncomplete(u)
           \/ \E code \in UpstreamCodes : ReadFailed(code)
  <2>1. item' = item /\ sent' = sent /\ pc' \in {"reading", "created", "finish", "fail"}
    BY <1>0, <1>8 DEF ReadCreated, ReadEOF, ReadError, ReadCompleted, ReadIncomplete,
                      ReadFailed, Ends
  <2>2. \A i \in Items : Owed(i)' = 0
    BY <2>1 DEF Owed
  <2>3. \A i \in Items : Ledger(i)'
    BY <1>2, <1>3, <2>1, <2>2
  <2> QED
    BY <2>1, <2>3 DEF LedgerInv, ItemInHand
<1> QED
  BY <1>4, <1>5, <1>6, <1>7, <1>8 DEF Read

\* Writing an event: the fragment in hand goes to the block of its item.
LEMMA WriteLedger ==
    ASSUME OwnKeys, TypeOK, TrackingInv, LedgerInv, Write
    PROVE  LedgerInv'
<1>0. cur \in Items /\ Key[cur] \in Keys /\ blockFor \in [Keys -> Nat]
      /\ \A i \in Items : Key[i] \in Keys /\ sent[i] \in Nat
  BY ConstantsOK, SentCounts DEF TypeOK
<1>1. \A i \in Items : Ledger(i)
  BY DEF LedgerInv
<1>2. ASSUME \A i \in Items : Held(i)' = Held(i), ~InPlay'
      PROVE  LedgerInv'
  BY <1>1, <1>2 DEF LedgerInv, Ledger, ItemInHand, InPlay
<1>3. CASE \/ WriteMessageDelta \/ WriteMessageStop \/ WriteError \/ WriteFails
  <2>1. UNCHANGED blocks /\ pc' \in {"stop", "returned"}
    BY <1>3 DEF WriteMessageDelta, WriteMessageStop, WriteError, WriteFails
  <2> QED
    BY <1>2, <2>1 DEF Held, InPlay
<1>4. CASE CloseLowest
  <2>1. pc' \in {"finish", "fail"} /\ \E k \in Keys : StopBlock(k)
    BY <1>4 DEF CloseLowest, OpenKeys
  <2>2. \A i \in Items : Held(i)' = Held(i)
    BY <2>1, StopKeepsHeld
  <2> QED
    BY <1>2, <2>1, <2>2 DEF InPlay
<1>5. CASE WriteMessageStart
  <2>1. /\ UNCHANGED <<blockFor, blocks, cur, item, sent>>
        /\ pc' = pc \/ (pc = "created" /\ pc' = "reading")
    BY <1>5 DEF WriteMessageStart, backendVars
  <2>2. \A i \in Items : Held(i)' = Held(i) /\ HasBlock(i)' = HasBlock(i) /\ Owed(i)' = Owed(i)
    BY <2>1 DEF Held, HasBlock, Owed
  <2>3. InPlay' => InPlay
    BY <2>1 DEF InPlay
  <2>4. \A i \in Items : Ledger(i)'
    BY <1>1, <2>1, <2>2, <2>3 DEF Ledger, Visible
  <2> QED
    BY <2>1, <2>4 DEF LedgerInv, ItemInHand, Visible
<1>6. CASE WriteBlockStart
  <2>1. /\ pc \in {"open", "openDelta"}
        /\ pc' = IF pc = "openDelta" THEN "delta" ELSE "reading"
        /\ blockFor' = [blockFor EXCEPT ![Key[cur]] = nextIndex]
        /\ UNCHANGED <<cur, item, sent>>
    BY <1>6 DEF WriteBlockStart, backendVars
  <2>2. /\ DOMAIN blocks' = DOMAIN blocks \cup {nextIndex}
        /\ nextIndex \notin DOMAIN blocks
        /\ \A b \in DOMAIN blocks : blocks'[b] = blocks[b]
        /\ blocks'[nextIndex].frags = <<>>
    <3>1. nextIndex = Len(blocks) + 1
      BY DEF TrackingInv
    <3>2. blocks'[nextIndex] = [src |-> cur, kind |-> BlockKind(cur),
                               open |-> TRUE, frags |-> <<>>]
      BY <1>6, <3>1, BlockStartEffect
    <3>3. blocks'[nextIndex].frags = <<>>
      BY <3>2
    <3>4. /\ DOMAIN blocks' = DOMAIN blocks \cup {nextIndex}
          /\ nextIndex \notin DOMAIN blocks
          /\ \A b \in DOMAIN blocks : blocks'[b] = blocks[b]
      BY <1>6, <3>1, BlockStartEffect
    <3> QED
      BY <3>3, <3>4
  <2>3. \A i \in Items : Held(i)' = Held(i)
    <3>1. DOMAIN blocks'[nextIndex].frags = {}
      BY <2>2
    <3>2. \A b \in DOMAIN blocks' \ DOMAIN blocks : b = nextIndex
      BY <2>2
    <3> QED
      BY <2>2, <3>1, <3>2, HeldStays
  <2>4. Held(cur) = {} /\ item[cur] = "open"
    <3>1. ~HasBlock(cur) /\ item[cur] = "open" /\ InPlay
      BY <2>1 DEF TrackingInv, LedgerInv, ItemInHand, InPlay
    <3> QED
      BY <1>0, <1>1, <3>1 DEF Ledger
  <2>5. \A i \in Items \ {cur} : blockFor'[Key[i]] = blockFor[Key[i]]
    BY <1>0, <2>1 DEF OwnKeys
  <2>6. HasBlock(cur)'
    <3>1. nextIndex # NoBlock
      <4>1. nextIndex = Len(blocks) + 1 /\ Len(blocks) \in Nat
        BY LenProperties DEF TrackingInv, TypeOK
      <4> QED
        BY <4>1 DEF NoBlock
    <3>2. blockFor'[Key[cur]] = nextIndex
      BY <1>0, <2>1
    <3> QED
      BY <2>1, <3>1, <3>2 DEF HasBlock
  <2>7. \A i \in Items : Owed(i)' = Owed(i)
    BY <2>1 DEF Owed
  <2>8. InPlay /\ \A i \in Items \ {cur} : HasBlock(i)' = HasBlock(i)
    BY <2>1, <2>5 DEF InPlay, HasBlock
  <2>9. \A i \in Items \ {cur} : Ledger(i)'
    BY <1>1, <2>1, <2>3, <2>5, <2>7, <2>8 DEF Ledger, Visible
  <2>10. Ledger(cur)'
    <3>1. Ledger(cur)
      BY <1>0, <1>1
    <3> QED
      BY <2>1, <2>3, <2>4, <2>6, <2>7, <2>8, <3>1, <1>0 DEF Ledger, Visible
  <2> QED
    BY <2>1, <2>9, <2>10 DEF LedgerInv, ItemInHand, Visible
<1>7. CASE WriteDelta
  <2>1. /\ pc = "delta" /\ pc' = "reading"
        /\ Deliver(Target(cur), DeltaType(cur))
        /\ UNCHANGED <<cur, item, sent, blockFor>>
    BY <1>7 DEF WriteDelta, backendVars, blockVars
  <2>2. HasBlock(cur) /\ Target(cur) = blockFor[Key[cur]] /\ OpenAtClient(Target(cur))
    BY <1>0, <2>1 DEF TrackingInv, MapMatches, HasBlock, Target
  <2>3. DeltaType(cur) \in Contract!DeltaTypes
    BY <1>0, ModelTypes
  <2>4. PICK n : /\ <<Target(cur), n>> \notin Held(cur)
                 /\ Held(cur)' = Held(cur) \cup {<<Target(cur), n>>}
    BY <2>1, <2>2, <2>3, DeliverAdds
  <2>5. \A i \in Items \ {cur} : Held(i)' = Held(i)
    BY <2>1, <2>2, <2>3, DeliverAdds
  <2>6. /\ InPlay /\ Owed(cur) = 1 /\ \A i \in Items : HasBlock(i)' = HasBlock(i)
        /\ \A i \in Items : Owed(i)' = 0
        /\ \A i \in Items \ {cur} : Owed(i) = 0
    BY <2>1 DEF InPlay, Owed, HasBlock
  <2>7. \A i \in Items \ {cur} : Ledger(i)'
    BY <1>1, <2>1, <2>5, <2>6 DEF Ledger, Visible
  <2>8. Ledger(cur)'
    <3>1. Ledger(cur)
      BY <1>0, <1>1
    <3>2. /\ IsFiniteSet(Held(cur)')
          /\ Cardinality(Held(cur)') = Cardinality(Held(cur)) + 1
      BY <2>4, <3>1, FS_AddElement DEF Ledger
    <3>3. Cardinality(Held(cur)) \in Nat
      BY <3>1, FS_CardinalityType DEF Ledger
    <3>4. Visible(cur) => Cardinality(Held(cur)') + Owed(cur)' = sent'[cur]
      <4>1. Visible(cur) => Cardinality(Held(cur)) + 1 = sent[cur]
        BY <2>6, <3>1 DEF Ledger
      <4>2. Owed(cur)' = 0 /\ sent'[cur] = sent[cur]
        BY <1>0, <2>1, <2>6 DEF Owed
      <4> QED
        BY <3>2, <3>3, <4>1, <4>2
    <3>5. \A p \in Held(cur)' : p[1] = blockFor[Key[cur]]
      BY <2>2, <2>4, <2>6, <3>1 DEF Ledger
    <3>6. item[cur] = "open"
      BY <2>1 DEF LedgerInv, ItemInHand
    <3>7. HasBlock(cur)' /\ item'[cur] = "open"
      BY <2>1, <2>2, <2>6, <3>6, <1>0
    <3>8. \A p \in Held(cur)' : p[1] = blockFor'[Key[cur']]
      BY <2>1, <3>5
    <3>9. \A p, q \in Held(cur)' : p[1] = q[1]
      BY <3>5
    <3> QED
      BY <3>2, <3>4, <3>7, <3>8, <3>9, <2>1 DEF Ledger, Visible
  <2> QED
    BY <2>1, <2>7, <2>8 DEF LedgerInv, ItemInHand
<1>8. CASE WriteSignature
  <2>1. /\ pc = "sign" /\ pc' \in {"close", "reading"}
        /\ Deliver(Target(cur), "signature_delta")
        /\ UNCHANGED <<cur, item, sent, blockFor>>
    BY <1>8 DEF WriteSignature, backendVars, blockVars
  <2>2. /\ "signature_delta" \in Contract!DeltaTypes
        /\ DeltaType(cur) # "signature_delta"
    <3>1. ItemType[cur] \in ItemTypes
      BY <1>0, ConstantsOK
    <3> QED
      BY <3>1 DEF Contract!DeltaTypes, DeltaType, ItemTypes
  <2>3. \A i \in Items : Held(i)' = Held(i)
    BY <2>1, <2>2, DeliverAdds
  <2>4. /\ InPlay /\ \A i \in Items : HasBlock(i)' = HasBlock(i)
        /\ \A i \in Items : Owed(i)' = 0 /\ Owed(i) = 0
    BY <2>1 DEF InPlay, Owed, HasBlock
  <2>5. \A i \in Items : Ledger(i)'
    BY <1>1, <2>1, <2>3, <2>4 DEF Ledger, Visible
  <2> QED
    BY <2>1, <2>5 DEF LedgerInv, ItemInHand
<1>9. CASE WriteBlockStop
  <2>1. /\ pc = "close" /\ pc' = "reading" /\ StopBlock(Key[cur])
        /\ UNCHANGED <<cur, item, sent>>
        /\ blockFor' = [blockFor EXCEPT ![Key[cur]] = NoBlock]
    BY <1>9 DEF WriteBlockStop, StopBlock, backendVars
  <2>2. \A i \in Items : Held(i)' = Held(i)
    BY <1>0, <2>1, StopKeepsHeld
  <2>3. \A i \in Items \ {cur} : blockFor'[Key[i]] = blockFor[Key[i]]
    BY <1>0, <2>1 DEF OwnKeys
  <2>4. ~HasBlock(cur)' /\ item'[cur] = "done"
    BY <1>0, <2>1 DEF HasBlock, LedgerInv, ItemInHand
  <2>5. /\ InPlay /\ \A i \in Items \ {cur} : HasBlock(i)' = HasBlock(i)
        /\ \A i \in Items : Owed(i)' = 0 /\ Owed(i) = 0
    BY <2>1, <2>3 DEF InPlay, Owed, HasBlock
  <2>6. \A i \in Items \ {cur} : Ledger(i)'
    BY <1>1, <2>1, <2>2, <2>3, <2>5 DEF Ledger, Visible
  <2>7. Ledger(cur)'
    <3>1. Ledger(cur)
      BY <1>0, <1>1
    <3> QED
      BY <1>0, <2>1, <2>2, <2>4, <2>5, <3>1 DEF Ledger, Visible
  <2> QED
    BY <2>1, <2>6, <2>7 DEF LedgerInv, ItemInHand
<1> QED
  BY <1>3, <1>4, <1>5, <1>6, <1>7, <1>8, <1>9 DEF Write

\* Whenever the translator waits for a frame, the client holds every visible
\* fragment read so far, each item's in one block (delta, itemAdded), whatever
\* frames were skipped and however the items interleave.
THEOREM NothingIsLost ==
    ASSUME OwnKeys
    PROVE  Spec => []NothingLost
<1>1. Init => LedgerInv
  <2> SUFFICES ASSUME Init PROVE LedgerInv
    OBVIOUS
  <2>1. /\ blocks = <<>> /\ pc = "reading"
        /\ \A i \in Items : sent[i] = 0 /\ item[i] = "pending" /\ ~HasBlock(i)
    BY ConstantsOK DEF Init, HasBlock
  <2>2. \A i \in Items : Held(i) = {}
    <3>1. DOMAIN blocks = {}
      <4>1. blocks \in Seq(Contract!Block) /\ Len(blocks) = 0
        BY <2>1, EmptySeq
      <4> QED
        BY <4>1, LenProperties
    <3> QED
      BY <3>1 DEF Held
  <2>3. \A i \in Items : Owed(i) = 0
    BY <2>1 DEF Owed
  <2>4. IsFiniteSet({}) /\ Cardinality({}) = 0
    BY FS_EmptySet
  <2>5. \A i \in Items : Ledger(i)
    BY <2>1, <2>2, <2>3, <2>4 DEF Ledger
  <2> QED
    BY <2>1, <2>5 DEF LedgerInv, ItemInHand
<1>2. (TypeOK /\ TrackingInv) /\ LedgerInv /\ [Next]_vars => LedgerInv'
  <2> SUFFICES ASSUME TypeOK, TrackingInv, LedgerInv, [Next]_vars
               PROVE  LedgerInv'
    OBVIOUS
  <2>1. CASE UNCHANGED vars
    <3>1. UNCHANGED <<item, sent, pc, cur, blockFor, blocks>>
      BY <2>1 DEF vars, backendVars, blockVars, clientVars
    <3>2. \A i \in Items : /\ Held(i)' = Held(i) /\ Owed(i)' = Owed(i)
                           /\ HasBlock(i)' <=> HasBlock(i)
      BY <3>1 DEF Held, HasBlock, Owed
    <3>3. ItemInHand' /\ (InPlay' <=> InPlay)
      BY <3>1 DEF LedgerInv, ItemInHand, InPlay, Visible
    <3>4. ASSUME NEW i \in Items
          PROVE  Ledger(i)'
      <4>1. Held(i)' = Held(i) /\ Owed(i)' = Owed(i) /\ (HasBlock(i)' <=> HasBlock(i))
        BY <3>2, Zenon
      <4>2. Ledger(i)
        BY DEF LedgerInv
      <4> QED
        BY <3>1, <3>3, <4>1, <4>2, Zenon DEF Ledger, Visible
    <3> QED
      BY <3>3, <3>4 DEF LedgerInv
  <2> QED
    BY <2>1, ReadLedger, WriteLedger DEF Next, Done
<1>3. TypeOK /\ LedgerInv => NothingLost
  <2> SUFFICES ASSUME TypeOK, LedgerInv, pc = "reading", NEW i \in Items, Visible(i)
               PROVE  /\ Cardinality(Held(i)) = sent[i]
                      /\ \A p, q \in Held(i) : p[1] = q[1]
    BY DEF NothingLost
  <2>1. Ledger(i) /\ InPlay /\ Owed(i) = 0
    BY DEF LedgerInv, InPlay, Owed
  <2>2. Cardinality(Held(i)) \in Nat
    BY <2>1, FS_CardinalityType DEF Ledger
  <2> QED
    BY <2>1, <2>2 DEF Ledger
<1> QED
  BY <1>1, <1>2, <1>3, TrackingIsInvariant, PTL DEF Spec

=============================================================================
