--------------------------- MODULE AnthropicStream ---------------------------
(***************************************************************************)
(* The contract of one streamed Messages response, as the client sees it.  *)
(*                                                                         *)
(* Claude Code folds the events it receives into a message: it appends a   *)
(* content block for every content_block_start, addresses every delta and  *)
(* stop by the block's position, and finishes at message_stop or error.    *)
(* Both stream translators of the gateway implement this module.           *)
(*                                                                         *)
(* A block remembers the upstream item it was opened for (src); a fragment *)
(* is a delta, with the item it came from and its type.                    *)
(***************************************************************************)
EXTENDS Naturals, Sequences

CONSTANTS Sources,      \* upstream items a block can stand for
          Concurrent    \* may several blocks be open at once?

VARIABLES phase,        \* what the client has seen of the response
          blocks,       \* the content blocks received, by position
          stop          \* stop_reason of message_delta, or "none"

vars == <<phase, blocks, stop>>

BlockKinds == {"thinking", "text", "tool_use"}

DeltaTypes == {"thinking_delta", "signature_delta", "text_delta",
               "input_json_delta"}

\* The delta types a block of each kind may carry.
DeltasOf(kind) ==
    CASE kind = "thinking" -> {"thinking_delta", "signature_delta"}
      [] kind = "text"     -> {"text_delta"}
      [] kind = "tool_use" -> {"input_json_delta"}

StopReasons == {"end_turn", "tool_use", "max_tokens"}

Phases == {"waiting", "streaming", "settled", "stopped", "errored", "cut"}

Fragment == [src : Sources, type : DeltaTypes]

Block == [src : Sources, kind : BlockKinds, open : BOOLEAN, frags : Seq(Fragment)]

TypeOK ==
    /\ phase \in Phases
    /\ blocks \in Seq(Block)
    /\ stop \in StopReasons \cup {"none"}

-----------------------------------------------------------------------------
OpenBlocks == {b \in DOMAIN blocks : blocks[b].open}

Init ==
    /\ phase = "waiting"
    /\ blocks = <<>>
    /\ stop = "none"

\* message_start: exactly once and before everything else.
MessageStart ==
    /\ phase = "waiting"
    /\ phase' = "streaming"
    /\ UNCHANGED <<blocks, stop>>

\* content_block_start: the next index, appended.
ContentBlockStart(s, kind) ==
    /\ phase = "streaming"
    /\ Concurrent \/ OpenBlocks = {}
    /\ blocks' = Append(blocks,
                        [src |-> s, kind |-> kind, open |-> TRUE, frags |-> <<>>])
    /\ UNCHANGED <<phase, stop>>

\* content_block_delta: into an open block, of the block's own item and kind.
ContentBlockDelta(b, type) ==
    /\ phase = "streaming"
    /\ b \in OpenBlocks
    /\ type \in DeltasOf(blocks[b].kind)
    /\ blocks' = [blocks EXCEPT ![b].frags =
                     Append(@, [src |-> blocks[b].src, type |-> type])]
    /\ UNCHANGED <<phase, stop>>

ContentBlockStop(b) ==
    /\ phase = "streaming"
    /\ b \in OpenBlocks
    /\ blocks' = [blocks EXCEPT ![b].open = FALSE]
    /\ UNCHANGED <<phase, stop>>

\* message_delta: the stop reason, once every block is closed.
MessageDelta ==
    /\ phase = "streaming"
    /\ OpenBlocks = {}
    /\ phase' = "settled"
    /\ stop' \in StopReasons
    /\ UNCHANGED blocks

MessageStop ==
    /\ phase = "settled"
    /\ phase' = "stopped"
    /\ UNCHANGED <<blocks, stop>>

\* error: ends the response in-band, also with every block closed.
Error ==
    /\ phase = "streaming"
    /\ OpenBlocks = {}
    /\ phase' = "errored"
    /\ UNCHANGED <<blocks, stop>>

\* The connection to the client breaks: it sees nothing more.
Cut ==
    /\ phase \in {"waiting", "streaming", "settled"}
    /\ phase' = "cut"
    /\ UNCHANGED <<blocks, stop>>

Next ==
    \/ MessageStart
    \/ \E s \in Sources, kind \in BlockKinds : ContentBlockStart(s, kind)
    \/ \E b \in DOMAIN blocks :
          \/ \E type \in DeltaTypes : ContentBlockDelta(b, type)
          \/ ContentBlockStop(b)
    \/ MessageDelta
    \/ MessageStop
    \/ Error
    \/ Cut

Spec == Init /\ [][Next]_vars

=============================================================================
