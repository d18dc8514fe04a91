----------------------------- MODULE CodexStream -----------------------------
(***************************************************************************)
(* The Codex stream translator: StreamTranslator.Run turns the backend's   *)
(* Responses SSE stream into the Anthropic Messages stream the client      *)
(* folds into a message.                                                   *)
(*                                                                         *)
(* Three parties:                                                          *)
(*   the backend     streams items, identified by output_index, freely     *)
(*                   interleaved (external: modelled from the events the   *)
(*                   translator handles);                                  *)
(*   the translator  one goroutine: it reads a frame and makes the writes  *)
(*                   the frame calls for, one event at a time, each of     *)
(*                   which may fail because the client is gone;            *)
(*   the client      applies each event it receives to its content blocks  *)
(*                   (AnthropicStream, the contract).                      *)
(*                                                                         *)
(* pc says where the translator is. "reading" is r.Next(); every other     *)
(* value but "returned" is the rest of the handler of the frame read last, *)
(* which is about the item cur. One action is one write and the            *)
(* bookkeeping that goes with it.                                          *)
(*                                                                         *)
(* Block indices count from 1 here and from 0 on the wire, so that an      *)
(* index is the block's position in the client's sequence and 0 can stand  *)
(* for an output_index that has no block in the map.                       *)
(***************************************************************************)
EXTENDS Integers, Sequences, FiniteSets

CONSTANTS
    Items,          \* the items of the response
    ItemType,       \* their types, as announced by the backend
    Keys,           \* the output indexes
    Key,            \* the output_index the frames of an item carry
    Sequential,     \* does the backend finish an item before the next one?
    Lossy,          \* may frames be unparsable? (they are skipped)
    ReasoningMode,  \* "thinking" or "drop"
    MaxDeltas,      \* bound: fragments the backend streams per item
    UpstreamCodes,  \* error codes a response.failed may carry; "" is none
    Usages,         \* usage records response.completed may carry
    EstimatedInput  \* the estimate that seeds message_start

ItemTypes == {"message", "reasoning", "function_call"}

ASSUME ConstantsOK ==
    /\ Items # {}
    /\ ItemType \in [Items -> ItemTypes]
    /\ Key \in [Items -> Keys]
    /\ Sequential \in BOOLEAN
    /\ Lossy \in BOOLEAN
    /\ ReasoningMode \in {"thinking", "drop"}
    /\ MaxDeltas \in Nat
    /\ Usages \subseteq [input : Nat, cached : Nat]
    /\ EstimatedInput \in Nat

VARIABLES
    \* the backend
    upstream,       \* "new", "live", "ended" (terminal frame sent), "closed"
    item,           \* per item: "pending", "open" or "done"
    sent,           \* per item: fragments read by the translator
    \* the translator
    pc, cur,
    started, blockFor, curIndex, nextIndex,
    usage, stopReason, sawToolCall, errKind,
    \* the client
    phase, blocks, stop, reported

backendVars == <<upstream, item, sent>>
blockVars   == <<started, blockFor, curIndex, nextIndex>>
resultVars  == <<usage, stopReason, sawToolCall, errKind>>
clientVars  == <<phase, blocks, stop, reported>>
vars == <<backendVars, pc, cur, blockVars, resultVars, clientVars>>

NoBlock == 0
NoUsage == [input |-> 0, cached |-> 0]

\* The contract this module implements. A client that was sent a delta for a
\* block it does not have open is in no phase of it.
Contract == INSTANCE AnthropicStream WITH Sources <- Items, Concurrent <- TRUE

BlockKind(i) ==
    CASE ItemType[i] = "message"       -> "text"
      [] ItemType[i] = "reasoning"     -> "thinking"
      [] ItemType[i] = "function_call" -> "tool_use"

DeltaType(i) ==
    CASE ItemType[i] = "message"       -> "text_delta"
      [] ItemType[i] = "reasoning"     -> "thinking_delta"
      [] ItemType[i] = "function_call" -> "input_json_delta"

\* Reasoning is discarded altogether in drop mode.
Visible(i) == ItemType[i] # "reasoning" \/ ReasoningMode = "thinking"

HasBlock(i) == blockFor[Key[i]] # NoBlock

Handlers == {"created", "open", "openDelta", "delta", "sign", "close",
             "finish", "stop", "fail"}

Phases == Contract!Phases \cup {"confused"}

TypeOK ==
    /\ upstream \in {"new", "live", "ended", "closed"}
    /\ item \in [Items -> {"pending", "open", "done"}]
    /\ sent \in [Items -> 0..MaxDeltas]
    /\ pc \in Handlers \cup {"reading", "returned"}
    /\ cur \in Items
    /\ started \in BOOLEAN
    /\ blockFor \in [Keys -> Nat]
    /\ curIndex \in Nat
    /\ nextIndex \in Nat
    /\ usage \in [input : Nat, cached : Nat]
    /\ stopReason \in {"none", "max_tokens"}
    /\ sawToolCall \in BOOLEAN
    /\ errKind \in UpstreamCodes \cup {"", "api_error"}
    /\ phase \in Phases
    /\ blocks \in Seq(Contract!Block)
    /\ stop \in Contract!StopReasons \cup {"none"}
    /\ reported \in [input : Nat, cached : Nat]

Init ==
    /\ upstream = "new"
    /\ item = [i \in Items |-> "pending"]
    /\ sent = [i \in Items |-> 0]
    /\ pc = "reading"
    /\ cur = CHOOSE i \in Items : TRUE
    /\ started = FALSE
    /\ blockFor = [k \in Keys |-> NoBlock]
    /\ curIndex = 1
    /\ nextIndex = 1
    /\ usage = NoUsage
    /\ stopReason = "none"
    /\ sawToolCall = FALSE
    /\ errKind = ""
    /\ phase = "waiting"
    /\ blocks = <<>>
    /\ stop = "none"
    /\ reported = NoUsage

-----------------------------------------------------------------------------
(* The backend: which frame it may stream next.                            *)

Announces(i) ==
    /\ upstream \in {"new", "live"}
    /\ item[i] = "pending"
    /\ Sequential => \A j \in Items : item[j] # "open"
    /\ item' = [item EXCEPT ![i] = "open"]
    /\ upstream' = "live"
    /\ UNCHANGED sent

Streams(i) ==
    /\ upstream = "live"
    /\ item[i] = "open"
    /\ sent[i] < MaxDeltas
    /\ sent' = [sent EXCEPT ![i] = @ + 1]
    /\ UNCHANGED <<upstream, item>>

Completes(i) ==
    /\ upstream = "live"
    /\ item[i] = "open"
    /\ item' = [item EXCEPT ![i] = "done"]
    /\ UNCHANGED <<upstream, sent>>

\* The frame that ends the response; items still open stay so, as they do when
\* the response is incomplete or fails half-way.
Ends ==
    /\ upstream \in {"new", "live"}
    /\ upstream' = "ended"
    /\ UNCHANGED <<item, sent>>

\* A completed response has completed its items.
AllItemsDone == \A i \in Items : item[i] # "open"

-----------------------------------------------------------------------------
(* Reading a frame.                                                        *)

Reading == pc = "reading"

\* response.created
ReadCreated ==
    /\ Reading
    /\ upstream = "new"
    /\ upstream' = "live"
    /\ pc' = IF started THEN "reading" ELSE "created"
    /\ UNCHANGED <<item, sent, cur, blockVars, resultVars, clientVars>>

\* Mutant: itemAdded forgets that it saw a tool call.
ReadItemAdded_NoToolFlag(i) ==
    /\ Reading
    /\ Announces(i)
    /\ cur' = i
    /\ pc' = IF Visible(i) /\ ~HasBlock(i) THEN "open" ELSE "reading"
    /\ UNCHANGED <<blockVars, resultVars, clientVars>>

\* response.output_item.added: itemAdded
ReadItemAdded(i) ==
    /\ Reading
    /\ Announces(i)
    /\ cur' = i
    /\ pc' = IF Visible(i) /\ ~HasBlock(i) THEN "open" ELSE "reading"
    /\ sawToolCall' = (sawToolCall \/ ItemType[i] = "function_call")
    /\ UNCHANGED <<blockVars, usage, stopReason, errKind, clientVars>>

\* Mutant: a delta whose output_item.added was missed is dropped.
ReadDelta_MissedDropped(i) ==
    /\ Reading
    /\ Streams(i)
    /\ cur' = i
    /\ pc' = IF Visible(i) /\ HasBlock(i) THEN "delta" ELSE "reading"
    /\ UNCHANGED <<blockVars, resultVars, clientVars>>

\* response.output_text.delta, the two reasoning deltas and
\* response.function_call_arguments.delta, with a non-empty delta. Each opens
\* the item's block if its output_item.added was missed.
ReadDelta(i) ==
    /\ Reading
    /\ Streams(i)
    /\ cur' = i
    /\ pc' = CASE ~Visible(i) -> "reading"
               [] Visible(i) /\ HasBlock(i) -> "delta"
               [] Visible(i) /\ ~HasBlock(i) -> "openDelta"
    /\ UNCHANGED <<blockVars, resultVars, clientVars>>

\* response.output_item.done. A reasoning item that carries encrypted content
\* is signed first: the signature delta goes to the item's block, or to the
\* block opened last if it has none.
ReadItemDone(i, encrypted) ==
    /\ Reading
    /\ Completes(i)
    /\ encrypted => ItemType[i] = "reasoning"
    /\ cur' = i
    /\ pc' = CASE encrypted /\ Visible(i) -> "sign"
               [] ~(encrypted /\ Visible(i)) /\ HasBlock(i) -> "close"
               [] ~(encrypted /\ Visible(i)) /\ ~HasBlock(i) -> "reading"
    /\ UNCHANGED <<blockVars, resultVars, clientVars>>

\* response.completed
ReadCompleted(u) ==
    /\ Reading
    /\ AllItemsDone
    /\ Ends
    /\ usage' = u
    /\ UNCHANGED <<pc, cur, blockVars, stopReason, sawToolCall, errKind, clientVars>>

\* response.incomplete
ReadIncomplete(u) ==
    /\ Reading
    /\ Ends
    /\ usage' = u
    /\ stopReason' = "max_tokens"
    /\ UNCHANGED <<pc, cur, blockVars, sawToolCall, errKind, clientVars>>

\* response.failed: the kind is the upstream's code when there is one.
ReadFailed(code) ==
    /\ Reading
    /\ Ends
    /\ errKind' = IF code # "" THEN code ELSE "api_error"
    /\ pc' = "fail"
    /\ UNCHANGED <<cur, blockVars, usage, stopReason, sawToolCall, clientVars>>

\* Mutant: the loop returns at the end of the body instead of breaking out.
ReadEOF_Returns ==
    /\ Reading
    /\ upstream' = "closed"
    /\ pc' = "returned"
    /\ UNCHANGED <<item, sent, cur, blockVars, resultVars, clientVars>>

\* The body ends, after a terminal frame or without one.
ReadEOF ==
    /\ Reading
    /\ upstream' = "closed"
    /\ pc' = "finish"
    /\ UNCHANGED <<item, sent, cur, blockVars, resultVars, clientVars>>

\* The body breaks.
ReadError ==
    /\ Reading
    /\ upstream' = "closed"
    /\ errKind' = "api_error"
    /\ pc' = "fail"
    /\ UNCHANGED <<item, sent, cur, blockVars, usage, stopReason, sawToolCall,
                   clientVars>>

\* A frame that cannot be parsed is skipped: the backend has moved on and the
\* translator has not.
SkipFrame ==
    /\ Reading
    /\ Lossy
    /\ \E i \in Items : Announces(i) \/ Completes(i)
    /\ UNCHANGED <<pc, cur, blockVars, resultVars, clientVars>>

-----------------------------------------------------------------------------
(* Writing: what each event does to the translator and to the client.      *)

\* The client cannot apply an event about a block it does not have open.
OpenAtClient(b) == b \in DOMAIN blocks /\ blocks[b].open

\* Once confused, the client stays so.
Enter(p) == phase' = IF phase = "confused" THEN phase ELSE p

\* ensureStarted
WriteMessageStart ==
    /\ pc \in {"created", "open", "openDelta", "finish", "fail"}
    /\ ~started
    /\ started' = TRUE
    /\ pc' = IF pc = "created" THEN "reading" ELSE pc
    /\ Enter("streaming")
    /\ UNCHANGED <<backendVars, cur, blockFor, curIndex, nextIndex, resultVars,
                   blocks, stop, reported>>

\* Mutant: openBlock does not make sure message_start was sent.
WriteBlockStart_NotStarted ==
    /\ pc \in {"open", "openDelta"}
    /\ blockFor' = [blockFor EXCEPT ![Key[cur]] = nextIndex]
    /\ curIndex' = nextIndex
    /\ nextIndex' = nextIndex + 1
    /\ pc' = IF pc = "openDelta" THEN "delta" ELSE "reading"
    /\ blocks' = Append(blocks, [src |-> cur, kind |-> BlockKind(cur),
                                 open |-> TRUE, frags |-> <<>>])
    /\ UNCHANGED <<backendVars, cur, started, resultVars, phase, stop, reported>>

\* openBlock
WriteBlockStart ==
    /\ pc \in {"open", "openDelta"}
    /\ started
    /\ blockFor' = [blockFor EXCEPT ![Key[cur]] = nextIndex]
    /\ curIndex' = nextIndex
    /\ nextIndex' = nextIndex + 1
    /\ pc' = IF pc = "openDelta" THEN "delta" ELSE "reading"
    /\ blocks' = Append(blocks, [src |-> cur, kind |-> BlockKind(cur),
                                 open |-> TRUE, frags |-> <<>>])
    /\ UNCHANGED <<backendVars, cur, started, resultVars, phase, stop, reported>>

\* Mutant: deltas go to the block opened last.
Target_Current(i) == curIndex

\* delta: the block owning the output index, or the one opened last.
Target(i) == IF HasBlock(i) THEN blockFor[Key[i]] ELSE curIndex

Deliver(b, type) ==
    IF OpenAtClient(b)
    THEN /\ blocks' = [blocks EXCEPT ![b].frags =
                           Append(@, [src |-> cur, type |-> type])]
         /\ UNCHANGED phase
    ELSE /\ phase' = "confused"
         /\ UNCHANGED blocks

WriteDelta ==
    /\ pc = "delta"
    /\ Deliver(Target(cur), DeltaType(cur))
    /\ pc' = "reading"
    /\ UNCHANGED <<backendVars, cur, blockVars, resultVars, stop, reported>>

WriteSignature ==
    /\ pc = "sign"
    /\ Deliver(Target(cur), "signature_delta")
    /\ pc' = IF HasBlock(cur) THEN "close" ELSE "reading"
    /\ UNCHANGED <<backendVars, cur, blockVars, resultVars, stop, reported>>

\* Mutant: the entry of a closed block is not deleted from the map.
StopBlock_KeepsEntry(k) ==
    /\ blocks' = [blocks EXCEPT ![blockFor[k]].open = FALSE]
    /\ UNCHANGED blockFor

\* The stop event of the block mapped at key k.
StopBlock(k) ==
    /\ blockFor' = [blockFor EXCEPT ![k] = NoBlock]
    /\ blocks' = [blocks EXCEPT ![blockFor[k]].open = FALSE]

\* closeIndex
WriteBlockStop ==
    /\ pc = "close"
    /\ StopBlock(Key[cur])
    /\ pc' = "reading"
    /\ UNCHANGED <<backendVars, cur, started, curIndex, nextIndex, resultVars,
                   phase, stop, reported>>

OpenKeys == {k \in Keys : blockFor[k] # NoBlock}

\* closeAll: one iteration, lowest index first.
CloseLowest ==
    /\ pc \in {"finish", "fail"}
    /\ started
    /\ \E k \in OpenKeys :
          /\ \A l \in OpenKeys : blockFor[k] <= blockFor[l]
          /\ StopBlock(k)
    /\ UNCHANGED <<backendVars, pc, cur, started, curIndex, nextIndex, resultVars,
                   phase, stop, reported>>

\* finish: the usage the client is told. Cached tokens are counted apart, and
\* the estimate stands in for a total of zero.
FinalUsage(u) ==
    LET fresh == IF u.cached = 0 THEN u.input
                 ELSE IF u.input > u.cached THEN u.input - u.cached ELSE 0
    IN [input  |-> IF fresh + u.cached = 0 THEN EstimatedInput ELSE fresh,
        cached |-> u.cached]

StopOf == CASE stopReason # "none" -> stopReason
            [] stopReason = "none" /\ sawToolCall -> "tool_use"
            [] stopReason = "none" /\ ~sawToolCall -> "end_turn"

WriteMessageDelta ==
    /\ pc = "finish"
    /\ started
    /\ OpenKeys = {}
    /\ pc' = "stop"
    /\ stop' = StopOf
    /\ reported' = FinalUsage(usage)
    /\ Enter("settled")
    /\ UNCHANGED <<backendVars, cur, blockVars, resultVars, blocks>>

WriteMessageStop ==
    /\ pc = "stop"
    /\ pc' = "returned"
    /\ Enter("stopped")
    /\ UNCHANGED <<backendVars, cur, blockVars, resultVars, blocks, stop, reported>>

\* Mutant: fail does not close the blocks left open.
WriteError_Early ==
    /\ pc = "fail"
    /\ started
    /\ pc' = "returned"
    /\ Enter("errored")
    /\ UNCHANGED <<backendVars, cur, blockVars, resultVars, blocks, stop, reported>>

WriteError ==
    /\ pc = "fail"
    /\ started
    /\ OpenKeys = {}
    /\ pc' = "returned"
    /\ Enter("errored")
    /\ UNCHANGED <<backendVars, cur, blockVars, resultVars, blocks, stop, reported>>

\* The write fails, and with it the handler and the loop. The error is sticky
\* in the StreamWriter, so nothing is written after it. What the translator noted
\* for that write, a block in its map or a message begun, is not read again and is
\* left as it was.
WriteFails ==
    /\ pc \in Handlers
    /\ pc' = "returned"
    /\ Enter("cut")
    /\ UNCHANGED <<backendVars, cur, blockVars, resultVars, blocks, stop, reported>>

\* The request is over.
Done ==
    /\ pc = "returned"
    /\ UNCHANGED vars

-----------------------------------------------------------------------------
Read ==
    \/ ReadCreated
    \/ \E i \in Items :
          \/ ReadItemAdded(i)
          \/ ReadDelta(i)
          \/ \E encrypted \in BOOLEAN : ReadItemDone(i, encrypted)
    \/ \E u \in Usages : ReadCompleted(u) \/ ReadIncomplete(u)
    \/ \E code \in UpstreamCodes : ReadFailed(code)
    \/ ReadEOF
    \/ ReadError
    \/ SkipFrame

Write ==
    \/ WriteMessageStart
    \/ WriteBlockStart
    \/ WriteDelta
    \/ WriteSignature
    \/ WriteBlockStop
    \/ CloseLowest
    \/ WriteMessageDelta
    \/ WriteMessageStop
    \/ WriteError
    \/ WriteFails

Next == Read \/ Write \/ Done

Spec == Init /\ [][Next]_vars

\* The translator's goroutine is scheduled; nothing obliges the backend to
\* send another frame.
FairSpec == Spec /\ WF_vars(Write)

-----------------------------------------------------------------------------
(* Properties                                                              *)

\* The fragments of item i the client holds, as <<block, position>> pairs.
Held(i) == UNION {{<<b, n>> : n \in {m \in DOMAIN blocks[b].frags :
                                        /\ blocks[b].frags[m].src = i
                                        /\ blocks[b].frags[m].type = DeltaType(i)}}
                  : b \in DOMAIN blocks}

\* Every delta lands in the block of its own item and is of a type that block
\* may carry, however the items interleave: argument fragments of two parallel
\* tool calls never mix. delta() promises "the block owning this output index".
FragmentsInOwnBlock ==
    \A b \in DOMAIN blocks : \A n \in DOMAIN blocks[b].frags :
        LET f == blocks[b].frags[n]
        IN  f.src = blocks[b].src /\ f.type \in Contract!DeltasOf(blocks[b].kind)

\* No fragment is lost or split off: whenever the translator waits for a frame,
\* the client holds every visible fragment read so far, each item's in one block.
NothingLost ==
    pc = "reading" =>
        \A i \in Items : Visible(i) =>
            /\ Cardinality(Held(i)) = sent[i]
            /\ \A p, q \in Held(i) : p[1] = q[1]

\* blockFor names exactly the blocks the client has open.
MapMatches ==
    /\ \A k \in Keys : blockFor[k] # NoBlock => OpenAtClient(blockFor[k])
    /\ \A b \in DOMAIN blocks :
          blocks[b].open => \E k \in Keys : blockFor[k] = b

\* As long as the client can be written to, the translator's map neither forgets
\* a block of the client's nor keeps one it has closed.
MapTracksOpenBlocks == phase # "cut" => MapMatches

\* A response ends, in success or in error, only with every block closed, a
\* response that broke off in the middle of its items included (finish, fail).
AllClosedAtEnd ==
    phase \in {"settled", "stopped", "errored"} =>
        \A b \in DOMAIN blocks : ~blocks[b].open

\* stop_reason tells the client to run tools exactly when the response holds a
\* tool call, unless the response was incomplete (finish, itemAdded).
StopReasonMatchesContent ==
    phase \in {"settled", "stopped"} =>
        CASE stopReason = "none" ->
                (stop = "tool_use") <=>
                    \E b \in DOMAIN blocks : blocks[b].kind = "tool_use"
          [] stopReason # "none" -> stop = stopReason

\* The client is never told that no context is in use when an estimate exists,
\* and is told the backend's total when the backend reports a consistent one
\* (finish: "reads a zero total as a real measurement").
UsageIsReal ==
    phase \in {"settled", "stopped"} =>
        /\ EstimatedInput > 0 => reported.input + reported.cached > 0
        /\ usage.input > 0 /\ usage.cached <= usage.input =>
              reported.input + reported.cached = usage.input

\* What the client is told at the end is what it was sent.
ReportIsTrue == StopReasonMatchesContent /\ UsageIsReal

\* The translator implements the contract of a streamed response.
ImplementsContract == Contract!Spec

\* Once the backend's body has ended or broken, the client is told: the stream
\* ends with message_stop or error unless the client itself has gone.
EveryResponseEnds ==
    upstream = "closed" ~> phase \in {"stopped", "errored", "cut"}

-----------------------------------------------------------------------------
(* What the proofs of these properties rest on.                            *)

\* The map and the client agree, whatever the backend does.
TrackingInv ==
    /\ nextIndex = Len(blocks) + 1
    /\ MapMatches
    /\ \A k, l \in OpenKeys : blockFor[k] = blockFor[l] => k = l
    /\ pc \in {"open", "openDelta"} => ~HasBlock(cur)
    /\ pc \in {"delta", "close"} => HasBlock(cur)
    /\ phase \in {"settled", "stopped", "errored"} => pc \in {"stop", "returned"}
    /\ pc = "stop" \/ phase \in {"settled", "stopped", "errored"} => OpenKeys = {}

\* A backend whose frames can all be parsed and that does not mix up two items:
\* their indexes differ, or one is done before the next begins.
WellBehaved ==
    /\ ~Lossy
    /\ Sequential \/ \A i, j \in Items : Key[i] = Key[j] => i = j

\* The items that may still have a block.
Active(i) == item[i] = "open" \/ (pc \in {"sign", "close"} /\ cur = i)

Owner(k) == blocks[blockFor[k]].src

\* No two active items carry the same key.
OneActivePerKey ==
    \A i, j \in Items : Active(i) /\ Active(j) /\ Key[i] = Key[j] => i = j

\* The block mapped at a key is the block of the active item that carries it.
OwnersActive ==
    pc # "returned" => \A k \in OpenKeys : Key[Owner(k)] = k /\ Active(Owner(k))

CurProgress ==
    /\ pc \in {"open", "delta"} => item[cur] = "open"
    /\ pc \in {"sign", "close"} => item[cur] = "done"
    /\ pc = "sign" => ItemType[cur] = "reasoning" /\ HasBlock(cur)
    /\ pc # "openDelta"

\* Between two frames every item in progress that is shown has its block.
OpenItemsHaveBlocks ==
    pc \in {"reading", "created", "open", "delta", "sign", "close"} =>
        \A i \in Items : item[i] = "open" /\ Visible(i) /\ ~(pc = "open" /\ cur = i)
                         => HasBlock(i)

KindsMatch == \A b \in DOMAIN blocks : blocks[b].kind = BlockKind(blocks[b].src)

StartedFirst ==
    OpenKeys # {} \/ pc \in {"delta", "sign", "close", "stop"} => started

PhaseFollows ==
    /\ phase # "confused"
    /\ pc # "returned" => phase = IF ~started THEN "waiting"
                                  ELSE IF pc = "stop" THEN "settled" ELSE "streaming"

OwnershipInv ==
    /\ OneActivePerKey
    /\ OwnersActive
    /\ CurProgress
    /\ OpenItemsHaveBlocks
    /\ KindsMatch
    /\ FragmentsInOwnBlock
    /\ StartedFirst
    /\ PhaseFollows

=============================================================================
