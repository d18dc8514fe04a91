# A verification development for the Claude Code LLM gateway

`ccgw` is a local gateway between Claude Code, which speaks the Anthropic
Messages API, and other backends: a ChatGPT/Codex subscription, any
OpenAI-compatible Chat Completions server, any Anthropic-compatible server, and
Anthropic itself. This directory holds TLA+ modules of its parts, TLC
configurations that check them on small instances, and proofs checked by TLAPS.
Paths such as `codex/stream.go` are below `src/internal/provider/` or
`src/internal/`.

## The system

| Component | State it keeps | Operations | Talks to |
|---|---|---|---|
| HTTP server (`server/server.go`) | none per request | messages, count_tokens, models, health | router, the providers, the pass-through |
| Router (`router/router.go`) | map from exposed and bare ids to models | New, Resolve, Catalogue | configuration |
| Thinking history (`anthropic/thinking.go`, `codex/reasoning.go`) | none; rewrites bodies | StripUnsignedThinking, EncodeReasoning, DecodeReasoning | server, request translators |
| Codex request / stream (`codex/request.go`, `codex/stream.go`) | per response: blocks open, map from output index to block, usage, flags | TranslateRequest, Run | Codex backend, stream writer |
| OpenAI request / stream (`openai/*.go`) | per response: the block open, block per tool call, usage, stop reason | TranslateRequest, Run, TranslateResponse | Chat Completions backend, stream writer |
| Stream writer (`anthropic/sse.go`) | mutex, sticky error, time last sent | Event, Keepalive | two goroutines, the client |
| Codex credential (`codex/auth.go`, `codex/refresh.go`) | auth.json in memory, expiry, mutex; the file | AccessToken, persist | requests, the issuer, the file's other users |
| Codex sign-in (`codex/login.go`) | a callback server, state and verifier | Login, waitForCode, exchangeCode, persistLogin | browser, issuer, the file |
| Anthropic pass-through, Anthropic-compatible provider | none | reverse proxy | Anthropic, other backends |
| Picker files (`picker/`) | cache file, settings file | Sync, SyncSettings, Read, Remove | Claude Code, which reads them |
| Configuration (`config/`) | the YAML file | Load, validate, window defaults | everything |
| Command line (`cmd/ccgw`) | the listening process | serve, setup, sync-picker, codex login, env, ... | everything |

A request arrives at the server, which reads the model id and asks the router
for its backend. For Anthropic it strips the thinking that other backends made
and forwards the body. For a provider it hands the request to that provider's
client, which translates it, gets a credential (Codex), sends it, and turns the
answer back into Anthropic's format; a stream is translated event by event into
a `StreamWriter`, which the OpenAI client shares with a keepalive goroutine.
Requests share the credential store, whose file they share with the Codex CLI
and with `ccgw codex login`.

**What is hard here.**

* *Two framings of a stream.* The Codex backend streams items that interleave
  freely, the OpenAI backend flat deltas; the client folds events addressed to
  content blocks. Every frame is handled by a sequence of writes, any of which
  may fail, and frames may be skipped, be missing, or break off anywhere.
* *Two goroutines, one writer.* Ticker, mutex, sticky error, cancel and join.
* *A rotating credential.* Refreshes race, fail, go unanswered and are refused;
  writes of the file fail; the process dies in between; others write the file.
* *Stale copies.* The credential in memory, the picker's cache, thinking blocks
  replayed to a backend that did not make them.
* *One history, four dialects.* Each request carries the whole conversation, and
  three rewrites of it must agree on what every other backend may see of it.
* *A browser in the loop.* Callbacks of a sign-in come late, twice, from another
  sign-in's tab, or never, to handlers that share a channel of one place.
* *Two files, several writers.* Picker files are compared and then replaced by
  serve and sync-picker, from configs that may differ by then.

**What makes each component correct.** Stream translators: nothing is lost or put in
the wrong block, every response ends, with its blocks closed, a true stop reason and
a real usage, and what the client sees obeys the contract of the protocol. Stream
writer: events are never torn, nothing is written after a failure or after the
handler returned, silence is bounded, no hang. Credential store: one refresh at a
time, never with a token it has spent, fresh tokens handed out, what others store
left alone, every request answered, a refusal only when the grant is dead. Thinking
history: Anthropic and Codex are each shown the reasoning that they signed, all of
it, and not the other's. Router: every row of the catalogue resolves to its own
model. Picker: what Claude Code reads is what is configured, or drift is reported,
and no model's window is overstated. Sign-in: it ends, and only stores the tokens of
its own code. Requests: nothing the user or a model said is lost on the way, calls
are answered where the backend's protocol wants it, and errors are ones Claude Code
can classify.

## Modules

| Module | Models | Lines of control |
|---|---|---|
| `AnthropicStream` | the contract of one streamed response, as the client sees it: an abstract specification | `sse.go` event types |
| `CodexStream` | the Codex translator, its backend and its client | `codex/stream.go` |
| `OpenAIStream` | the OpenAI translator, its backend and its client | `openai/stream.go`, `openai/response.go` |
| `StreamWriter` | handler and keepalive goroutines around one writer | `sse.go`, `openai/provider.go` |
| `CodexAuth` | the credential store, the file, the issuer, the CLI, sign-in | `codex/auth.go`, `refresh.go`, `login.go` |
| `ThinkingHistory` | blocks, signatures, the strip on the way to Anthropic | `anthropic/thinking.go`, `codex/reasoning.go` |
| `CodexRequest`, `ChatRequest` | a history as Codex items, as chat messages | `codex/request.go`, `openai/request.go` |
| `ErrorRelay` | types and retry-after of failed requests | `codex/client.go`, `openai/provider.go` |
| `Conversation` | composes these four with Claude Code and the upstreams: one conversation across backends | `server/server.go`, the four clients |
| `SessionStore` | what the handling of reasoning promises: an abstract specification | |
| `Router` | names, resolution, catalogue, windows, as operators | `router/router.go`, `config/` |
| `ModelPicker` | the config, the picker files, the shell and Claude Code, the life of serve; uses `Router` | `cmd/ccgw/main.go`, `picker/` |
| `Login` | sign-ins at once on two ports | `codex/login.go` |
| `CodexStreamProofs`, `OpenAIStreamProofs`, `StreamWriterProofs`, `CodexAuthProofs`, `LoginProofs`, `ModelPickerProofs`, `ConversationProofs` | theorems about these seven | |
| `FlatMaps` | lemmas on flattened and flat-mapped sequences, for `ConversationProofs` | |
| `MC*` | model values and small instances for TLC | |

**AnthropicStream.** Variables: `phase`, `blocks` (the content blocks by
position, each with the upstream item it stands for and the fragments received)
and `stop`. One action per event. `Concurrent` says whether several blocks may
be open at once: the Codex translator keeps them open side by side, the OpenAI
translator has one. Both stream modules instantiate it and check it as a
`PROPERTY`; the refinement mapping is the identity on the client's variables but
for the late fragments of `OpenAIStream`.

**CodexStream.** A frame is read when `pc = "reading"` (`Run`'s `r.Next()`); the
`Read...` actions are the cases of `event` and record what the case decides
before its first write. The other values of `pc` are what is left of that
handler, and each `Write...` action is one call of `StreamWriter.Event` with the
bookkeeping around it, in the order of the code, so that a failing write
(`WriteFails`) may interrupt a handler anywhere. `blockFor`, `curIndex`,
`nextIndex`, `started`, `sawToolCall`, `stopReason`, `usage` are the fields of
`StreamTranslator`. Indices count from 1 (from 0 in the code), so that 0 stands
for a key that is not in the map. `item`, `sent` and `upstream` say what the
backend has streamed; the guards `Announces`, `Streams`, `Completes`, `Ends` are
its protocol. `Key` is the `output_index` the frames of an item carry: distinct,
or all alike for a backend that sends none (`key` yields 0). A fragment is one
delta; its text, and ids and names, are left out. A delta for a block the client
does not have open takes it to `"confused"`, which is in no phase of the contract.

**OpenAIStream.** A chunk is a sequence of parts in the order `choice` handles
them; `todo` holds the ones not handled yet. One block is open (`curKind`,
`curIndex`), `toolBlock` is the map of the code. Tool calls may be streamed in
any order, so a fragment may come late, after the stop of its block: it is kept apart
(`late`), and the refinement mapping (`Timely`) leaves it out, since the client has
no use for it.
The guard `Truthful` is what the backend is assumed to do: a finish_reason that
names tool calls follows some, and "stop" and "content_filter" do not. (After a
backend that says "stop" although it has called tools the client is told
`end_turn`.) Usage comes in a chunk of its own after the finish_reason. A chunk
that does not parse is skipped with whatever it held (`SkipChunk`); `callSkipped`
remembers that a tool call was in one.

**StreamWriter.** The handler's and the keepalive's positions, the mutex and who
holds it, the sticky error, and time since the last send, the last tick and the
last arrival. Time is counted in quarters of the keepalive interval and passes
only when no goroutine can run; a write may take any amount of it. The select
takes either case when both are ready. `UsesKeepalive` distinguishes the OpenAI
client from the Codex client.

**CodexAuth.** `mem`, `expiry`, `mutex` are the fields of `Store`; `file` is
auth.json; `gen`, `dead`, `signedIn` are what the issuer knows. A refresh token
is its grant and generation. `AccessToken` is split where another party may act:
taking the mutex with the test of the expiry (`Acquire`), the issuer's answer,
its reception (`ReceiveTokens`, `ReceiveRefusal`, `ReplyLost`, `RefreshFails`),
and the write (`Persist`, `PersistFails`). `Stop` is a crash, or a stop without
requests in flight. `Faults` selects what may happen in an instance. The only
history variables are `waited` (how the refresh ended that a caller waited for),
`unsaved` (a rotated token is in memory only) and `lost` (a rotated token was
dropped before it reached the file).

**Conversation.** `history` is what Claude Code replays with every request;
`request` is the one being served, `wire` what its upstream was sent, `reply` an
error. `Send` and the retries of Claude Code are one action: it may send the same
history any number of times, to any backend, or ask for a count of it; `Rewind`
takes it back to an earlier turn and `HangUp` ends a request anywhere. The
`Messages...` actions and `CountUpstream`, `EstimateTokens` are the branches of
`handleMessages` and `handleCountTokens`. What they send comes from operators:
`StripUnsignedThinking`, `CodexRequest!TranslateRequest` and
`ChatRequest!TranslateRequest`, `rewriteBody`. A block is its type, its signature
and an id that no other block has, so that loss, duplication and order can be
told from the ids alone. An answer becomes the blocks that the translators make
of it; how they are streamed is the business of the stream modules. A compatible
endpoint may be LiteLLM, a self-hosted gateway or another ccgw (`README.md:679-682`)
and its answer is copied as it is, so its thinking may have no signature, Anthropic's,
that of a third party (`ForeignSigned`), or one a gateway minted. A gateway's
signature does not say which gateway made it, so what another one minted is taken
for this one's. `minted` is a history variable: per answer, the reasoning in it that
Anthropic and Codex have each signed, and could use again.

**SessionStore.** As though each vendor that signs its reasoning, Anthropic and
Codex, had a session on the gateway. `Conversation` has none, and implements it
under the mapping `turns <- minted`, `shown <-` the reasoning in the request on the
wire, but for that of third parties.

**Router and ModelPicker.** A name is a sequence of parts, as fine as the
prefixes and suffixes the code compares; the gateway splits any bracketed part off
the end, Claude Code knows `[1m]` alone. `Resolve`, `Catalogue` and
`WindowDirective` are the code's functions, `Ceiling` and `WindowTaken` what
Claude Code does with a name and its variables, as `config/window.go` and the
README describe it. `ModelPicker` splits writing a file where others may act:
read the config (`Load`), compare (`Compare`), replace (`Rename`), for `serve` and
for `sync-picker`, which may run at the same time. `EvalEnv` changes only the
variables its output names. `claude` is the picker file and the environment that
a Claude Code started with. `silent` remembers that `ccgw models` found no drift.

**Login.** `handlers` counts, per sign-in and outcome, the callback handlers that
have yet to send to the channel `done`. The state of a callback is the sign-in
whose tab it comes from; the tab keeps its port when the sign-in has ended and
another may listen there. `Stop` is the end of `waitForCode`'s select with the
close of the listener, `ShutdownReturns` the end of its deferred call.

## Runs

| Run | Instance | Shows |
|---|---|---|
| `CodexStream_parallel` | reasoning and two tool calls, distinct indexes, interleaved, three usages | fragments in their own blocks, a true stop reason and usage, the contract, every response ends |
| `CodexStream_lossy` | reasoning, text, tool call; frames may be skipped | nothing that arrives is lost or split over blocks, the map agrees with the client, all closed |
| `OpenAIStream` | reasoning, content, two tool calls in any order, up to two parts per chunk, four finish reasons, three usages | fragments addressed to their own blocks, one block per call, nothing lost, a true report, the contract with one block, every response ends |
| `StreamWriter_openai` | interval 4, idle limit 20 | mutual exclusion, sticky error, no write after return, bounded silence, no hang |
| `CodexAuth_alone` | three callers, every fault but another user of the tokens | one refresh, no spent token, refusals justified, fresh tokens, successes shared, every call returns |
| `CodexAuth_shared` | two callers, the CLI and a sign-in at work on the file, refreshes and writes that fail, answers that are lost, crashes | no token is presented that the gateway has spent itself |
| `Conversation` | up to four answers of any backend, five shapes of user message, five failures | a session per signer of reasoning (`ImplementsSessionStore`), no thinking to Anthropic that is unsigned or a gateway's, content kept, calls answered, errors understood |
| `ModelPicker` | four configs of two or three models, one edit, one stream | silence of the drift report means a current picker, rows reach their model, windows fit, serve exits |
| `Login` | two sign-ins, four callbacks, ports taken by others | only own codes are exchanged and stored, every sign-in ends |

Three further runs check one statement each that the repository makes and the
code does not keep; TLC shows the behaviour.

| Run | Statement | What happens |
|---|---|---|
| `StreamWriter_codex` | `README.md:522`: a ping every 60 s of silence | the Codex client starts no keepalive |
| `CodexAuth_sign_in_again` | `README.md:638`: only a dead grant asks to sign in again | the running gateway keeps presenting the grant it started with |
| `CodexAuth_overwrites` | `codex/refresh.go:247`: persist preserves what the gateway does not model | it writes what the gateway read at its start: a new sign-in, and what the CLI has stored since, are undone |

**Met while modelling, without a run.** The models have these behaviours, and the
properties are stated so as to allow them; nothing in the list is a claim that
they matter in practice.

* Streams: arguments for an earlier OpenAI tool call follow its `content_block_stop`
  (`openai/stream.go:193`, against `:26-27`). A reasoning item whose announcement
  was skipped is signed in another item's block (`codex/stream.go:366`, against
  `:364`), and a tool call whose announcement was skipped is reported as `end_turn`;
  a Chat Completions response whose only call was in a chunk that was skipped ends
  with `tool_use` and no call. In-band errors keep the upstream's type
  (`codex/stream.go:261`, `openai/stream.go:310`, against `README.md:497`).
* Credential: when the write after a rotation fails, the session does not survive
  a restart (`codex/refresh.go:220`, against `:221-222`). A write also undoes, when
  a refresh left the token as it was, a rotation by the CLI since then: the CLI's
  refreshes can put the gateway behind, and the gateway's writes the CLI. Waiters
  of a refresh that failed each start their own (`codex/auth.go:214`). The issuer's
  body is read under the mutex without a timeout (`codex/refresh.go:116`).
* Sign-in: the browser says "Signed in" before the code is exchanged; a stray
  callback ends the sign-in it reaches; tokens the issuer leaves out of its
  answer stay those of the account before.
* Requests: `count_tokens` forwards thinking that `messages` strips
  (`server/server.go:288-291`). Reasoning that came after text or calls of its
  answer is replayed ahead of them (`codex/request.go:175-176`). Thinking that a
  third party has signed, behind a compatible backend, passes the strip on its way
  to Anthropic (`anthropic/thinking.go:149`, against `:126-127`). What another ccgw
  minted is decoded as this gateway's and replayed to its Codex account
  (`codex/reasoning.go:40-53`, against `:38-39`). A model's max_tokens reaches the
  chat backend only: a compatible one is sent the raw body (`server/server.go:253`,
  against `config/config.go:181`, though `README.md:699` and
  `anthropiccompat.go:9-11` say that this path changes nothing else), Codex has no
  field for it. An answer without content is replayed as it is. Documents, and
  images in results, are left behind on the way to Codex and chat backends. A 422
  becomes `api_error`.
* Picker: it is written before the gateway listens (`main.go:158-161`). Drift of
  the settings file is judged by its number of rows (`main.go:276`), that of the
  cache against a list that is not cut as the cache is; neither sees a changed
  display name. A shell keeps the first-party flag, its alias and a window
  variable that the config no longer calls for.

**Bounds.** Two fragments per item (`MaxDeltas`; `MaxFragments` gives one source of
each pair two) let a fragment arrive before and after any other event. Three items,
or four sources, let two tool calls overlap next to a block of another kind; the
properties relate at most two items. `MaxParts` lets a chunk carry parts of two
kinds, or of two calls. Time and generations in `CodexAuth` (`MaxTime`, `MaxGen`;
244 686 states alone) leave room for two expiries and two rotations, enough for a
token to be spent, persisted or not, and presented again; at `MaxGen` the issuer
answers without rotating. `Lifetimes` includes 0, a token without a readable expiry,
and values above the leeway. In `StreamWriter` the interval is 4 units, so that the
ticker's half interval falls between events, and clocks stop at `IdleAbort`, beyond
every comparison. In `Conversation` (`MaxTurns` 4: 1 606 321 states) every property
relates the answers of one backend to those before, between and after it: four
answers allow a switch away and back with a rewind over it. The answers have
reasoning before, between and without other content, signed by everyone who may, two
calls at once, and none of anything; the retry-afters lie on both sides of each
comparison. `ModelPicker` (`MaxEdits` 1, `MaxModels` 2: 99 112 states) has a config
before and one after an edit, held by processes and a shell that loaded either; its
configs have names that collide, one row more than the cache keeps, windows on both
sides of the limits, and curated rows. `Login` (`MaxCallbacks` 4) has enough for the
channel to be full, a handler to hang on it, and a stray one besides.
`CHECK_DEADLOCK` is off in `Login.cfg` alone, where all sign-ins end; a finished
response stutters by its action `Done`.

**Fairness.** The translators assume weak fairness of `Write`: a goroutine that has
something to do is scheduled, and a write succeeds or fails. Reading is not fair,
since the backend may fall silent; `EveryResponseEnds` is stated from the moment the
body has ended or broken. `StreamWriter` assumes the same of each goroutine and
strong fairness of the keepalive's `ctx.Done()` case, because Go's select chooses at
random among ready cases. `CodexAuth` assumes that each wait of a refresh ends. For
the headers of the issuer's answer the transport sees to it
(`codex/client.go:49-61`). Nothing in the code bounds the body
(`codex/refresh.go:116`), which is read with the mutex held: there the assumption is
one about the environment, that the issuer finishes its answer or that Claude Code
gives up. It waits `API_TIMEOUT_MS` for headers it cannot have before the refresh
ends (`README.md:512`), and the refresh runs in the context of its request, so that
giving up cancels it (`ReplyLost`). With an issuer that stalls and a client that
waits for ever, `EveryCallReturns` is false. Fairness is weak for each of the three
stages of a refresh by itself, and strong for taking the mutex, since Go's mutex
hands itself to a waiter that has starved for a millisecond. `Login` assumes that
goroutines run, that the five minutes and the two seconds pass, and that a request
whose context is over returns; neither the user nor the issuer has to do anything.
`ModelPicker` assumes that the clock of Shutdown runs and that a process that can
exit does, not that any stream ends. `Conversation` has safety properties only.

## Proofs

### The Codex translator

`CodexStreamProofs` proves, for every finite or infinite set of items and keys,
every assignment of indexes and every bound:

* `TypeCorrect`: `Spec => []TypeOK`;
* `MapTracks`: `Spec => []MapTracksOpenBlocks`, as long as the client can be
  written to;
* `ClosedAtEnd`: `Spec => []AllClosedAtEnd`;
* `OwnBlock`: `WellBehaved` and `Spec` give `[]FragmentsInOwnBlock`;
* `Implementation`: `WellBehaved` and `Spec` give `ImplementsContract`;
* `ReportsAreTrue`: `WellBehaved` and `Spec` give `[]ReportIsTrue`;
* `NothingIsLost`: `OwnKeys` and `Spec` give `[]NothingLost`.

Besides the types of the constants (`ConstantsOK`) there are two assumptions.
`WellBehaved`: no frame is skipped, and two items either have different indexes
or do not overlap (as with a backend that sends no `output_index`). Without it
`OwnBlock` is false (a reasoning item whose announcement was skipped is signed
in another's block), and so is `ReportsAreTrue` (a tool call whose announcement
was skipped); the first three theorems do without it. `OwnKeys`: every item has
an index of its own, while frames may be skipped. Where two items in progress
share one, the end of either closes the block of both, and the fragments of the
other are split over two.

*The first argument* is `TrackingInv`. That the map names exactly the open blocks
is not inductive: a new block could land on a key still mapped, or two keys could
name one block and closing one would strand the other. So the invariant adds that
`nextIndex` is the next position of the client's sequence, that the map is
injective, that the handler is about to open a block only for a key that has
none and to write to one only for a key that has, and that nothing is open once
the response is settled. `TypeOK` needs it too: a step that updates
`blocks[blockFor[k]]` keeps the type only if that is a position.

*The second* is `OwnershipInv`. A fragment is addressed by key, so what matters
is whose block the key is mapped to: every mapped key leads to a block of an item
in progress that carries this key (`OwnersActive`), and no two items in progress
carry the same (`OneActivePerKey`). An item in progress that is shown has its
block between two frames (`OpenItemsHaveBlocks`), hence no delta falls back to
the block opened last.

`Implementation` uses both: each action of the translator is an action of the
contract whose guard follows from the invariants (a delta finds its block open
and of its kind, `message_delta` and `error` find none open), or leaves the
client's variables alone.

*The report*. The flag `sawToolCall` is raised exactly for the tool calls that the
client has a block of or is about to get one of (`FlagIsContent`), and what
`finish` records of the stop reason and the usage is what was announced
(`Recorded`).

*Fragments* (`LedgerInv`). For every visible item the fragments the client holds
and the one the handler still owes it (`Owed`) add up to the ones sent, all in one
block, and an item that has a block still has it or was done with. Positions in
the client's blocks are counted as a finite set of pairs.

The invariants of the first two arguments are conjunctions of named parts in
`CodexStream`, beside the properties they support; the others, and those of the
other components, are in the proof modules.

### The OpenAI translator

`OpenAIStreamProofs` proves everything that the run checks but liveness, for any
tool calls, finish reasons and bounds, and chunks of any number of parts:
`TypeCorrect`, `OwnBlock` (`FragmentsInOwnBlock`), `OneBlockPerCall`
(`OneBlockPerToolCall`), `NothingIsLost` (`NothingLost`), `ReportsAreTrue`
(`ReportIsTrue`) and `Implementation` (`ImplementsContract`).

*Blocks* (`BlocksInv`). A delta is addressed by a recorded position or by the one
opened last, so the invariant says that the recorded positions are exactly the
blocks of tool calls, that a block is of its source's kind, and that the one block
open is the current one and of the current kind. Reasoning and content have each a
kind of their own: a current block of the kind of a source is that source's. The
refinement needs no more than this and the phase of the response (`PhaseFits`).

*Fragments* (`LedgerInv`). Between the frame and the client a fragment is a part
still to handle: what the client holds and what is left of the chunk add up to what
was read. The lemmas count a sequence of parts by its head and its tail, through a
bijection of their positions, and the client's fragments by their places.

*The report*. While the client is there, and no chunk with a part of a call has been
skipped, the calls streamed are the ones recorded and the ones still to handle
(`CalledAreShown`); once there is a finish_reason no
more will come, and what it says of tools is true (`ReasonFits`, from `Truthful`).
`UsageTold` is about the arithmetic of the usage alone.

### The two writers of a response

`StreamWriterProofs` proves, for every even interval and every longer patience of
the client, `TypeCorrect`, `WritersExclude` (`OneWriter`), `JoinedBeforeReturn`
(`NoWriteAfterReturn`), `ErrorIsShared` (`StickyError`) and, where a keepalive
runs, `KeepaliveBoundsSilence` (`PingsBoundSilence`).

The first four follow from who holds the mutex in which position
(`WritesUnderMutex`) and from the order of cancel, exit and join (`Lifetimes`).
The bound on the silence needs two facts about clocks. Between writes the client
has waited no longer than `lastSent` says, since the stamp is taken before the
bytes leave (`StampIsOlder`). And the keepalive, once it has consumed a tick, has
looked at `lastSent`: whatever it found, the stamp is younger than an interval
plus the age of that tick (`LookedSinceTick`). A tick is never older than half
an interval when time passes, for time passes only when nothing is runnable, so
the two add up to one and a half intervals. Neither fact is an obvious part of
the property, and neither survives a ticker of the whole interval.

### The credential

`CodexAuthProofs` proves, for any number of requests, any bounds and any faults,
crashes, sign-ins and the CLI included: `TypeCorrect`, `SingleRefresh`
(`OneRefreshAtATime`), `WaitersShareSuccess` (`SuccessIsShared`),
`TokensAreFresh` (`HandedOutFresh`) and `NoTokenReuse`
(`NeverPresentsSpentToken`). The invariant `IInv` says that the calls in flight
are exactly the mutex's holder (`Exclusive`), that none is under way while the
gateway is down, that the cached expiry is the credential's, that an answer is
still fresh when it is received and written, and that a call which waited for a
successful refresh finds the mutex free and the token fresh until it has
returned (`WaitersServed`). The last holds because such calls are runnable, so
that the clock, coarser than they are, stands still.

*Refresh tokens* (`CInv`, for `NoTokenReuse`). Three parties hold copies of a
rotating token, each of some age, and each may overwrite the file with its own, so
what is presented next depends on who wrote last. The issuer's answer may or may
not rotate. Until a rotated token has been dropped (`lost`), and for a grant that
the CLI has not refreshed (`Ours`), the current token is in memory or in an answer
on its way there (`MemoryCurrent`, `AnswerFits`), and the file has what a start
would need: the current token, or for the grant in memory what memory has unless
`unsaved` says otherwise (`FileCurrent`). That the CLI's writes do not undo this is
`CLIKnown`: it writes only what it has refreshed, and such a grant is not `Ours`;
that a sign-in does not is `OnlyIssued`: it brings a grant nobody has used. For a
grant that the CLI has refreshed the property says nothing, and could not: that
refresh spends the token the gateway has in memory, and the file is not read again.

`RefusalMeansDead` (`RefusedOnlyIfGrantDead`) is about a gateway that is the file's
only user (`Alone`: neither the CLI nor a sign-in is among the faults). The
generations in the file, in memory and at the issuer are then in this order
(`InStep`), and an answer describes the issuer as it still is (`AnswerCurrent`), so
that a refused token is dead in the file too. With a sign-in it is false
(`CodexAuth_sign_in_again`).

### Sign-in and picker

`LoginProofs`: `TypeCorrect` and `OwnCodes` (`OwnCodeOnly`), for any sign-ins and
any number of callbacks. A tab may reach the listener of another sign-in, so the
invariant follows an outcome through its stations: what handlers carry, what the
channel holds and what `waitForCode` has returned is the sign-in's own code or a
failure.

`ModelPickerProofs`: `TypeCorrect`, `SilenceIsTrue` (`SilentMeansCurrent`),
`RowsLeadHome` (`RowsReachTheirModel`) and `WindowsFit` (`WindowFits`), for any
configs that load. The invariant says that Claude Code has read a file that was
whole, that a shell has what the output of one eval of each config in `env.from`
sets, and that nothing `ccgw models` has looked at has changed since it was
silent. That a row leads home is a fact about `Resolve`: the last model with a
name owns it, the last exists because a bounded set of positions has a greatest
element, and a row's names are its own model's. That no window is overstated
follows from the least window being a lower bound, through the rounding of the
directive and the precedence of the variables.

### The conversation

`ConversationProofs` proves all that the run checks, for any messages, answers,
models and number of turns: `TypeCorrect` (`TypeOK`), `AlwaysCleanForAnthropic`
(`CleanForAnthropic`), `NothingSaidIsLost` (`ContentKept`), `EveryCallIsAnswered`
(`CallsAnswered`), `ErrorsAlwaysUnderstood` (`ErrorsUnderstood`, for every status
and every retry-after, negative ones included) and `GatewayIsASessionStore`
(`ImplementsSessionStore`).

The gateway keeps nothing between requests, so the invariant `IInv` says little of
it: the history alternates and has one record in `minted` per answer, and what is
on the wire is the translation of the history as it still is. What the theorems
need is a matter of data: what the translations, built of concatenated pieces, do
to a history of any length. `FlatMaps` proves what that takes. FlattenSeq is a
recursive function, and its induction is done over *sets* of numbers and of
sequences (`SetOfNaturals`, `SetOfSequences`), which can be cited where a
principle with an operator parameter cannot. On it rest the lemmas on a flat map:
what it is of an appended or a concatenated sequence, of a flat map, and where
the elements of each piece lie in the whole (`Offset`, `FlatMapAt`,
`FlatMapWhere`). `Select` of `ThinkingHistory` is SelectSeq written as a flat map.

*Content*. The ids that a translation leaves of a message are a flat map of the
message's blocks; so are, by composition, those it leaves of a history, and they
are the blocks of the same types in the same order.

*Sessions*. `Remembers`: per answer in the history, and for each of Anthropic and
Codex, the blocks that bear its signature are still what `minted` says, whichever
backend brought them. A request to either therefore shows the concatenation of
these, which is its session (`ShownOK`), and every step is one of `SessionStore` or
invisible to it. Third parties' signed thinking, which the gateway cannot tell from
Anthropic's and leaves in a request to it, is left out of the mapping.

*Calls*. That each call has one result, later and with no user between, does not
follow from any message alone. `Paired` says of the history that each user message
has the results of exactly the calls of the answer before it, in their order, and
that the ids of an answer's blocks are their places among all blocks, so that no
two calls are alike. The rest is about places: the results of a message lead its
translation, and the items of the message after it lie behind all of its own.

`AlwaysCleanForAnthropic` says of a signature what the code can know of it: that it
is there and no gateway's. It needs no assumption about the answers: the strip puts
its placeholder in a message it has emptied, and an empty one was empty before.

The assumptions on the constants are each module's `ConstantsOK`,
`LoginAssumption`, `ModelPickerAssumption` and `ConversationAssumption`.

**Only model-checked:** the liveness properties (`EveryResponseEnds` of both
streams, `HandlerReturns`, `EveryCallReturns`, `ServeExits` and `LoginEnds`),
for which ENABLED and fairness are out of the prover's reach. Every other
property of a passing run is a theorem, under the assumptions named above.

## Not modelled

The bytes of the protocols: JSON, SSE lines, ids, names, text, and the wording of
errors. `output_tokens`. System prompts, `tool_choice`, sampling parameters and
effort: each is a conversion of one field, without state. Headers, but for the
beta that a subscription token needs and retry-after; the pass-through's bearer
and api_key modes. Parsing of the configuration, setup and init, and what is
printed; `serve -listen`, with which the address served is not the config's.
`AccountID` takes the mutex of the store once more after `AccessToken`; that wait
is left out. The probes, the log, and bodies that do not decode.

Assumed of the outside: backends send what the guards described above allow;
what the issuer and the Codex CLI do with a grant, and Claude Code with a history,
a picker file and its variables, is modelled from how the code uses them. TLC's
symmetry is used only for the callers of `CodexAuth_shared`, which has no liveness
property.

## Plan

Done: the streams and their contract, the two writers, the credential, the
conversation and its abstract specification, router and picker with the life of
serve, sign-in; proofs of every property of theirs but liveness.

Left:

1. Proofs: `NothingIsLost` of the Codex translator for items that share an index
   without overlapping.
2. The pass-through's credential modes beside the subscription token.
3. `serve` with an address other than the config's, and display names, among the
   causes of drift.

## Running

```
tlasany CodexStream.tla
tlc -workers 2 -config CodexStream_parallel.cfg MCCodexStream
tlapm CodexStreamProofs.tla
```

`PROJECT.json` lists every run with its module, the mutants that show that each
property can fail, the lines each definition models, and the hazards the
properties are for.
