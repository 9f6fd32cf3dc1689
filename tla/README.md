# cmdcode-go: a TLA+ verification project

cmdcode-go is a shared library that the CLIProxyAPI host loads. It offers the
models of the CommandCode gateway under OpenAI's chat-completions protocol: the
host asks it which models there are, lets it route requests, and has it execute
turns, buffered or as a stream of frames delivered through host callbacks.

This directory holds TLA+ modules of its core, the TLC configurations that check
them on small instances, and proofs, checked by TLAPS, that the most important of
the properties hold for instances of every size.

    tlc -config MCSessionStore.cfg MCSessionStore     # a run
    tlapm SessionStoreProofs.tla                      # proofs

## 1. Inventory

| component | source (under src/go) | state | operations |
|---|---|---|---|
| session store | session.go:17-89 | map and LRU list of conversations, each with identifier, last use, busy | acquire, release |
| session identity | session.go:91-205 | per call: headers not yet read, identity found so far | explicitSessionKey |
| plugin runtime | abi_runtime.go, plugin.go:17-66 | the active instance; per instance: stopping, root context, WaitGroup | Initialize, Handle, Shutdown, begin, done |
| C ABI boundary | main.go | stored_host | init, call, free, shutdown, hostCall |
| dispatch | dispatch.go | none | Handle, routeModel |
| configuration | config.go, plugin.go:68-88 | the last valid configuration | Update, Snapshot; under Plugin.stateMu Configure, snapshot |
| model registry | models_remote.go | current and compiled-in list, generation, loading, failed, three times | Configure, Snapshot, Refresh |
| model catalog | models.go | an immutable list with two indexes | Match, Allowed, Definition, reasoningEffort, Registered |
| executor and relay | executor.go, stream.go | per turn: lease, task, body, context | execute, execute_stream, relayStream |
| gateway client | gateway_client.go | HTTP transport, limits | Open, Close, readBounded |
| event decoder | event_decoder.go, response.go | accumulated answer, framer, size counters, outcome counters | push, finish, Consume, three renderings |
| request translation | request.go | per call: names of the calls seen so far | envelope, messages, tools, schemas, maxTokens |
| token counts, normalization | executor.go:205-248, normalize.go | none | countTokens, normalizeBefore, normalizeAfter |
| compiled-in data | models_generated.go, internal/, cmd/ | none | none |
| catalog extraction | ../scripts/extract-models.py | generated files of the repository, their backups | main, replace_outputs, --check |
| release publishing | ../scripts/release_assets.py | a GitHub release, its tag and its assets | prepare, publish |
| CI | ../scripts/ci-*.sh, .github/workflows | none | none |

How they interact. The host's threads call `cliproxyPluginCall`, which reads the
active instance and lets it handle the call as a counted task. An executor call
takes one snapshot of configuration and model list, finds the model, acquires
the conversation of its session key, translates the request and opens the
gateway. A buffered turn decodes the whole body within the call. A relayed turn
hands body, lease and a task of its own to a goroutine, and returns; the
goroutine decodes the body and calls back into the host for each frame and for
the close. Registration calls refresh the model list, by a download or from a
file, and list the models. Reconfiguration changes configuration and registry
together. Shutdown refuses new tasks, cancels all contexts, waits for the tasks
and clears the host pointer; the library stays mapped and may be initialized
again. Outside the library, a workflow publishes the release of a tag through
GitHub's API, and another regenerates the compiled-in model list.

What is hard about it:

- host threads, relay goroutines and shutdown interleave, and the library
  outlives its instances, so a call may have read an instance that is gone;
- a lease taken in one function is returned in another, in another goroutine, on
  some eight paths;
- a download runs under no lock while configuration, files and clock change;
- the gateway may be silent, break off, or exceed limits at any byte, while
  half an answer is already with the host;
- one request is read twice, for its identity and for its translation, in Go's
  random map order or with names remembered from one message to a later one;
- a release is published by a script whose every call may be its last, while
  people and the script's own lost uploads change the same release;
- generated files that must fit together are renamed one by one;
- one list of models is interpreted by the router, the executor, the filters
  and the registration, each with code of its own.

What makes each component correct is the list of properties in section 4; the
hazards behind them are in PROJECT.json, each at its line.

## 2. Modules

| module | models | composed with |
|---|---|---|
| SessionLease | what the store promises: exclusive leases of conversations | - |
| SessionStore | session.go, acquire and release | refines SessionLease |
| PluginService | what the library promises its host: one instance at a time, work while it is open, callbacks with its own pointer | - |
| PluginLifecycle | abi_runtime.go, plugin.go, main.go's host pointer, the tasks of executor.go and stream.go | refines PluginService |
| ModelRegistry | models_remote.go, the two halves of Plugin.Configure and Plugin.snapshot | - |
| TurnService | what the executor promises of its turns: exclusive conversations, streams written and closed in order, no frame decided on once the plugin stops, an end to every turn before the plugin is down | - |
| TurnExecution | executor.go, stream.go, on one instance | instantiates SessionStore, refines TurnService |
| EventDecoder | event_decoder.go, the folding, framing and rendering of response.go, both modes on one body | - |
| Catalog | models.go, parseModelsFile, routeModel, prepareTurn's checks, maxTokens | - |
| SessionIdentity | explicitSessionKey of session.go | - |
| RequestTranslation | buildEnvelopeForSession of request.go | - |
| TurnRequest | prepareTurn's two readings of one request | extends SessionIdentity and RequestTranslation |
| ReleasePublish | publish of release_assets.py, call by call | - |
| CatalogOutputs | replace_outputs and --check of extract-models.py | - |
| SessionStoreProofs, PluginLifecycleProofs, ModelRegistryProofs, TurnExecutionProofs, EventDecoderProofs, ReleasePublishProofs | theorems of one module each | |
| CatalogProofs | theorems of Catalog and CatalogOutputs | |
| TurnRequestProofs | theorems of SessionIdentity, RequestTranslation and TurnRequest | |
| MC... | instances for TLC | |

How state and actions correspond to the code:

**SessionStore.** `entries` is the map, `ahead` the list as a strict total order
(what is in front of what), `handle` the release closures. `acquire` runs under
one mutex, so each of its five returns is one action, and each begins with the
sweep (`Swept`). Identifiers of conversations are numbers minted in order: the
model assumes that newUUID never repeats one. The identifier also stands for the
address of the entry the closure holds.

**PluginLifecycle.** Callers, streams and closers are the three kinds of thread.
Critical sections of `pluginRuntime.mu` and `Plugin.mu` are single steps;
`lifecycle` is held across the steps of a Shutdown and is a variable. A call is
`Call` (reads active), `Begin` or `BeginRefused` (asks the instance it read), and
`Done`. A stream reads `stored_host` when a host call is entered and again when
it returns, for the buffer, which is why it is in a host call during all of
emit, emitting, close and closing. Seen as a PluginService, the active instance is
the one served, it is open until `ShutdownStop`, its work is what the WaitGroups
count, and its callbacks are the streams between entering a host call and
returning, each with what `stored_host` holds at that moment: the mapping says
nothing of locks, of `stopping` of other instances, or of calls not yet admitted.

**ModelRegistry.** `stateMu` is held between the two halves of Configure and of
snapshot. Refresh is split where it gives up `mu`: `RefreshStart`, `Fetch` or
`FetchFails`, and one of `PublishStale`, `PublishFailure`, `PublishSuccess`.
Sources have versions; a file's modification time is its version, so the model
assumes that a changed file has a modification time it never had. Configure
compares strings; two spellings of one meaning are a new generation, which
`ModelsConfigure` allows.

**TurnExecution.** A turn has the program counter of its RPC (`pc`) and of its
goroutine (`relay`). The store is an instance of SessionStore, whose actions are
used unchanged. Seen as a TurnService, a turn is busy while a task of it is
counted, talks while its gateway connection is open, and its stream is what
acceptance, host.stream.emit and host.stream.close make of it. The relay looks at
its context (`EmitChecked`) and then calls the host (`EmitEnter`), and Shutdown may
come between the two: TurnService therefore does not promise that nothing is
written once the plugin stops, but that no frame is decided on, which leaves one
frame a stream. Whether a turn is buffered or relayed is chosen where the paths
part, since its preparation does not depend on it. Every early
return of `prepareTurn`, `executeNonStream` and
`executeStream` is an action that leads to the deferred release or, where the
code has none yet, directly to the reply. A turn name may be used again after
both its halves have ended.

**EventDecoder.** Two decoders, one per mode, read the same body. A line is an
event, a size and an end: a line feed, one after a carriage return, or nothing for
the last line of a body. `body` keeps what really came (`Longer`), apart from
what the decoders count (`consumed`), so that `LimitsExact` can compare the two:
a Consume fails for a size only past a limit, and none goes on or succeeds past
one. The code counts a line feed for a last line that has none, so such a body is
refused at MaxResponseBytes bytes instead of one more, and it counts no carriage
return; `PastLimits` says both. `push` is an operator on the decoder's record,
as in the code; `ReadLine` is the loop of Consume, and the frames of a push are
emitted one by one, any of which the host may refuse.

**Catalog.** The state is a list of models and the two filters. Names are
records (namespace, vendor, short name, capitals, suffix). All else is operators
with the names of the code's functions.

**SessionIdentity.** A walk over the evidence of one request: caller and
credential, then the headers in any order (Go's map iteration is `\E h \in
unread`), the host's execution id, and the fields of the body in the order of the
code. `Agrees` is `add`; the first evidence that is invalid or disagrees ends the
walk without a key. Values, validity and lists with commas are parameters; the
fields of the body and of its two containers are numbered in reading order, and
a container that is no object or has a key twice is `Broken` at its place.

**RequestTranslation.** One action per message, and per call of an assistant's
message; `toolNames` is the map of the code, `minted` numbers the ids of newID.
A content is a sequence of parts whatever JSON spelled it, a text is the sequence
of pieces it is joined from, a schema is its shape and what it demands.

**TurnRequest.** The two, in prepareTurn's order. The acquisition of the lease
between them is TurnExecution's and reads nothing of either.

**ReleasePublish.** Every call to GitHub is an action: `validate_remote` is
`ReadRelease` and `ReadTag`, with the place in `publish` it returns to in `stage`;
the loop over the assets is `List...`, `Delete`, `Recheck`, `Upload` and
`UploadEnds`. A run may die anywhere; people publish, move the tag, remove
assets and upload their own in between. An upload that no run waits for, a dead
run's or a person's (`Attach`), is an empty starter to the API until it is stored,
stored wrong, or fails (`OrphanEnds`), so a run may list it, and delete it by its id
whatever it has become.

**CatalogOutputs.** Each rename and each `written.append` of `replace_outputs` is a
step, and so is each restoration of its rollback. Any staging, rename or removal
may fail, one KeyboardInterrupt may arrive between two statements, and the
script may crash. `Check` is the `--check` of the workflow and of CI.

## 3. Modelling assumptions

- newUUID never repeats a value; a changed file gets a fresh modification time.
- Host callbacks return. ARCHITECTURE.md:43-44 demands it of the host. (A host
  that shuts the plugin down from inside a callback blocks itself.)
- A gateway context ends: GatewayClient.Timeout is ten minutes, and cancelling
  the plugin's root context ends it earlier.
- `bufio.Scanner` hands out a partial line when the connection breaks; the
  decoder then sees a malformed line (an action of `ReadLine`) or, if the
  partial line was blank or none, the error (`ReadBreaks`).
- `json.Compact` cannot fail on a `json.RawMessage` that Unmarshal produced.
- Identifiers minted for tool calls without one are left out.
- SessionIdentity and RequestTranslation: ids that newID mints are fresh. The
  identity and the chat payload of one request are varied one at a time, since
  neither reading depends on the other.
- The comment at request.go:192-193 says that a user turn carrying tool results
  fans out to a tool message; `orderedUserParts` keeps text and images only and
  drops such parts. OpenAI's protocol has no such parts, and `User` follows the
  code; no run checks the comment. System texts are translated as the code does
  and no property speaks of them.
- ReleasePublish: the workflow's concurrency group admits one run of a tag at a
  time and does not cancel a running one. A call to GitHub takes effect at once or
  not at all; only an upload outlives the client that sent it. An asset keeps its
  id until it is deleted, during its upload and after, and no id comes back
  while a run has it in hand. What people upload matches no build. People do not
  create a second draft of a tag, nor delete assets of a published release.
- CatalogOutputs: removing a file that is not there does not fail (the script
  unlinks with missing_ok); at most one interrupt per run.
- Catalog has no IDs that contain plugin namespaces or parentheses; context
  limits are treated by the code like output limits and left out.

## 4. Runs

All runs check deadlock: the modules name the states in which the system stops
(`Down`, `Returned`) or always allow an environment step.

| run | instance | what it shows |
|---|---|---|
| SessionStore | 3 keys, 3 turns, 2 places, TTL 2, clock to 4, 4 identifiers; symmetric | `LeaseInv`: who holds a lease finds its entry busy, unexpired and unevicted, and two turns never share a key or a conversation. `RecencyOrder`: the list is an order by last use. `CapacityBound`. `OnlyLegalDrops`: a conversation is dropped only when idle, and only expired or as least recently used of a full store. `LeaseSpec`: refinement of SessionLease |
| PluginLifecycle | 2 callers, 2 streams, 2 closers, 3 instances | `HostPointerValid`, `NoTaskOutlives`, `TasksCounted`; `TypeOK`, which says that no call uses a nil instance; `ServiceSpec`: refinement of PluginService; and `ShutdownReturns` under fairness |
| ModelRegistry | 1 URL, 1 file, 2 threads, intervals 0, 1, 2, cool-down 1, clock to 4, 2 reconfigurations, 2 content changes | `SingleFlight`, `FileIsFresh`, `SnapshotCoherent`, `StaleNeverPublished`, `DownloadsThrottled` |
| TurnExecution | 2 turns, 2 keys, 1 place, 2 identifiers, clock to 1 | `ConversationExclusive`, `NoLeaseLeaks`, `StreamProtocol`, `ShutdownLeavesNothing`; `ServiceSpec`: refinement of TurnService; and `LeaseReturns` under fairness |
| EventDecoder | 2 texts, 1 tool, lines of 0, 2 and 3 bytes around a limit of 2, 14 bytes in all, 6 lines | `ModesAgree`, `FrameGrammar`, `OnlyWholeAnswersSucceed`, `LimitsExact` |
| Catalog | lists of one or two models of seven, 3 filter names, all names, levels and budgets -1 to 3 around a default of 2 | `FiltersHold`, `OfferedIsServed`, `NamesAreNotGuessed`, `EffortIsAccepted`, `BudgetIsRespected` |
| Requests | 4 headers, of which two spell one name and one is no evidence, an execution id, 3 fields, two bodies; histories of up to 4 messages of 11 kinds, up to 2 tools with every shape of schema | `VerdictIsOrderFree`: a request has a key exactly when all its evidence is sound and names one identity, in whatever order it is read. `RequestIsKept`: a payload is refused exactly when a part of it cannot be translated; what is sent keeps turns and calls in order, each result has the name of the latest call with its id, minted ids meet nothing, no tool is widened |
| ReleasePublish | 3 assets, 2 builds of one commit, 2 faults, 2 interventions | `PublishedIsWhole`, `ManifestIsLast`, `InterferenceIsNoticed`, `FinishedIsKept`; and `RetryCompletes` under fairness |
| CatalogOutputs | 2 files, 3 contents, 2 errors, an interrupt, a crash | `AllOrNothing`, `CommitFits` |

Why the bounds suffice. Three keys for two places give an eviction with one idle
and one busy candidate, saturation, and a key that comes back; the clock passes
the time to live twice. Three instances let a call or stream of the first meet
the second and a closer of the second meet the third. Two generations and two
versions let a download return after its source was configured, dropped and
configured again, and a file change between stat and read, and between read and
publication. Two turns on one place give refusal, eviction and reuse while the
other turn is at any point. Six lines reach the response limit by lines that are
each legal, exactly and with one byte more, and four and a last one without a line
feed reach the limit that the code counts as passed. Three headers can agree, disagree, and meet under two spellings of one
name, before or after an invalid one. Four messages hold two calls with one id,
a result before, between and after them, and a call without an id. Two builds
and two faults let a run of one build die in an upload, a run of the other meet
the starter, and the first upload finish then; three assets are a first, a
middle and the manifest. Two errors are a failure and a failure of its rollback.
Two models are enough for every collision of names, and three
filter names spell one model in three ways.

Three further runs state what a document of the repository says, and TLC refutes
it from the code (the findings of PROJECT.json):

- CatalogEfforts: ARCHITECTURE.md:92-94 says unsupported efforts fail; the code
  drops them and goes on (models.go:150-173).
- CatalogBudgets: ARCHITECTURE.md:78 says an omitted budget uses at most 64000;
  a fallback output is sent as it is (request.go:177-179).
- EventDecoderCounts: the comment at response.go:63 says every turn abandoned
  without a finish event is counted; one whose connection breaks is not
  (event_decoder.go:117).

Fairness. PluginLifecycle: threads that can go on do (weak fairness of each
step), a cancelled context ends the wait it governs, host callbacks return. There
is none on `Initialize`, on new calls, on `Answer` or on `BodyEnds`: the host need
not call and the gateway need not answer. TurnExecution: the same, and `Expire`,
since every gateway context has a deadline; a gateway's answer counts only when
the context has ended. `Arrive`, `Tick` and `Stop` are not fair. ReleasePublish: a
run proceeds, the server ends every upload, and failed jobs are run again, with
each build that is at hand (strong fairness of `Begin`, which is disabled while a
run is at work): this is a promise of people, not of the code, and
`RetryCompletes` says what the code makes of it. Deaths, failed uploads and
interventions are not fair, and their number is bounded: retries need not
outlast endless failures.

Limits of what is claimed. `PublishedIsWhole` and `ManifestIsLast` except what
`torn` marks: an asset that a person removes after the run's last listing, which
no later call of the script looks at. `InterferenceIsNoticed` allows one asset
after an intervention, since check and mutation are two calls. `FinishedIsKept`
excepts the asset that a run lists as an empty starter and whose upload ends
before the DELETE arrives: it is lost, although it was finished, and the run
uploads its own in its place. For a person's upload in progress nothing is
promised at all, although delete_starter says (release_assets.py:182) that only
starters of failed uploads may be deleted: the API shows the two alike. `AllOrNothing` says
nothing after an interrupt or a crash, when files may be mixed; `CommitFits` then
says that they stay in the working tree.

## 5. Proofs

Each proof module shows `Spec => []IInv` for an inductive invariant, with one
lemma per action, from which the invariants that the runs check follow, and the
action properties by one case analysis each. Where there is an abstract module, the
refinement is proved as well: the initial states map to initial states, and every
step that starts in `IInv` to a step or a stutter. The theorems hold for all values
of the constants that satisfy the named assumptions of the modules. Every safety
property of a passing run is a theorem.

**SessionStoreProofs.** `IInv` adds to the checked invariants `IdsMinted`: stored
identifiers were minted and differ pairwise, and no entry was touched in the
future. Without the first, a release could meet a foreign entry with its
identifier and free it; without the second, the entry just used would not be
the most recent one. `RecencyOrder` is what turns "searched from the back" into
"least recently used" (`DropsAreLegal`). `Refinement` maps a stored entry to a
known conversation and a live closure to a lease; each action maps to a step of
SessionLease or to a stutter.

**PluginLifecycleProofs.** `RuntimeInv` says that host pointer and active instance
move together, that every instance ever created but the active one is stopping,
that the closer
past its drain has found no task, and that opening calls own distinct streams.
`NoTaskOutlives` then holds since a task is only admitted to an instance that is
not stopping, which is the active one, and the active one is only given up
without tasks; `HostPointerValid` follows since a stream in a host call is a
counted task of its instance.

`ImplementsService` is the refinement of PluginService. Its steps are stated once
in the library's terms (`ServiceSteps`), and each action is shown to be one of
them. Three of the service's guards are where the design earns its keep: a call
is admitted by the instance it read long ago, and that this is the one served and
open needs that all others are stopping (`AdmittingIsServed`); a host call needs
that the caller is work in progress, with the pointer of its own instance
(`PendingIsWork`); and an instance is given up only without work or callbacks,
which needs what the closer learned before it took its next step.

**ModelRegistryProofs.** `RegistryInv` relates the two stores through `stateMu` and
the times of attempts and successes; `VersionInv` orders the versions along the
way from stat over read to publication, which is what `FileIsFresh` needs:
remembered time <= published version <= version on disk, so equality of the ends
forces equality of all.

**TurnExecutionProofs.** A step of a turn is a step of the store or leaves it
alone (`StoreStep`), so the store's behaviours within the composition are those of
its specification (`UsesTheStore`) and its `IInv` comes from SessionStoreProofs.
`TurnInv` adds what binds a turn to it: a lease is the one of the turn's own key
and conversation, an engaged turn with a key has it, and RPC and goroutine are
at work one after the other. `ConversationExclusive` is then the store's
`LeaseInv` seen from the gateway, and `ShutdownLeavesNothing` follows since the
tasks are exactly the halves of turns at work. The invariant is stated turn by
turn (`TasksOf`, `StreamOf`, `LeaseOf`), and `OneTurn` reduces a step to the turn
that moves. Assumed besides the store's constants: a turn without a key talks in
a conversation no entry has (`SidAssumption`, newUUID in the code).

The store's own refinement carries over, so the turns implement the abstract
lease (`LeasesConversations`). `ImplementsService` is the refinement of
TurnService. `Views` says what the outside sees of a turn from where its two
halves are, `OnlyThisIsSeen` that a step of one turn is seen of that turn only,
and `TurnServes` goes through the actions: eight are never seen, the end of one half
only when the other has ended, and the rest are what their names say. That
nobody else talks in the conversation a turn
connects to is `ConversationExclusive` of the state that follows.

**EventDecoderProofs.** The stream is what the host took with what is queued.
`StreamInv` says that it is well formed, and that a decoder which still reads
remembers it: sentRole is whether it has a frame, `tools` the indexes it has used,
`done` whether its final frame is last. `Live` ties the decoder's size counter to
the bytes of the body (`Counted`), so that `Oversized` is a statement about the
body (`SizesExact`); that failures for a size are past a limit follows from it
(`RefusalsInv`). That what is read on or accepted is within the limits
(`LegalInv`) needs `AlikeInv` as well: the body must not grow for one mode after
the other has returned nil. `PushEffect` is the contract of push, from one lemma per kind of
event; `StreamGrows` is what its frames do to the stream. `FrameGrammar` follows as
a prefix of a well-formed stream is well formed (`PrefixWellFormed`), and a proper
prefix has no final frame, which is half of `OnlyWholeAnswersSucceed`.

That the two modes agree (`ModesAlwaysAgree`) needs an invariant across them,
`AlikeInv`: unless the host refused a frame, both decoders are done and failed
alike, have seen equally many calls, and what the stream says so far is what the
buffered one keeps (`Told`). `PushTells` shows it of one push of the same event to
both, and `ChunksTell` of the rendering in chunks. What a stream says is the join
of its pieces, a recursive function: `PiecesExist` shows by induction that there
is a function which does what the definition asks for, `PiecesSteps` that the
definition therefore names it, and the lemmas after it how it grows.

**CatalogProofs.** Catalog's properties are statements about the operators of one
state, so `TypeOK` is all the invariant there is: whatever is published has no two
IDs that differ in capitals only. The argument goes by operator. `Match` finds a
model only under a spelling of its ID or under a short name nobody shares
(`MatchSpells`), and finds each model under its own (`SpelledMatches`); a model
that is filtered out is not `Allowed` under any name (`ExcludedIsNotAllowed`), and
listing, routing and execution all ask that. `reasoningEffort` is split by what is
asked (`SilentEffort`, `GatewayEffort`, `InvalidEffort`, `SuffixDecides`), `maxTokens`
by what is known (`BudgetOf`). `OffersAreServed` puts them together. Assumed: lists
are finite (`RostersAssumption`), and the mark for no effort or no budget is no
model, level or number (`NoneAssumption`; the code uses the empty string and nil).
Writing the proof showed that two cases of `maxTokens`, stated as a CASE, had
overlapped where the code tries one before the other; the model now follows that
order.

For CatalogOutputs the invariant has one part per phase of the script (`Staging`,
`Renaming`, `RollingBack`, `Ending`, `Ended`): which files are new, which are as
before, and that each that is new has a backup in reach.

**TurnRequestProofs.** The composition interleaves nothing into its two halves, so
its behaviours are behaviours of each (`ImplementsIdentity`,
`ImplementsTranslation`), and their invariants are its own.

For the identity, `HeaderInv` and `BodyInv` say, until the walk ends, that what was
read is the identity, sound, and each name once, so an order of reading leaves no
trace. A piece that does not agree makes the evidence other than one value
(`DisagreementSpoils`), which is why a refusal, at whatever piece, is right for
every order.

For the translation, the invariant states `RequestIsKept` of the messages reached
so far: what was sent is the history up to `index` and, within an assistant's
message, up to `call`; `toolNames` has the latest call of each id; and minted ids
meet neither the client's nor each other. There is one lemma per kind of message,
and `FailureIsRight` shows that each refusal has a part that cannot be translated.
The filters of sequences that the statement uses are recursive functions
(`KeptUpTo`), handled as the pieces of a stream are (`WalkExists`, `KeptSteps`).
Assumed besides the shapes of the constants: an id of the client's is never one
that newID mints (`IdsAssumption`).

**ReleasePublishProofs.** `Placed` and `ReadBack` say what a run knows at each call,
`Verified` that what it has verified lasts but for removals, `OwnRecords` that the
record it fills is its own and unfinished, and that the one it deletes is finished
only if it was overtaken since the listing, `Noticed` that an intervention
followed by a mutation is still to be seen at the next check, and `Closed` that
no run changes a release that a run has published. The last is what makes
`PublishedIsWhole` inductive: without it a later run could still be on its way to
a mutation.

About the provers. The library's induction theorems take an operator, which the
provers here cannot instantiate. The two modules that need induction therefore
state it for sets (`Induction`: a set that has 0 and the successor of each of its
numbers has them all), from the facts about finite sets, and apply it to sets
defined by the claim. `SelectSeq` and `FlattenSeq` cannot be expanded in a proof,
so the model says the same with recursive functions of its own.

Only model-checked: the three liveness properties, `ShutdownReturns`,
`LeaseReturns` and `RetryCompletes`, which need fairness and ENABLED, beyond the
prover; and the violations that refute the documents, which are counterexamples.

## 6. Not modelled

Token counts and normalization (countTokens, normalize.go) convert one payload
each, keep no state, and have the host's converters, which are not in this
repository, to answer for the result. Of request translation, image media types
and the fixed fields of the envelope are left out. YAML decoding, validation of
single values, the lookup of API keys, header and URL construction, ABI buffers
and generated data are conversions and environment reads. Of the scripts,
`prepare` and `validate_build` work on the local files of one run, the metadata
is scraped and merged as text, and CI runs commands one after the other: none has
a state that the properties could relate.

## 7. Plan

Done in this order: SessionStore with its abstract lease, PluginLifecycle,
ModelRegistry, TurnExecution over the store, EventDecoder, Catalog; proofs of the
first four; ReleasePublish, SessionIdentity and CatalogOutputs with their proofs;
RequestTranslation and its composition with the identity; proofs of EventDecoder,
Catalog, and the request translation; the abstract services of the library and of
its turns, and the proofs that these are implemented.

To do, in this order:

1. An abstract registry: a list of models that is always one of a source the
   present configuration names, with ModelRegistry's refreshes as its steps.
2. The abstract stream of one turn: the frames a client may see, as the common
   promise of TurnExecution's relay and EventDecoder's frames.
3. Normalization before and after the host's converters, if these become part of
   the repository.
