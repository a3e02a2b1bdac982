# A TLA+ model of cadence-tools

cadence-tools is a set of developer tools for the Cadence language: two
language servers (the older `languageserver/server` with its Flow integration,
and the newer `languageserver/server2`), a test framework, a linter, a
documentation generator and npm packages that wrap some of them as WebAssembly.
This directory models the parts whose correctness depends on what happens when:
which goroutine holds which lock, which timer or check is late, what a cache
still holds.

## Inventory

| Component | State | Operations | What makes it hard | What makes it correct |
|---|---|---|---|---|
| v2 debouncer (`server2/debounce.go`) | a map from document to timer | Trigger, Stop, the timers' callbacks | a callback waits for the lock while Trigger replaces its timer | the last callback of a key is not lost and runs; earlier ones are replaced |
| v2 checker cache (`server2/cache.go`) | a map and a list of entries | Get, Put, Delete, DeleteByPrefix | two structures changed together; the cache at its capacity | map and list agree; the least recently used key is evicted |
| v2 dependency graph (`server2/depgraph.go`) | forward and reverse edges | AddEdge, ClearDependenciesOf, Invalidate | cyclic imports; Invalidate runs under the host's lock | the two maps agree; Invalidate ends and is exact |
| v2 analysis host and checks (`server2/server.go`, `snapshot.go`, `analysis.go`) | documents, revision, cache, graph, cancel functions by document | open, change, close, scheduleCheck, runCheck, Analyze, Shutdown | checks run on timer goroutines while main handles messages; a context is looked at three times only | every edit is checked; results belong to the text they are shown for |
| v2 request handlers (`server2/handlers.go`) | completion sessions, code action resolvers | hover, definition, completion, ... | answers come from a cache that checks fill concurrently, imports included | an edit reaches what used the document; definitions find the declaring checker; recent completions resolve |
| import resolvers (`resolver/`) | the contracts of flow.json and its modification time | ResolveImport | a file that changes or breaks between two reads | a repaired file is used again; sources are tried in order |
| v1 server (`server/server.go`) | documents, checker cache, resolvers by document, commands | the protocol handlers, command registration | import cycles, registration retries on a goroutine | an edit invalidates what depends on it |
| configuration manager (`integration/config_manager.go`, `state.go`) | states, clients, watchers, document index, load errors | resolve by path or project, two watch loops | file events race with lookups | the nearest flow.json is used; an error is reported until it is repaired |
| Flow client and commands (`integration/flow.go`, `integration.go`, `commands.go`) | emulator accounts, the active account, the prompt flags | create account, deploy, send, switch account, prompt | bounds, partial failures, a prompt on a goroutine | one active account; the user is asked once per root |
| JSON-RPC and transports | a stream | read, dispatch, reply | a handler that calls the client would wait for itself | messages are handled one at a time, in order |
| test framework (`test/`) | emulator, pending block, accounts, logs, coverage | setup, beforeEach, test, afterEach, tearDown, block operations | one step of several failing | tests run in order, each with its hooks |
| lint (`lint/`) and docgen (`docgen/`) | per-run tables | load, analyse, render | recursion over imports and syntax | pure algorithms |
| v1 npm package and its WebAssembly program (`npm-packages/cadence-language-server`, `cmd/languageserver/main_wasm.go`) | clients by number, one program for all | create, toServer, onClientClose, callbacks, exit | concurrent creates; calls from inside callbacks; exceptions | replies reach their sender; no server becomes deaf; the end is told once |
| other npm packages | tables of import code, a queue | start, post, dispose | messages before the module has started | - |

Interactions: the JSON-RPC layer calls a server's handlers one after another on
one goroutine ("main").  The v2 handlers call the AnalysisHost (documents,
cache, graph) and the debouncer; the debouncer's timers call `runCheck` on their
own goroutines, which read a snapshot of the documents, share the cache and the
graph with main, and publish to the client.  The Flow integration plugs
resolvers and commands into the v1 server and reacts to file events on further
goroutines.

## Modules

| Module | Models |
|---|---|
| `Debouncer` | `server2/debounce.go`. `timers` is `d.timers`; `pool` holds every `time.Timer` ever made and its state; `Trigger`, `Unmap` + `CallFn` (the callback before and after it releases the lock) and `Stop` are the code's critical sections, `Expire` is the Go runtime. |
| `LRUOps` | the operations of `server2/cache.go` on a cache value, shared by the next module and `CheckPipeline` |
| `LRUCheckerCache` | the cache as a state machine; `DeleteByPrefix` is taken one loop turn at a time with the mutex held |
| `LRURecency` | what a least-recently-used cache promises, by a relation "was last used before" and without a list |
| `ValueLemmas` | lemmas about values, shared by the proofs: recursive functions, flattened sequences, and what the operations of `LRUOps` do to a coherent cache value |
| `LRUCheckerCacheProofs` | proofs about `LRUCheckerCache` |
| `DependencyGraph` | `server2/depgraph.go`; the breadth-first walk of `Invalidate` is taken loop turn by loop turn, in any map iteration order |
| `DependencyGraphProofs` | proofs about `DependencyGraph` |
| `CheckPipeline` | `server2/server.go`, `snapshot.go`, `analysis.go` and `checkerForDocument`, composed with `Debouncer` and `LRUOps` |
| `CheckPipelineProofs` | proofs about `Debouncer` and about `CheckPipeline`, which moves the timers through it |
| `ImportResolver` | `resolver/flowjson.go`, `file.go` and `interface.go` as `lsp-v2` composes them, as operators on a resolver value, and the user's flow.json |
| `RequestsV2` | `server2/handlers.go` and the import handler of `Analyze`, composed with `ImportResolver`, `LRUOps`, the documents and the edges of the dependency graph |
| `RequestsV2Proofs` | proofs about `RequestsV2` and `ImportResolver` |
| `ConfigManager` | `integration/config_manager.go` and `state.go`, with `initialize` and the prompt of `integration.go`, and the caches of `resolvers.go` |
| `ConfigManagerProofs` | proofs about `ConfigManager` |
| `FlowClient` | the accounts of `integration/flow.go` and the code lenses of `contracts.go` and `entrypoint.go`, as operators |
| `ServerV1` | `server/server.go` with the commands of `integration/commands.go`, composed with `FlowClient` |
| `ServerV1Proofs` | proofs about `ServerV1` and `FlowClient` |
| `EmulatorBackend` | `test/emulator_backend.go` as operators on a backend value, over an external emulator |
| `TestRunner` | `test/test_runner.go`, composed with `EmulatorBackend` |
| `TestRunnerProofs` | proofs about `TestRunner` and `EmulatorBackend` |
| `WasmClients` | the v1 npm package's `CadenceLanguageServer` and the program it runs, `cmd/languageserver/main_wasm.go`, with what `jsonrpc2` does to a stream |
| `MC*` | give the modules to TLC |

`CheckPipeline` in the code's terms: `main` is the program counter of the reader
goroutine inside a handler; `checks` is the sequence of all `runCheck` calls, a
check's index standing for its token (tokens are only compared for equality);
`cancels` is `s.cancels`; `shown` is what the client displays.  Each check goes
through `snapshot`, `start` (first look at the context, document lookup, parse),
`parsed` and `checked` (second and third look), `put`, `publish`, `finish` (the
deferred function).  The text of a document is named by the revision that stored
it; whether a text parses depends on the text alone (`Broken`).

Simplifications in `CheckPipeline`, and why they lose nothing:

- `UpdateDocument` and `RemoveDocument` are atomic.  They hold the host's lock,
  which `Snapshot` needs; the cache has its own lock, but a `Put` in the middle
  has the same effect as one just before.
- creating the context, taking a token and registering are one step, because
  neither the context nor the token is visible before the registration.
- `NewChecker` cannot fail here (it only does without a location), so its error
  return is not an action of its own.
- a `didChange` without changes returns at once and is a stuttering step.
- the client follows the protocol: it changes and closes open documents only and
  sends nothing but `exit` after `shutdown`.  It has initialised the server.

`RequestsV2`.  `jobs` holds one `Analyze` for main and one for a timer
goroutine; its stack is the recursion of the import handler, one frame per
checker under construction.  A job advances import by import (`ImportCached`,
`ImportLoad`, `ImportRead`, `ImportChecked`, `ImportEdge`), since between these
the other goroutine may change the cache, the edges and the resolver.  `main` is
the handler in progress and `reply` the answer the last step sent.  Which
request is made, and for which position, is left open until the checker is
there, because no handler looks at it before.  What the code compares are keys,
not files, and the model has both: an open document has the key of its URI, an
import the key of its own text (`Loc`, of the kinds URI, path, name and
address), and nothing in the code makes one from the other.  `FileOf` says which
document a location denotes for the reader; only properties use it.  A URI is
never readable as a path, so an import by URI is found only in the cache, as the
checker that the analysis of that document left there; a path import is read from
the disk.  A file that does not parse fails the import like one that is not there
(`Parsed`).  `PlaceOf` is `checkerLocationToURI`: the text of an import, or the ID
of an address.  Simplifications: the walk of `Invalidate` is one step
(`DependencyGraph` shows that it is exact); there is one timer goroutine
(overlapping checks are in `CheckPipeline`); in the runs imports have no cycles,
since on cycles of files that are not cached the code recurses without end; the
contents of answers are the symbols they are about.

`ConfigManager`.  `heap` holds the `flowkitState` objects, `states` and `clients`
refer to them, `loops` are the goroutines of `watchLoop`, `threads` those of
`watchDirLoop`, of the prompt and of main.  Each critical section of `m.mu` is a
step; `loadState` keeps the lock over two (`Unlocked` is what the others wait
for).  File events arm the debounce timers of the loops; a timer that is armed
again while it runs is one more turn of its loop.  `hist` remembers which
objects, entries and files fell into the windows that the properties exempt.
Simplifications: for the path of a configuration only that file is looked for, and
not, when it vanished meanwhile, those of the parent directories (`Above`,
`FindNearest`); a directory without a flow.json is known by the flow.json it would
have (`ProjectOf`); a `flow init` that succeeds
and leaves no file, on which the code goes on with a nil state, counts as one that
failed (`PromptAnswer`).

`ServerV1`.  One goroutine handles a notification in two steps (the documents,
then the check) and a request in one, while the user changes flow.json and files
in between.  A project identity is flow.json's modification time, as in
`projectIdentityProvider`.  The code actions of one check share one id.
The accounts of flow.json (`Configured`) are the members of a JSON object, a set
whose order is left open.  What `handleImport` does for a check is stated over
the graph of the files it looks at (`ImportGraph`): a cached location is looked
at no further, an import fails if a file it reaches fails (`ImportOk`), and the
files that pass are cached.  Files that lead to each other are checked inside
each other without end in the code; such a check takes no step here (`Endless`),
as it never finishes.  A panic of `handleLocation` leaves the imports before the
failing one cached.
Simplifications: all documents belong to one flow.json; a panic of an address
import inside an imported file is left out (`CheckPanics`); that two checkers share
a program, which the code asks by pointer, is told by their project (`FindsUse`);
the access check mode of the options or the settings may be a known name or not
(`AccessCheckMode`); a panic in a handler is
the reply `"panic"` (`jsonrpc2` recovers and sends none); the commands use the
client that the lenses use.

`TestRunner` and `EmulatorBackend`.  Everything is sequential: a script's
functions (`phase`) make backend calls in any order and with any outcome, and a
run ends in `reply`.  The emulator is external and modelled from how the backend
uses it and from `test_framework_test.go`: a block is refused while transactions
are unexecuted, no transaction joins a block under execution, and a wrong
sequence number fails a transaction unless the chain is a fork.  Left out: the
errors of signing and of encoding arguments in `AddTransaction`, which return
before anything changes, and the panic of `DeployContract` when the file resolver
fails, which comes before everything else it does.

`WasmClients`.  There is one thread: a call from JavaScript into Go runs the
program until all its goroutines wait, and Go in turn calls the page's functions.
`stack` holds the handlers in progress, each inside a callback of the one below;
`toServer` the numbers for which a function to send with exists (the read that
makes it deletes it when it is called); `owner` whose callbacks the globals of a
number are; `conn` how far the end of a connection is.  `create` is two steps,
since it awaits the binary; `LoadDone` runs a program in place of one that another
`create` has run meanwhile.  JavaScript, WebAssembly and the `jsonrpc2` library
are external, modelled from how the package and the program use them.

## What TLC checks

| Run | Bounds | Shows |
|---|---|---|
| `debouncer_replace` | 1 key, 3 timers | violated: a late callback deletes the entry of its successor, and the key then has two armed timers |
| `host_structures` | cache: 4 keys, 2 entries, capacities -1, 2, 3; graph: 3 files, all graphs | map and list agree, and the cache implements `LRURecency`: more keys than the largest capacity, so that eviction happens with every order of use. The edge maps agree; `Invalidate` is exact and ends: three files allow self imports, two- and three-cycles and diamonds without a fourth corner. The two share nothing, so a behaviour uses one of them (`used`). |
| `check_pipeline` | 2 documents, 3 notifications, 1 request, 1 cache slot, with and without delay | `OwnerAlive`, `OwnerCurrent`, `EditsChecked`, `SyncShowsCurrent`, and of the debouncer `MapHoldsLatest`, `LatestNeverStopped`, `OrphanedByOlderCallback`. Three notifications let three checks of one document overlap, or an open, an edit and a close, and leave room for a late callback, the timer it orphans and a successor; text 2 does not parse. |
| `check_pipeline_live` | 1 document, otherwise the same | `EveryEditChecked`, `LastCallbackRuns` |
| `closed_document` | 1 document | violated: the timer of a closed document still fires, and "document not found" stays on display |
| `query_latest` | 1 document | violated: a stale checker put into the cache after an edit answers a request |
| `requests_v2` | documents a, b, e and a contract c; the path p of b's file; a imports p twice (once by identifiers), b imports c and, by its URI, a, and e imports b by its URI; edits, requests and writes of flow.json up to 1, 2, 0 or 2, 1, 1 or 5, 0, 0 (`MCBudgets`); cache of 2, 1 completion session; text 2 does not parse | `EditInvalidatesUsers`, `OwnerLocated`, `ResolvesFromFile`, `RecentSessionsResolve`. Two cache slots for more checkers than that make the checks evict each other's imports; one session slot is exceeded by the second completion; five edits, one of them broken, open the chain e, b, a and change its end. |
| `edits_v2_importers` | documents a and b, 3 edits | `EditInvalidatesImporters` violated: a imported b's file by its path, and keeps its checker when b is edited |
| `config_manager` | nested directories r and s, a custom file k in r, a document in each; 2 requests, 2 writes (r's file written or removed, s's written, k's broken); no, valid or broken files at the start | `StatesSettle`, `ClientsSettle`, `CachesSettle`, `IndexSettles`, `PromptOnce`. Two writes repair or restore a file, or remove it, and break another, during a request. |
| `server_v1` | documents a and b, a imports b; up to 3 notifications, 3 requests, 3 commands, 2 versions of flow.json, 1 file write, in four combinations (`MCBudgets`); 2 account names; one access mode, which no property looks at | `AnswersCurrentText`, `ImportsSeeEditor`, `ActionsOfCurrentText`, `LatestItemsResolve`, `OneActiveAccount`. Two names put the account limit within reach of the commands. |
| `test_framework` | 5 scripts (hooks, imports, forks of two networks, a bad pragma), 3 configurations; 2 runs, 3 backend calls | `OffsetTracksBlock`, `ForkFits`, `EventsLocal`, `ResultsComplete`. Three calls add, leave open and then commit, roll back or restore a block; two runs carry a backend over. |
| `wasm_clients` | 3 clients, 4 calls of their functions, 3 callbacks | `RepliesToSender`, `ServersListen`, `ClosesOnce`. Three clients allow two that load at once and one that comes later, or handlers of three servers inside each other; three callbacks stack them and leave one to throw; four calls hold a message, a close and what comes after. |

In words: `EditInvalidatesUsers` says that an edit leaves no cached checker of
another document's current text that imported the document by its key, nor one
that so imported a document which this edit dropped; `OwnerLocated` that definition
and rename answer with the location of the declaring checker, as the imports call
it, when this checker is still the one in the cache, and never with another import;
`ResolvesFromFile` that an import is resolved as some flow.json during the call
says; the `*Settle` properties that, once every loop is at rest, what the manager
keeps agrees with the files; `AnswersCurrentText` and `ActionsOfCurrentText` that
answers and code actions are about the text the client has, where the document
was checked under the current flow.json; `RepliesToSender` that what a handler
writes goes to the client whose message it handles; `ServersListen` that between
calls every server that still reads can be sent to; `ClosesOnce` that the end of a
connection is told once.

The bounds `MaxTimers`, `MaxRevision` and `MaxQueries` only stop the client from
sending more; `PipelineAssumption` says that a Trigger never waits for the timer
bound.  All runs but `debouncer_replace` and `host_structures` have a client or a
user, and do not check for deadlock: a client that has sent all it wants leaves the
program at rest, which is what `Quiet` and `Settled` describe.

Fairness.  `PipelineFairSpec` assumes weak fairness of the
timers (the Go runtime expires an armed timer and runs its goroutine), of every
check and of the rest of a handler (goroutines that wait for nothing but short
critical sections are scheduled).  `DepFairSpec`, in the run `HostSpec`, assumes it
of the walk, for the same reason.  Nothing is assumed of the client.  The other modules
state safety only; that the watch loops catch up is stated for the states in which
none of them has anything left to do.

### Disagreements found

- `debounce.go:38` deletes the entry of its key whichever timer it holds by then
  (`debouncer_replace`).  The consequence is bounded: by
  `OrphanedByOlderCallback` an armed timer is out of reach only after an older
  callback of its key, and by `LatestNeverStopped` no last callback is lost;
  there is one check too many, and it may run after `Stop`.
- `DidCloseTextDocument` leaves the document's debounce timer armed
  (`closed_document`).
- `Analyze` puts its checker into the cache after its last look at the context,
  so an edit in between is followed by a stale entry (`query_latest`).
- `UpdateDocument` says that it invalidates the cache entries of "this file and all
  its transitive dependents" (`snapshot.go:29-30`).  It invalidates by the document's
  URI (`snapshot.go:39`), while an import is keyed by its own text
  (`analysis.go:227`), so that an importer by path keeps its checker
  (`edits_v2_importers`).
- "Per-document resolution ... always uses the nearest ancestor flow.json"
  (`config_manager.go:43`), but `lookupOrFindConfig` keeps what it found first, and a
  new file drops only the entries that lead to itself.  The model does the same, but
  no run singles it out: `IndexSettles` only asks that the file of an entry exists.

### Behaviour worth knowing

Met while modelling, and part of the models; no property of the runs is about it,
or the property names it as an exception.

- v2: a definition falls back to the current file when the declaring checker was
  evicted; of an imported symbol it gives the text of the import or the ID of the
  location, as `TestDefinitionCrossFile` expects, and not a URI the client could
  open; an import by path shows the disk, not the editor, and is read again only
  when it is evicted; an edit does not cancel the running checks of its importers; a
  check that ends after its document was closed leaves a checker without edges; an
  import that fails leaves no edge, so that creating the file later invalidates
  nothing; `codeActionsResolvers` is never filled.
- Configuration manager: a write between `loadState`'s read and its watcher is
  missed; when a reload fails or a file is removed (`config_manager.go:580-588`) the
  resolvers are not told and keep their addresses, which `CachesSettle` exempts as
  the caches of states that are replaced; a client
  may be installed for a state that was just dropped and is then never reloaded;
  an initial configuration that fails to load leaves `numberOfAccounts` 0 for the
  session; a flow.json event next to a custom configuration moves its state under
  flow.json's key; `promptShown` stays set after a failed `flow init` or a second
  open under an asked root.
- Flow client: switching to an unknown account unmarks the active one; creating
  an account when as many exist as there are names panics after the chain has
  made it; a lens keeps the entry point of an earlier text when the new one has
  none, and a reopened document whose version number recurs keeps its old lenses.
- v1: `didClose` does nothing; a file changed on disk is not seen until flow.json
  changes; after a change of flow.json the resolver of an undeclared function
  proposes a variable, and an importer's check puts the disk version of an open
  document under its key until it is checked again.
- Test framework: a refused commit, a snapshot or an account created while
  transactions are pending puts `blockOffset` out of step until the next commit
  or reset, against the comment on it (`emulator_backend.go:110-112`);
  `OffsetTracksBlock` exempts these cases (`skewed`); a deployment while transactions are
  pending executes the first of them; a second script with the same network and
  another height keeps the fork;
  a failing `beforeEach` or `afterEach` drops the results so far and `tearDown`.
- v1 npm package: two creates that find nothing loaded run two programs, and the
  second takes over the numbers of the first (`RepliesToSender` names the case);
  the `exit` of one client ends the program of all, and as `loaded` stays true
  every later create fails.
- v2 worker, which is not modelled: code pushed for a string import later does not
  invalidate what was checked with the earlier one, and the address cache survives
  a change of the access node.

## What is proved

With TLAPS, for every value of the constants:

- `ValueLemmas`: lemmas only.  Of the well-ordering of the numbers, induction over
  the members of a set of numbers (`Induction`) and that a recursive function that
  iterates steps exists (`Iteration`): by them the recursive functions of the
  models and `FlattenSeq` are reasoned about without an operator parameter.  What
  removing, prepending and dropping the last element do to the keys of a list
  without repetitions (`UnlinkFacts`, `PushFrontFacts`, `DropBackFacts`); from them
  every operation on a cache value preserves `Coherent`, and what `Get`, `Put` and
  `Delete` keep and drop.
- `LRUCheckerCacheProofs`: type correctness and `MapMatchesList`, from those
  lemmas; the invariant adds that `sweep` is empty unless `DeleteByPrefix` holds
  the mutex.  And the refinement `ImplementsRecency`, step by step: the mapping
  takes the list to the entries it stores (`ValuesOf`) and to which key comes
  after which (`OlderIn`).  Removing an element forgets the pairs of its key
  (`UnlinkOlder`), pushing to the front makes every other key older
  (`PushFrontOlder`), and the back is older than all others (`DropBackOlder`),
  so a Get is `RecencyGet`, a Put is `RecencyPut` or, into a full cache
  (`CacheSize`: as many keys as elements), `RecencyEvict` of the key at the back,
  a Delete or a turn of `DeleteByPrefix` is `RecencyDelete`, and the rest
  changes nothing.  Assumptions: `RequestedAssumption`, `MatchingAssumption`.
- `DependencyGraphProofs`: type correctness, `EdgesMirrored`, and the action
  property `InvalidateExact`.  The walk's invariant says that what is marked lies
  in every closed set with the origin (`WalkSound`) and that a marked node is
  queued or its dependents are marked or about to be (`WalkComplete`); at the end
  the visited set is closed and least.  Assumption: `NoUriAssumption`.
- `CheckPipelineProofs`, of the debouncer: type correctness, `MapHoldsLatest`,
  `LatestNeverStopped` and `OrphanedByOlderCallback`.  The inductive invariant is
  their conjunction: `MapHoldsLatest` is what makes the other two inductive, since
  the timer that Trigger stops is of the same key only because the map says so.
  Assumption: `MaxTimersAssumption`.
- `CheckPipelineProofs`, of the server: type correctness, `OwnerAlive`, `OwnerCurrent`,
  `EditsChecked` and `SyncShowsCurrent`, for any documents, notifications,
  requests, texts without a program and cache capacity.  The invariant is
  `PipelineInv`.  It holds the debouncer's own invariant, because the server
  moves the timers only through the debouncer's operations; what main and each
  check know at each of their steps (`MainFits`, `SnapFits`: without them a step
  in the middle of a handler has no document); `OwnerAlive`, which makes
  `OwnerCurrent` inductive, since the entry a new check overwrites is of the same
  document; `EditsWorkedOn`, that for every text not yet published somebody is on
  the way to it (main, an armed timer, a late callback, a check that was not
  cancelled), with `TextsGrow`, that nobody has a later text than the document;
  and, for a server without delay, `SyncAlone`, `SyncCache` and `SyncShown`, what
  holds of the cache and the client in the middle of a handler.  Assumption:
  `PipelineAssumption`, with those of the debouncer and the cache.
- `ServerV1Proofs`: type correctness, `AnswersCurrentText`, `ActionsOfCurrentText`,
  `LatestItemsResolve`, `OneActiveAccount` and the action property
  `ImportsSeeEditor`, for any documents, files, import graphs, projects, account
  names and flow.json.  The invariant `V1Inv` has a part per group of variables.
  `CheckerKept`: the checker of a document's last check is cached under the
  project of that check, unless the document has changed, has no program, or its
  check panicked; it survives because an import caches only locations that the
  project has no checker of (`PutFacts`) and an edit drops only its own document.
  It gives `AnswersCurrentText`, and, as a cached import is looked at no further
  (`CachedImportFacts`), `ImportsSeeEditor`.  `ActionsFit`: the resolvers of a
  document are of its last check and of its text, except between an edit and its
  check, when no request is read.  `ClientFits`: the account at place i has the
  i-th name or one of flow.json, which is why the next name is always new; and
  accounts keep their place, name and address (`AccountsKept`), which is why a
  lens that was shown still runs as it says.  Assumptions: `FlowClientAssumption`
  (the names are distinct and none has the mark of flow.json, whose names are
  distinct as keys of an object), `ServerV1Assumption`.
- `RequestsV2Proofs`: type correctness, `RecentSessionsResolve`, `ResolvesFromFile`
  and the action properties `EditInvalidatesUsers` and `OwnerLocated`, for any
  locations, documents, import declarations (cyclic ones too), files, flow.json and
  cache capacity, any bound on the sessions and any number of edits, requests and
  writes.  The invariant is `ReqInv`; three groups of its parts carry the argument.
  `ResolverFits`: a resolver that has the modification time of the file has the
  file, or an error if it is broken; `FilesSeen`: between the two critical sections
  of an import, whatever the other goroutine reloads, the resolver finds what one
  of the files of that time says.  `EnsureLoadedFacts` is the step: a call either
  leaves what every lookup finds or makes it what the file says.  `SessionsFit`: the
  sessions are the last ones offered, in order, with growing ids, so that the id at
  the front of the order is the oldest session's and no other's.  `JobEdges`,
  `CacheEdges`, `GotEdges`: an analysis of the current text of a document, the
  checker it caches and the one a handler holds have an edge for each import they
  got, except for the one import whose edge is due next.  An edit or a close takes
  away only edges of its own document, whose checkers are no longer current; hence
  `EditInvalidatesUsers` (theorem `EditInvalidates`), as the importers of a dependent
  are dependents (`DependentsFacts`).  It is about keys, that is, imports by URI, and
  claims nothing of an import that gives the file another name; of those
  `edits_v2_importers` shows the opposite.  `OwnerLocated` (theorem `OwnersLocated`)
  follows from `GotEdges`: the search goes through
  every dependency (`SearchOrderFacts`: an order of a finite set without repetitions
  has all of it) and ends at the one that holds the origin (`SearchedFacts`).
  Assumptions: `ResolverAssumption` (every location is a URI, a path, a name or an
  address; a flow.json has one of four states and lists names), `RequestsAssumption`
  (the documents are the URIs).
- `ConfigManagerProofs`: type correctness, `StatesSettle`, `ClientsSettle`,
  `CachesSettle`, `IndexSettles` and `PromptOnce`, for any directories, documents
  and options and any number of writes and requests.  None of the `*Settle`
  properties is inductive: they speak only of the moments when nothing is under
  way.  `CfgInv` says instead what holds all the time: whatever is out of date (a
  state, a client, an address map, an entry of the index) has a loop or a thread
  that is armed or in the steps that lead to its repair (`StatesDone`,
  `ClientsDone`, `CachesDone`, `IndexDone`); when nothing is under way, nothing can
  be out of date.  For a loop to repair the right thing, what it took before it
  gave up the lock must still fit (`LoopsFit`, `ThreadsFit`): the objects a key, a
  loop or a thread may hold are those of its own file or ones moved from the custom
  file, an object that left the states of its own file never comes back there, and
  of a loop's state and client either can be at home only if they are one.
  `NotStarted` and `OneLoads` keep the initialization and the loads apart.  TLC
  checked `CfgInv` on an instance of 3.7 million states before it was
  proved.  Assumption: `ConfigAssumption` (`None` is no configuration or document,
  the threads `main` and `prompt` are no directories, every document has a
  directory above it).
- `TestRunnerProofs`: type correctness, `OffsetTracksBlock`, `ForkFits`,
  `EventsLocal` and the action property `ResultsComplete`, for any scripts,
  networks, contracts, snapshots and numbers of runs and calls, whatever the
  functions of the scripts do.  The invariant `RunnerInv` has two halves.
  `EnvInv`: the backend fits (`BackendFits`: of its blocks, and of those in its
  snapshots, only a fork's first is not local, and the fork began at the chain's
  base, which is why `Events` starts where it does); while `skewed` is false it
  is in step (`InStep`, which adds to `OffsetTracksBlock` that the pending ledger
  is as many numbers ahead as transactions were executed: a transaction's number
  is compared with that one); and if the user's label and fork agreed, so do the
  runner's and the backend's (`Agree`), which is what makes keeping a backend by
  its label alone right.  There is a lemma per operation of the backend.
  `RunInv`: at each phase, the functions invoked are those that the phase and the
  results so far call for (`Progress`), each result is that of an invocation,
  and the results with the tests that are left make up the script's tests.  The
  recursive definitions met here (`FlattenSeq`, the execution of a whole block)
  are reasoned about through `Iteration` and `Induction`.  Assumptions: `BackendAssumption`,
  `RunnerAssumption` (`None` is none of the values it stands beside; heights are
  numbers; a script's test functions have distinct names, as Cadence requires of
  the functions of a program).

Only model-checked: every liveness property (`LastCallbackRuns`,
`InvalidateReturns`, `EveryEditChecked`), which the prover cannot express, and the
invariants of `WasmClients`.  Every other invariant and action property of the
passing runs is also proved.  The type invariants of the debouncer, the cache, the
graph and the v1 server are proved and in no run.

## Not modelled

The components marked `not_modelled` in `PROJECT.json`: the generated protocol
types, position conversion, the standard library activations and the byte
streams are data without behaviour of their own; the linter and the
documentation generator are sequential walks over syntax trees whose meaning is
that of the Cadence parser and checker, which are external here; the worker of the
v2 npm package passes messages on and answers imports from two tables, and the
third package wraps the documentation generator.  Of the v1 server, the registration of commands with the
client is left out (a goroutine that retries and shares no state with the
handlers), of the Flow integration the conversion of arguments and the calls to
a network, of the test framework logs, coverage and printing.  The type checker
and the parser are external everywhere: a check's result is the text it checked
and the imports it got.

## Plan

What could still be added:

1. `DependencyGraph` as a component of `RequestsV2` in place of `edges` and the one
   step of `Invalidate`, with the walk on main and `AddEdge` of the timer's analysis
   waiting for its mutex.
2. More than one timer goroutine in `RequestsV2`: the invariant has no use of there
   being one, but the run would be too large.
3. Proofs of the invariants of `WasmClients`.
4. The hazards of `PROJECT.json` that have a note and no property.
