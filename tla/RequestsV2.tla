----------------------------- MODULE RequestsV2 -----------------------------
(***************************************************************************)
(* The request handlers of the v2 language server                          *)
(* (languageserver/server2/handlers.go) over the AnalysisHost, with the    *)
(* import handler of Analyze (analysis.go), the dependency graph, the      *)
(* checker cache, the import resolvers and the completion sessions.        *)
(*                                                                         *)
(* main runs one handler at a time; its analyses interleave with those of  *)
(* one timer goroutine, import by import.  Timers, overlapping checks and  *)
(* what is published are the subject of CheckPipeline.                     *)
(*                                                                         *)
(* The cache and the graph know a document by its URI and an import by the *)
(* text of its source: "./b.cdc" is another key than the URI of the        *)
(* document that holds this file.  FileOf says which document that is; the *)
(* program has no such function, and only properties use it.               *)
(*                                                                         *)
(* A checker is [id, loc, src, deps, own]: its identity as a pointer, the  *)
(* location and revision it checked (0 for a file), the checkers it        *)
(* imported, and whether it is the result of Analyze (own) or was made for *)
(* an import.  Its program declares one symbol, named by its location, and *)
(* uses those of its imports; a position is on a symbol or just after it.  *)
(***************************************************************************)
EXTENDS ImportResolver, LRUOps, FiniteSets

CONSTANTS
  Doc,             \* documents, by URI: also locations, for an import may name one
  FileOf,          \* [Loc -> Doc \cup {None}]: the document of the file it denotes
  Declared,        \* [Loc -> Seq([from, ids])]: import declarations
  Parsed,          \* the places whose source file parses
  Broken,          \* document revisions that have no program
  MaxSessions, CacheCapacity,
  Budgets,         \* bounds on edits, requests and writes: a behaviour keeps one
  SyncModes,       \* is config.DebounceDelay 0?
  None

ASSUME RequestsAssumption ==
  /\ Doc = {l \in Loc : KindOf[l] = "uri"} /\ None \notin Loc
  /\ FileOf \in [Loc -> Doc \cup {None}] /\ \A u \in Doc : FileOf[u] = u
  /\ Parsed \subseteq Place
  /\ Declared \in [Loc -> Seq([from : Loc, ids : Seq(Loc)])]
  /\ Budgets \subseteq [edits : Nat, requests : Nat, writes : Nat]
  /\ MaxSessions \in Nat \ {0}
  /\ CacheCapacity \in Int /\ SyncModes \subseteq BOOLEAN /\ Broken \subseteq Nat

VARIABLES
  sync,       \* is config.DebounceDelay 0?
  docs,       \* [Doc -> Nat]: the revision that stored an open document, or 0
  revision,   \* host.revision
  cache,      \* host.cache: checkers, under their locations
  edges,      \* host.depGraph: pairs <<importer, imported>>
  pending,    \* documents whose debounce timer is armed
  jobs,       \* Analyze on main and on the timer's goroutine
  made,       \* checkers made so far
  main,       \* the handler main is in
  reply,      \* the answer the last step sent, if it sent one
  sessions,   \* s.completionSessions
  order,      \* s.completionSessionOrder
  offered,    \* history: the sessions the client got items of
  requests    \* requests so far

hostVars == <<sync, docs, revision, cache, edges, pending, jobs, made>>
sessionVars == <<sessions, order, offered>>
reqVars == <<resolverVars, hostVars, main, reply, sessionVars, requests>>

Goroutine == {"main", "timer"}

NoChecker == [id |-> 0, loc |-> None, src |-> 0, deps |-> {}, own |-> FALSE]
Idle == [pc |-> "idle", kind |-> "none", uri |-> None, todo |-> {}, acc |-> {},
         got |-> NoChecker]
NoReply == [kind |-> "none", uri |-> None, value |-> {}]
NoJob == [pc |-> "idle", root |-> None, stack |-> << >>, cancelled |-> FALSE,
          edge |-> None, files |-> {}, fits |-> TRUE]

(* NewServerV2, which turns a capacity below 1 into 128, and Initialize.   *)
ReqInit ==
  /\ ResolverInit
  /\ sync \in SyncModes
  /\ docs = [u \in Doc |-> 0]
  /\ revision = 0
  /\ cache = NewCache(IF CacheCapacity <= 0 THEN 128 ELSE CacheCapacity)
  /\ edges = {}
  /\ pending = {}
  /\ jobs = [g \in Goroutine |-> NoJob]
  /\ made = 0
  /\ main = Idle
  /\ reply = NoReply
  /\ sessions = {}
  /\ order = << >>
  /\ offered = << >>
  /\ requests = 0

MainIdle == main.pc = "idle"

-----------------------------------------------------------------------------
(* Analyze                                                                 *)

(* singleLocationHandler: the location itself, or one address location per *)
(* imported identifier.                                                    *)
ResolvedLocations(d) == IF d.ids = << >> THEN <<d.from>> ELSE d.ids

ImportsOf(l) ==
  FlattenSeq([i \in DOMAIN Declared[l] |-> ResolvedLocations(Declared[l][i])])

Frame(l, v) == [loc |-> l, src |-> v, todo |-> ImportsOf(l), deps |-> {}]

(* Analyze of u up to its parse: a document that is not open or has no     *)
(* program is not checked.                                                 *)
Analysis(u) ==
  IF docs[u] = 0 \/ docs[u] \in Broken
  THEN NoJob
  ELSE [NoJob EXCEPT !.pc = "run", !.root = u, !.stack = <<Frame(u, docs[u])>>]

Top(g) == Last(jobs[g].stack)
Importing(g) == Head(Top(g).todo)

(* The import in hand is done: the importing frame has it, as checker id,  *)
(* or goes on without it (id 0).                                           *)
Imported(stack, l, id) ==
  LET f == Last(stack)
  IN  Append(Front(stack),
             [f EXCEPT !.todo = Tail(@),
                       !.deps = IF id = 0 THEN @ ELSE @ \cup {<<l, id>>}])

At(g, pc) == jobs[g].pc = pc

(* The import handler: a cached checker is taken, and an edge is due.      *)
ImportCached(g) ==
  /\ At(g, "run") /\ Top(g).todo # << >>
  /\ Importing(g) \in cache.items
  /\ LET l == Importing(g)
     IN  /\ cache' = AfterGet(cache, l)
         /\ jobs' = [jobs EXCEPT ![g] = [jobs[g] EXCEPT
               !.pc = "edge", !.edge = l,
               !.stack = Imported(jobs[g].stack, l, EntryOf(cache, l).id)]]
  /\ reply' = NoReply
  /\ UNCHANGED <<resolverVars, sync, docs, revision, edges, pending, made, main, sessionVars, requests>>

(* Otherwise ResolveImport begins, for a contract name, with ensureLoaded. *)
(* Its error fails the import.                                             *)
ImportLoad(g) ==
  /\ At(g, "run") /\ Top(g).todo # << >>
  /\ Importing(g) \in Name \ cache.items
  /\ LET l == Importing(g)
     IN  /\ resolver' = EnsureLoaded(resolver, flowJson)
         /\ jobs' = [jobs EXCEPT ![g] =
               IF EnsureLoadedErr(resolver, flowJson) # "none"
               THEN [jobs[g] EXCEPT !.stack = Imported(jobs[g].stack, l, 0),
                                    !.fits = ~ResolveAfresh(flowJson, l)]
               ELSE [jobs[g] EXCEPT !.pc = "read", !.files = {flowJson}]]
  /\ reply' = NoReply
  /\ UNCHANGED <<fileVars, sync, docs, revision, cache, edges, pending, made,
                 main, sessionVars, requests>>

(* Where the source of l is read from.                                     *)
PlaceOf(l) == <<l, IF l \in Name THEN resolver.paths[l] ELSE "path">>

(* The source is read, after the lookup of a contract name or, for other   *)
(* locations, at once.  It is parsed and given to a sub-checker; if it is  *)
(* not found, or does not parse, the import fails.                         *)
ImportRead(g) ==
  /\ \/ At(g, "read")
     \/ At(g, "run") /\ Top(g).todo # << >>
          /\ Importing(g) \notin Name \cup cache.items
  /\ LET l == Importing(g)
         v == IF l \in Name THEN LookupContract(resolver, l) ELSE ResolveFile(l)
         stack == jobs[g].stack
     IN  jobs' = [jobs EXCEPT ![g] = [jobs[g] EXCEPT
           !.pc = "run",
           !.files = {},
           !.fits = l \in Name => \E f \in jobs[g].files : v = ResolveAfresh(f, l),
           !.stack = IF v /\ PlaceOf(l) \in Parsed THEN Append(stack, Frame(l, 0))
                     ELSE Imported(stack, l, 0)]]
  /\ reply' = NoReply
  /\ UNCHANGED <<resolverVars, sync, docs, revision, cache, edges, pending, made,
                 main, sessionVars, requests>>

NewChecker(f, own) ==
  [id |-> made + 1, loc |-> f.loc, src |-> f.src, deps |-> f.deps, own |-> own]

(* Mutant: the sub-checker is cached under the location of the document.   *)
ImportCheckedAsRoot(g) ==
  /\ At(g, "run") /\ Top(g).todo = << >> /\ Len(jobs[g].stack) > 1
  /\ made' = made + 1
  /\ cache' = AfterPut(cache, jobs[g].root, NewChecker(Top(g), FALSE))
  /\ jobs' = [jobs EXCEPT ![g] = [jobs[g] EXCEPT
        !.pc = "edge", !.edge = Top(g).loc,
        !.stack = Imported(Front(jobs[g].stack), Top(g).loc, made + 1)]]
  /\ reply' = NoReply
  /\ UNCHANGED <<resolverVars, sync, docs, revision, edges, pending, main, sessionVars, requests>>

(* The sub-checker has checked all of its program: it is cached, whatever  *)
(* errors it found, and the edge is due.                                   *)
ImportChecked(g) ==
  /\ At(g, "run") /\ Top(g).todo = << >> /\ Len(jobs[g].stack) > 1
  /\ made' = made + 1
  /\ cache' = AfterPut(cache, Top(g).loc, NewChecker(Top(g), FALSE))
  /\ jobs' = [jobs EXCEPT ![g] = [jobs[g] EXCEPT
        !.pc = "edge", !.edge = Top(g).loc,
        !.stack = Imported(Front(jobs[g].stack), Top(g).loc, made + 1)]]
  /\ reply' = NoReply
  /\ UNCHANGED <<resolverVars, sync, docs, revision, edges, pending, main, sessionVars, requests>>

(* DepGraph.AddEdge: from the document under analysis, however deep the    *)
(* import was.                                                             *)
ImportEdge(g) ==
  /\ At(g, "edge")
  /\ edges' = edges \cup {<<jobs[g].root, jobs[g].edge>>}
  /\ jobs' = [jobs EXCEPT ![g] = [jobs[g] EXCEPT !.pc = "run", !.edge = None]]
  /\ reply' = NoReply
  /\ UNCHANGED <<resolverVars, sync, docs, revision, cache, pending, made, main, sessionVars, requests>>

(* The last look at the context, after the check.                          *)
Checked(g) ==
  /\ At(g, "run") /\ Top(g).todo = << >> /\ Len(jobs[g].stack) = 1
  /\ jobs' = [jobs EXCEPT ![g] = IF @.cancelled THEN NoJob
                                 ELSE [@ EXCEPT !.pc = "put"]]
  /\ reply' = NoReply
  /\ UNCHANGED <<resolverVars, sync, docs, revision, cache, edges, pending, made,
                 main, sessionVars, requests>>

(* The checker is cached and returned; main goes on with its request.      *)
AnalyzePut(g) ==
  /\ At(g, "put")
  /\ made' = made + 1
  /\ cache' = AfterPut(cache, jobs[g].root, NewChecker(Top(g), TRUE))
  /\ jobs' = [jobs EXCEPT ![g] = NoJob]
  /\ main' = IF g = "timer" THEN main
             ELSE IF main.kind = "check" THEN Idle
             ELSE [main EXCEPT !.pc = "reply", !.got = NewChecker(Top(g), TRUE)]
  /\ reply' = NoReply
  /\ UNCHANGED <<resolverVars, sync, docs, revision, edges, pending, sessionVars, requests>>

AnalyzeStep(g) ==
  \/ ImportCached(g) \/ ImportLoad(g) \/ ImportRead(g)
  \/ ImportChecked(g) \/ ImportEdge(g) \/ Checked(g) \/ AnalyzePut(g)

-----------------------------------------------------------------------------
(* Documents                                                               *)

(* Mutant: only the document and its importers are.                        *)
DependentsDirect(u) == {u} \cup {e[1] : e \in {e \in edges : e[2] = u}}

(* DepGraph.Invalidate(u): everything that reaches u over edges, the least *)
(* set with u that holds the importers of its members (DependencyGraph     *)
(* shows that the walk finds it); u itself is deleted too by the callers.  *)
Dependents(u) ==
  LET Closed(S) == \A e \in edges : e[2] \in S => e[1] \in S
  IN  {l \in Loc : \A S \in SUBSET Loc : u \in S /\ Closed(S) => l \in S}

(* The elements of a list whose keys are not in S.                         *)
Kept(list, S) ==
  LET kept[n \in 0 .. Len(list)] ==
        IF n = 0 THEN << >>
        ELSE IF list[n].key \in S THEN kept[n-1]
        ELSE Append(kept[n-1], list[n])
  IN  kept[Len(list)]

(* Delete of every key in S.                                               *)
Without(c, S) == [c EXCEPT !.items = @ \ S, !.order = Kept(@, S)]

Cancelled(u) ==
  [jobs EXCEPT !["timer"] = [jobs["timer"] EXCEPT
     !.cancelled = jobs["timer"].cancelled \/ jobs["timer"].root = u]]

(* The bounds of the model. *)
WithinBudget(e, r, w) ==
  \E b \in Budgets : e <= b.edits /\ r <= b.requests /\ w <= b.writes

(* didOpen and didChange: host.UpdateDocument, which drops the cached      *)
(* checkers of u and its dependents, and scheduleCheck, which cancels the  *)
(* check of u that is running and arms the timer, or checks at once.       *)
Edit(u) ==
  /\ MainIdle /\ WithinBudget(revision + 1, requests, writes)
  /\ revision' = revision + 1
  /\ docs' = [docs EXCEPT ![u] = revision + 1]
  /\ cache' = Without(cache, Dependents(u))
  /\ reply' = NoReply
  /\ IF sync
     THEN main' = [Idle EXCEPT !.pc = "check", !.kind = "check", !.uri = u]
     ELSE main' = main
  /\ pending' = IF sync THEN pending ELSE pending \cup {u}
  /\ jobs' = Cancelled(u)
  /\ UNCHANGED <<resolverVars, sync, edges, made, sessionVars, requests>>

(* Without a delay the check runs on main.                                 *)
EditChecks ==
  /\ main.pc = "check"
  /\ jobs' = [jobs EXCEPT !["main"] = Analysis(main.uri)]
  /\ main' = IF Analysis(main.uri) = NoJob THEN Idle ELSE [main EXCEPT !.pc = "wait"]
  /\ reply' = NoReply
  /\ UNCHANGED <<resolverVars, sync, docs, revision, cache, edges, pending, made, sessionVars, requests>>

(* The debounce timer of u fires, and runCheck analyses its document.      *)
TimerChecks(u) ==
  /\ u \in pending /\ At("timer", "idle")
  /\ pending' = pending \ {u}
  /\ jobs' = [jobs EXCEPT !["timer"] = Analysis(u)]
  /\ reply' = NoReply
  /\ UNCHANGED <<resolverVars, sync, docs, revision, cache, edges, made, main, sessionVars, requests>>

(* didClose: the check is cancelled, host.RemoveDocument drops what Edit   *)
(* drops and the edges that leave u.  The timer stays armed.               *)
Close(u) ==
  /\ MainIdle /\ WithinBudget(revision + 1, requests, writes) /\ docs[u] # 0
  /\ revision' = revision + 1
  /\ docs' = [docs EXCEPT ![u] = 0]
  /\ cache' = Without(cache, Dependents(u))
  /\ edges' = {e \in edges : e[1] # u}
  /\ jobs' = Cancelled(u)
  /\ reply' = NoReply
  /\ UNCHANGED <<resolverVars, sync, pending, made, main, sessionVars, requests>>

-----------------------------------------------------------------------------
(* Requests                                                                *)

(* checkerForDocument(u) for the handler m: the cached checker, none for a *)
(* document that is not open, or an analysis.                              *)
CheckerForDocument(u, m) ==
  /\ cache' = AfterGet(cache, u)
  /\ LET run == u \notin cache.items /\ docs[u] # 0 /\ Analysis(u) # NoJob
     IN  /\ jobs' = IF run THEN [jobs EXCEPT !["main"] = Analysis(u)] ELSE jobs
         /\ main' = [m EXCEPT !.uri = u,
                      !.pc = IF run THEN "wait" ELSE "reply",
                      !.got = IF u \in cache.items THEN EntryOf(cache, u) ELSE NoChecker]

(* A request about document u.  Which one it is, and for which position,   *)
(* is left open until the checker is there: no handler looks at that       *)
(* before.                                                                 *)
Ask(u) ==
  /\ MainIdle /\ WithinBudget(revision, requests + 1, writes)
  /\ requests' = requests + 1
  /\ reply' = NoReply
  /\ CheckerForDocument(u, [Idle EXCEPT !.kind = "request"])
  /\ UNCHANGED <<resolverVars, sync, docs, revision, edges, pending, made,
                 sessionVars>>

(* The symbols of a checker's program, and the checker an origin is of.    *)
Symbols(c) == IF c = NoChecker THEN {} ELSE {c.loc} \cup {d[1] : d \in c.deps}

OriginOf(c, s) ==
  IF s = c.loc THEN c.id ELSE (CHOOSE d \in c.deps : d[1] = s)[2]

(* Occurrences.Find at the position, and with the retry one column before. *)
Find(c, at) == IF ~at.after THEN Symbols(c) \cap {at.sym} ELSE {}
FindNear(c, at) == Symbols(c) \cap {at.sym}

(* What resolveDefinitionURI looks through: the dependencies of u, in the  *)
(* order of a map.                                                         *)
SearchOrders(u) == SetToSeqs({e[2] : e \in {e \in edges : e[1] = u}})

(* Mutant: any dependency that is cached is taken for the owner.           *)
HoldsOriginCached(l, c, s) == l \in cache.items

(* Is dependency l's cached checker the one that holds the origin of s?    *)
HoldsOrigin(l, c, s) ==
  /\ l \in cache.items
  /\ EntryOf(cache, l).id = OriginOf(c, s) /\ EntryOf(cache, l).loc = s

(* The dependencies it reads from the cache: up to the first that holds    *)
(* the origin.                                                             *)
Searched(path, c, s) ==
  LET hits == {i \in DOMAIN path : HoldsOrigin(path[i], c, s)}
  IN  IF hits = {} THEN path ELSE SubSeq(path, 1, Min(hits))

(* checkerLocationToURI: the text of an import, or the ID of an address    *)
(* location, just as the checker has it.                                   *)
CheckerLocationToURI(c) == c.loc

(* The result: that of the dependency it stopped at, or else u itself.     *)
DefinitionURI(u, c, s, read) ==
  IF read # << >> /\ HoldsOrigin(Last(read), c, s)
  THEN CheckerLocationToURI(EntryOf(cache, Last(read)))
  ELSE u

(* The cache after a Get of each member of path.                           *)
AfterGets(c, path) ==
  LET after[n \in 0 .. Len(path)] ==
        IF n = 0 THEN c ELSE AfterGet(after[n-1], path[n])
  IN  after[Len(path)]

(* The end of a handler: it answers, and main is free.                     *)
Answer(kind, value) ==
  /\ main.pc = "reply" /\ main.kind = "request"
  /\ reply' = [kind |-> kind, uri |-> main.uri, value |-> value]
  /\ main' = Idle
  /\ UNCHANGED <<resolverVars, sync, docs, revision, edges, pending, jobs, made,
                 sessionVars, requests>>

(* An answer that needs the URI of the definition of the symbols in S;     *)
(* there is at most one.  Reading the cache changes its order of use.      *)
AnswerWithOwner(kind, S, Value(_, _)) ==
  IF S = {}
  THEN Answer(kind, {}) /\ UNCHANGED cache
  ELSE \E s \in S, path \in SearchOrders(main.uri) :
         LET read == Searched(path, main.got, s)
         IN  /\ Answer(kind, Value(s, DefinitionURI(main.uri, main.got, s, read)))
             /\ cache' = AfterGets(cache, read)

(* Hover: the type of the symbol at or just before the position.           *)
Hover(at) == Answer("hover", FindNear(main.got, at)) /\ UNCHANGED cache

(* Definition: only of a symbol at the position.                           *)
Definition(at) ==
  LET Found(s, f) == {[uri |-> f, sym |-> s, origin |-> OriginOf(main.got, s)]}
  IN  AnswerWithOwner("definition", Find(main.got, at), Found)

(* References: all in the document of the request, and on demand its       *)
(* declaration.                                                            *)
References(at) ==
  /\ \E declaration \in BOOLEAN :
       Answer("references",
              {[sym |-> s, uri |-> main.uri, declaration |-> declaration] :
                 s \in FindNear(main.got, at)})
  /\ UNCHANGED cache

(* SignatureHelp: of the invocation around the position, if any; every     *)
(* separator before the position makes the next parameter the active one.  *)
SignatureHelp(at) ==
  /\ \E separators \in 0 .. 1 :
       Answer("signature", {[sym |-> s, active |-> separators] :
                              s \in FindNear(main.got, at)})
  /\ UNCHANGED cache

(* DocumentHighlight: the occurrences of the symbol.                       *)
DocumentHighlight(at) ==
  Answer("highlight", FindNear(main.got, at)) /\ UNCHANGED cache

(* Rename: an edit for the occurrences in this document, and one for the   *)
(* declaration when its URI is found to be another.                        *)
Rename(at) ==
  LET Edits(s, f) == {[uri |-> g, sym |-> s, origin |-> OriginOf(main.got, s)] :
                        g \in {main.uri, f}}
  IN  AnswerWithOwner("rename", FindNear(main.got, at), Edits)

(* maybeSplitLinesContainerElementsCodeAction, for the containers of c's   *)
(* program: edits of the program that was checked.                         *)
SplitLines(c) == {c.loc}

(* CodeAction: the document must be open.  The map of resolvers is never   *)
(* filled, so that only the refactorings of an explicit invocation remain. *)
CodeAction ==
  /\ \E invoked \in BOOLEAN :
       Answer("codeAction", IF invoked /\ main.got # NoChecker /\ docs[main.uri] # 0
                            THEN SplitLines(main.got) ELSE {})
  /\ UNCHANGED cache

(* Handlers that walk the declarations or elements of the checker's        *)
(* program, without a position, and answer with nothing if there is none.  *)
ProgramWalk == Answer("walk", {main.got.loc} \cap Loc) /\ UNCHANGED cache
DocumentSymbol == ProgramWalk
InlayHint == ProgramWalk
SelectionRange == ProgramWalk
FoldingRange == ProgramWalk
SemanticTokensFull == ProgramWalk

(* CodeLens, DocumentLink and ExecuteCommand: nothing, without a checker.  *)
Stub ==
  /\ MainIdle /\ WithinBudget(revision, requests + 1, writes)
  /\ requests' = requests + 1
  /\ reply' = [NoReply EXCEPT !.kind = "stub"]
  /\ UNCHANGED <<resolverVars, hostVars, main, sessionVars>>

(* WorkspaceSymbol: the declarations of every open document, one document  *)
(* after the other, in the order of a map.                                 *)
WorkspaceSymbol ==
  /\ \/ /\ MainIdle /\ WithinBudget(revision, requests + 1, writes)
        /\ requests' = requests + 1
        /\ \E u \in {u \in Doc : docs[u] # 0} :
             CheckerForDocument(u, [Idle EXCEPT !.kind = "workspace",
                                      !.todo = {w \in Doc : docs[w] # 0} \ {u}])
        /\ reply' = NoReply
     \/ /\ main.pc = "reply" /\ main.kind = "workspace"
        /\ LET acc == main.acc \cup ({main.got.loc} \cap Loc)
           IN  IF main.todo = {}
               THEN /\ main' = Idle
                    /\ reply' = [kind |-> "workspace", uri |-> None, value |-> acc]
                    /\ UNCHANGED <<cache, jobs>>
               ELSE /\ \E u \in main.todo :
                         CheckerForDocument(u, [main EXCEPT !.todo = @ \ {u},
                                                            !.acc = acc])
                    /\ reply' = NoReply
        /\ UNCHANGED requests
  /\ UNCHANGED <<resolverVars, sync, docs, revision, edges, pending, made,
                 sessionVars>>

-----------------------------------------------------------------------------
(* Completion sessions                                                     *)

(* Mutant: the session that was just stored is the one evicted.            *)
StoreDropsNewest(st) ==
  IF Len(order) < MaxSessions
  THEN order' = Append(order, st.id) /\ sessions' = sessions \cup {st}
  ELSE UNCHANGED <<order, sessions>>

(* storeCompletionSession of a session with something to resolve: beyond   *)
(* the bound (maxCompletionSessions, 128) the oldest session goes.         *)
StoreCompletionSession(st) ==
  LET all == Append(order, st.id)
  IN  IF Len(all) <= MaxSessions
      THEN order' = all /\ sessions' = sessions \cup {st}
      ELSE /\ order' = Tail(all)
           /\ sessions' = {x \in sessions \cup {st} : x.id # Head(all)}

(* What there is at a position: "member" is behind a dot whose members are *)
(* known, "dot" behind another one, "range" has declarations in range and  *)
(* "other" has none.                                                       *)
CompletionPlace == {"member", "dot", "range", "other"}
MemberCompletions(at) == {"member"} \cap {at}
RangeCompletions(at) == {"range"} \cap {at}
IsMemberAccessContext(at) == at \in {"member", "dot"}

(* Completion: nothing without a checker and an open document.  A new      *)
(* session id; the members at the position, if there are some; nothing     *)
(* more behind a dot; otherwise the declarations in range and the          *)
(* keywords.  Only items of a session can be resolved later.  The number   *)
(* of the request stands for the session id, of which only uniqueness      *)
(* matters.                                                                *)
Completion ==
  /\ main.pc = "reply" /\ main.kind = "request"
  /\ main' = Idle
  /\ IF main.got = NoChecker \/ docs[main.uri] = 0
     THEN reply' = [NoReply EXCEPT !.kind = "completion"] /\ UNCHANGED sessionVars
     ELSE \E at \in CompletionPlace :
       LET st == [id |-> requests, kind |-> at]
           found == MemberCompletions(at) \cup RangeCompletions(at)
       IN  /\ reply' = [kind |-> "completion", uri |-> main.uri,
                        value |-> IF IsMemberAccessContext(at) THEN found
                                  ELSE found \cup {"keyword"}]
           /\ IF found # {}
              THEN StoreCompletionSession(st) /\ offered' = Append(offered, st)
              ELSE UNCHANGED <<sessions, order, offered>>
  /\ UNCHANGED <<resolverVars, hostVars, requests>>

(* ResolveCompletionItem of an item the client was offered: the session's  *)
(* member or range documents it, or it comes back as it was.               *)
ResolveCompletionItem ==
  /\ MainIdle /\ WithinBudget(revision, requests + 1, writes)
  /\ requests' = requests + 1
  /\ \E i \in DOMAIN offered :
       reply' = [kind |-> "resolve", uri |-> None,
                 value |-> {[item |-> i, by |-> x] :
                              x \in {x \in sessions : x.id = offered[i].id}}]
  /\ UNCHANGED <<resolverVars, hostVars, main, sessionVars>>

-----------------------------------------------------------------------------
Positions == [sym : Loc, after : BOOLEAN]

ClientMessage ==
  \/ \E u \in Doc : Edit(u) \/ Close(u) \/ Ask(u)
  \/ Stub \/ ResolveCompletionItem

Handler ==
  \/ \E at \in Positions : Hover(at) \/ Definition(at) \/ References(at)
                           \/ SignatureHelp(at) \/ DocumentHighlight(at) \/ Rename(at)
  \/ DocumentSymbol \/ InlayHint \/ SelectionRange \/ FoldingRange \/ SemanticTokensFull
  \/ CodeAction \/ WorkspaceSymbol \/ Completion \/ EditChecks

(* flow.json changes while resolvers are at work; each job that is between  *)
(* its two looks notes the flow.json it could have seen.                   *)
UserWrites ==
  /\ WithinBudget(revision, requests, writes + 1)
  /\ WriteFlowJson
  /\ jobs' = [g \in Goroutine |->
               IF jobs[g].pc = "read" THEN [jobs[g] EXCEPT !.files = @ \cup {flowJson'}]
                                      ELSE jobs[g]]
  /\ reply' = NoReply
  /\ UNCHANGED <<sync, docs, revision, cache, edges, pending, made, main, sessionVars, requests>>

ReqNext ==
  \/ ClientMessage
  \/ Handler
  \/ \E u \in Doc : TimerChecks(u)
  \/ \E g \in Goroutine : AnalyzeStep(g)
  \/ UserWrites

ReqSpec == ReqInit /\ [][ReqNext]_reqVars

-----------------------------------------------------------------------------
Checker == [id : Nat, loc : Loc \cup {None}, src : Nat, deps : SUBSET (Loc \X Nat),
            own : BOOLEAN]

(* Type invariant: what is cached is a checker of its key's location, an   *)
(* edge leaves a document, and an analysis begins with its document.       *)
ReqTypeOK ==
  /\ resolver.paths \in [Name -> {"none", "manual", "installed"}]
  /\ flowJson \in FlowJsonFile
  /\ docs \in [Doc -> Nat]
  /\ cache.items = ListKeys(cache.order)
  /\ \A i \in DOMAIN cache.order :
       cache.order[i].entry \in Checker /\ cache.order[i].entry.loc = cache.order[i].key
  /\ edges \subseteq Doc \X Loc
  /\ pending \subseteq Doc
  /\ \A g \in Goroutine : jobs[g].pc # "idle" => jobs[g].stack[1].loc = jobs[g].root
  /\ main.pc \in {"idle", "check", "wait", "reply"}
  /\ sessions \subseteq [id : Nat, kind : {"member", "range"}]

(***************************************************************************)
(* The completion sessions at their bound: the client can resolve the      *)
(* items of each of the last MaxSessions completions that offered any, to  *)
(* what that completion offered, and older sessions do not pile up.        *)
(***************************************************************************)
RecentSessionsResolve ==
  /\ Cardinality(sessions) <= MaxSessions
  /\ \A i \in DOMAIN offered :
       i > Len(offered) - MaxSessions => offered[i] \in sessions

(***************************************************************************)
(* FlowJSONResolver follows the file: what ResolveImport finds, or fails   *)
(* to find, is what the flow.json of some moment during the call says,     *)
(* whatever was broken, repaired or removed before, and whichever          *)
(* goroutine reloads it between the two critical sections.                 *)
(***************************************************************************)
ResolvesFromFile == \A g \in Goroutine : jobs[g].fits

(* Is c what Analyze made of the current text of document u?               *)
CurrentCheck(c, u) == c.own /\ docs[u] # 0 /\ c.src = docs[u]

Direct(c, l) == l \in {d[1] : d \in c.deps}

(***************************************************************************)
(* Invalidation by key: an edit (or a close) of u leaves no cached checker *)
(* of an open document's current text that imported u by its URI, and so   *)
(* used what Analyze made of u's text, nor one that imported so a document *)
(* whose checker went because of this edit.  Every import has left its     *)
(* edge before the checker was cached, whether it was a hit or a miss, and *)
(* whatever was evicted, closed or checked on the other goroutine.         *)
(***************************************************************************)
EditInvalidatesUsers ==
  [][\A u \in Doc :
       docs'[u] # docs[u] =>
         \A w \in Doc \cap cache'.items, l \in {u} \cup (cache.items \ cache'.items) :
           LET k == EntryOf(cache', w) IN CurrentCheck(k, w) => ~Direct(k, l)]_reqVars

(***************************************************************************)
(* What the comment on UpdateDocument says, "invalidates cache entries for *)
(* this file and all its transitive dependents" (snapshot.go:29-30): an    *)
(* edit of an open document leaves no checker of a current text that       *)
(* imported this file, whatever the import calls it.                       *)
(***************************************************************************)
EditInvalidatesImporters ==
  [][\A u \in Doc :
       docs[u] # 0 /\ docs'[u] \notin {0, docs[u]} =>
         \A w \in Doc \cap cache'.items, l \in Loc :
           LET k == EntryOf(cache', w)
           IN  CurrentCheck(k, w) /\ FileOf[l] = u => ~Direct(k, l)]_reqVars

(***************************************************************************)
(* Definition and Rename find the checker that declares the symbol, by     *)
(* pointer, whenever the one the current text was built against is still   *)
(* cached, and then answer with the location of this checker, that is with *)
(* the text of the import; otherwise with the URI of the request's         *)
(* document, and never with another import.                                *)
(***************************************************************************)
OwnerLocated ==
  [][reply'.kind \in {"definition", "rename"} /\ CurrentCheck(main.got, main.uri) =>
       \A r \in reply'.value :
         /\ r.uri \in {main.uri, r.sym}
         /\ r.sym \in cache.items /\ EntryOf(cache, r.sym).id = r.origin =>
              \E y \in reply'.value : y.uri = r.sym]_reqVars

=============================================================================
