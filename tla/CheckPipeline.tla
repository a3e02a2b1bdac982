---------------------------- MODULE CheckPipeline ----------------------------
(***************************************************************************)
(* How the v2 language server checks documents: the notification handlers  *)
(* and runCheck of languageserver/server2/server.go, Analyze of            *)
(* analysis.go, the document store and the cache of the AnalysisHost       *)
(* (snapshot.go), checkerForDocument of handlers.go, and the debouncer.    *)
(*                                                                         *)
(* One goroutine, main, reads the client's messages and runs each handler  *)
(* to its end.  A check runs on the goroutine of its debounce timer, or    *)
(* inline on main when DebounceDelay is 0.  A step here is what a          *)
(* goroutine does under one mutex, or between two looks at shared state.   *)
(* UpdateDocument and RemoveDocument are one step each: they hold the      *)
(* host's lock, which Snapshot needs, and a cache.Put that slips in        *)
(* between their lines has the same effect as one just before them.        *)
(*                                                                         *)
(* A document's text is named by the host revision that stored it.  Import *)
(* resolution inside a check is not part of this module.                   *)
(***************************************************************************)
EXTENDS Debouncer, LRUOps

CONSTANTS
  MaxRevision,     \* bound on document notifications
  MaxQueries,      \* bound on requests that need a checker
  Broken,          \* the texts for which the parser returns no program
  CacheCapacity,   \* config.CacheCapacity
  SyncModes        \* the values of config.DebounceDelay = 0 to consider

ASSUME PipelineAssumption ==
  /\ MaxRevision \in Nat
  /\ MaxRevision <= MaxTimers   \* no Trigger ever waits for the bound
  /\ MaxQueries \in Nat
  /\ Broken \subseteq Nat
  /\ CacheCapacity \in Int
  /\ SyncModes \subseteq BOOLEAN

VARIABLES
  sync,       \* is config.DebounceDelay 0?
  revision,   \* host.revision
  docs,       \* host.docs: an open document's text, or NoText
  cache,      \* host.cache, as in LRUOps; an entry is the text it checked
  main,       \* what main is doing: [pc, uri, val]
  checks,     \* every runCheck so far, in the order they registered
  cancels,    \* s.cancels: the check registered for a document, or None
  shown,      \* the diagnostics the client shows for a document
  checked,    \* history: the latest text of a document that was published
  queries,    \* requests so far
  exited      \* has the client asked for shutdown?

pipelineVars ==
  <<sync, revision, docs, cache, main, checks, cancels, shown, checked,
    queries, exited>>
vars == <<debounceVars, pipelineVars>>

NoText == 0

Text == 1 .. MaxRevision

(* Diagnostics: those of a text, none, or "document not found".            *)
DiagnosticsOf(t) == [kind |-> "text", text |-> t]
NoDiagnostics == [kind |-> "none", text |-> NoText]
DocumentNotFound == [kind |-> "notFound", text |-> NoText]

Idle == [pc |-> "idle", uri |-> None, val |-> NoText]

(* s.host = NewAnalysisHost(capacity), with 128 for a capacity below 1.    *)
PipelineInit ==
  /\ DebounceInit
  /\ sync \in SyncModes
  /\ revision = 0
  /\ docs = [u \in Key |-> NoText]
  /\ cache = NewCache(IF CacheCapacity <= 0 THEN 128 ELSE CacheCapacity)
  /\ main = Idle
  /\ checks = << >>
  /\ cancels = [u \in Key |-> None]
  /\ shown = [u \in Key |-> NoDiagnostics]
  /\ checked = [u \in Key |-> NoText]
  /\ queries = 0
  /\ exited = FALSE

(* Main moves on to its next step, pc, for document u.                     *)
Goto(pc, u) == main' = [pc |-> pc, uri |-> u, val |-> NoText]

MainAt(pc) == main.pc = pc

-----------------------------------------------------------------------------
(* didOpen and didChange                                                   *)

(* DocumentStore.Set and Delete.                                           *)
SetDocument(u, text) == docs' = [docs EXCEPT ![u] = text]
DeleteDocument(u) == docs' = [docs EXCEPT ![u] = NoText]

(* host.UpdateDocument: a new revision, the text, and no cached checker.   *)
UpdateDocument(u) ==
  /\ revision < MaxRevision
  /\ revision' = revision + 1
  /\ SetDocument(u, revision + 1)
  /\ cache' = AfterDelete(cache, u)

(* Mutant: the cached checker survives the edit.                           *)
EditKeepsChecker(u) ==
  /\ MainAt("idle")
  /\ ~exited
  /\ revision < MaxRevision
  /\ revision' = revision + 1
  /\ docs' = [docs EXCEPT ![u] = revision + 1]
  /\ Goto("cancel", u)
  /\ UNCHANGED <<debounceVars, sync, cache, checks, cancels, shown, checked,
                 queries, exited>>

(* DidOpenTextDocument of a closed document, DidChangeTextDocument of an   *)
(* open one: the two handlers have the same body.                          *)
Edit(u) ==
  /\ MainAt("idle")
  /\ ~exited
  /\ UpdateDocument(u)
  /\ Goto("cancel", u)
  /\ UNCHANGED <<debounceVars, sync, checks, cancels, shown, checked, queries,
                 exited>>

(* cancel() of the check registered for u, if there is one.                *)
CancelRegistered(u) ==
  checks' = IF cancels[u] # None
            THEN [checks EXCEPT ![cancels[u]].cancelled = TRUE]
            ELSE checks

(* Mutant: the check in flight is left alone.                              *)
ScheduleCancelsNothing ==
  /\ MainAt("cancel")
  /\ Goto("schedule", main.uri)
  /\ UNCHANGED <<debounceVars, sync, revision, docs, cache, checks, cancels,
                 shown, checked, queries, exited>>

(* scheduleCheck, under cancelsMu: the entry stays in the map.             *)
ScheduleCancel ==
  /\ MainAt("cancel")
  /\ CancelRegistered(main.uri)
  /\ Goto("schedule", main.uri)
  /\ UNCHANGED <<debounceVars, sync, revision, docs, cache, cancels, shown,
                 checked, queries, exited>>

(* scheduleCheck, with a delay: hand the check to the debouncer.           *)
ScheduleTrigger ==
  /\ MainAt("schedule")
  /\ ~sync
  /\ Trigger(main.uri)
  /\ main' = Idle
  /\ UNCHANGED <<sync, revision, docs, cache, checks, cancels, shown, checked,
                 queries, exited>>

-----------------------------------------------------------------------------
(* runCheck and Analyze                                                    *)

(* Mutant: a check that finds another one registered gives up.             *)
RegisterUnlessBusy(u) ==
  /\ cancels' = [cancels EXCEPT ![u] = IF @ = None THEN Len(checks) + 1 ELSE @]
  /\ checks' = Append(checks, [uri |-> u, snap |-> NoText, cancelled |-> FALSE,
                               pc |-> IF cancels[u] = None THEN "snapshot"
                                                           ELSE "done"])

(* The start of runCheck: its entry replaces whatever entry there is.      *)
Register(u) ==
  /\ cancels' = [cancels EXCEPT ![u] = Len(checks) + 1]
  /\ checks' = Append(checks, [uri |-> u, snap |-> NoText, cancelled |-> FALSE,
                               pc |-> "snapshot"])

(* scheduleCheck, without a delay: main runs the check itself.             *)
ScheduleInline ==
  /\ MainAt("schedule")
  /\ sync
  /\ Register(main.uri)
  /\ Goto("inline", main.uri)
  /\ UNCHANGED <<debounceVars, sync, revision, docs, cache, shown, checked,
                 queries, exited>>

(* The callback of timer i calls fn, which is runCheck of its document.    *)
TimerRunsCheck(i) ==
  /\ CallFn(i)
  /\ Register(pool[i].key)
  /\ UNCHANGED <<sync, revision, docs, cache, main, shown, checked, queries,
                 exited>>

CheckAt(t, pc) == t \in DOMAIN checks /\ checks[t].pc = pc

CheckGoto(t, pc) == checks' = [checks EXCEPT ![t].pc = pc]

(* snap := s.host.Snapshot(): a copy of the documents.                     *)
TakeSnapshot(t) ==
  /\ CheckAt(t, "snapshot")
  /\ checks' = [checks EXCEPT ![t].pc = "start",
                              ![t].snap = docs[checks[t].uri]]
  /\ UNCHANGED <<debounceVars, sync, revision, docs, cache, main, cancels,
                 shown, checked, queries, exited>>

(* Analyze up to its parse: the first look at the context, the document in *)
(* the snapshot, and the early return without a program.                   *)
AnalyzeStart(t) ==
  /\ CheckAt(t, "start")
  /\ CheckGoto(t, IF checks[t].cancelled THEN "finish"
                  ELSE IF checks[t].snap \in {NoText} \cup Broken THEN "publish"
                  ELSE "parsed")
  /\ UNCHANGED <<debounceVars, sync, revision, docs, cache, main, cancels,
                 shown, checked, queries, exited>>

(* The look at the context after the parse, then the type check.           *)
AnalyzeParsed(t) ==
  /\ CheckAt(t, "parsed")
  /\ CheckGoto(t, IF checks[t].cancelled THEN "finish" ELSE "checked")
  /\ UNCHANGED <<debounceVars, sync, revision, docs, cache, main, cancels,
                 shown, checked, queries, exited>>

(* The look at the context after the type check.                           *)
AnalyzeChecked(t) ==
  /\ CheckAt(t, "checked")
  /\ CheckGoto(t, IF checks[t].cancelled THEN "finish" ELSE "put")
  /\ UNCHANGED <<debounceVars, sync, revision, docs, cache, main, cancels,
                 shown, checked, queries, exited>>

(* snap.Cache.Put of the checker: the context is not looked at any more.   *)
AnalyzePut(t) ==
  /\ CheckAt(t, "put")
  /\ cache' = AfterPut(cache, checks[t].uri, checks[t].snap)
  /\ CheckGoto(t, "publish")
  /\ UNCHANGED <<debounceVars, sync, revision, docs, main, cancels, shown,
                 checked, queries, exited>>

(* publishDiagnostics of the result.                                       *)
Publish(t) ==
  /\ CheckAt(t, "publish")
  /\ LET c == checks[t]
     IN  /\ shown' = [shown EXCEPT ![c.uri] = IF c.snap = NoText
                                              THEN DocumentNotFound
                                              ELSE DiagnosticsOf(c.snap)]
         /\ checked' = [checked EXCEPT ![c.uri] = IF c.snap > @ THEN c.snap ELSE @]
  /\ CheckGoto(t, "finish")
  /\ UNCHANGED <<debounceVars, sync, revision, docs, cache, main, cancels,
                 queries, exited>>

(* Mutant: the deferred function leaves the entry behind.                  *)
FinishKeepsEntry(t) ==
  /\ CheckAt(t, "finish")
  /\ checks' = [checks EXCEPT ![t].pc = "done", ![t].cancelled = TRUE,
                              ![t].snap = NoText]
  /\ main' = IF MainAt("inline") THEN Idle ELSE main
  /\ UNCHANGED <<debounceVars, sync, revision, docs, cache, cancels, shown,
                 checked, queries, exited>>

(* The deferred function: cancel(), and delete the entry if it still holds *)
(* this check's token.  The snapshot goes out of scope.                    *)
Finish(t) ==
  /\ CheckAt(t, "finish")
  /\ checks' = [checks EXCEPT ![t].pc = "done", ![t].cancelled = TRUE,
                              ![t].snap = NoText]
  /\ cancels' = [cancels EXCEPT ![checks[t].uri] = IF @ = t THEN None ELSE @]
  /\ main' = IF MainAt("inline") THEN Idle ELSE main
  /\ UNCHANGED <<debounceVars, sync, revision, docs, cache, shown, checked,
                 queries, exited>>

-----------------------------------------------------------------------------
(* didClose                                                                *)

(* Cancel the registered check, and delete its entry.                      *)
CloseCancel(u) ==
  /\ MainAt("idle")
  /\ ~exited
  /\ revision < MaxRevision
  /\ docs[u] # NoText
  /\ CancelRegistered(u)
  /\ cancels' = [cancels EXCEPT ![u] = None]
  /\ Goto("remove", u)
  /\ UNCHANGED <<debounceVars, sync, revision, docs, cache, shown, checked,
                 queries, exited>>

(* host.RemoveDocument, and the deletion of the code action resolvers.     *)
CloseRemove ==
  /\ MainAt("remove")
  /\ revision' = revision + 1
  /\ DeleteDocument(main.uri)
  /\ cache' = AfterDelete(cache, main.uri)
  /\ Goto("clear", main.uri)
  /\ UNCHANGED <<debounceVars, sync, checks, cancels, shown, checked, queries,
                 exited>>

(* publishDiagnostics(uri, nil).                                           *)
CloseClear ==
  /\ MainAt("clear")
  /\ shown' = [shown EXCEPT ![main.uri] = NoDiagnostics]
  /\ main' = Idle
  /\ UNCHANGED <<debounceVars, sync, revision, docs, cache, checks, cancels,
                 checked, queries, exited>>

-----------------------------------------------------------------------------
(* Requests that need a checker, and shutdown                              *)

(* checkerForDocument: a cached checker is the answer.                     *)
QueryCache(u) ==
  /\ MainAt("idle")
  /\ ~exited
  /\ queries < MaxQueries
  /\ queries' = queries + 1
  /\ docs[u] # NoText
  /\ cache' = AfterGet(cache, u)
  /\ IF u \in cache.items
     THEN main' = [pc |-> "reply", uri |-> u, val |-> EntryOf(cache, u)]
     ELSE Goto("analyze", u)
  /\ UNCHANGED <<debounceVars, sync, revision, docs, checks, cancels, shown,
                 checked, exited>>

(* checkerForDocument, without a cached checker: Analyze on main, with a   *)
(* context nobody cancels; only its cache.Put is visible to others.        *)
QueryAnalyze ==
  /\ MainAt("analyze")
  /\ LET t == docs[main.uri]
     IN  /\ main' = [main EXCEPT !.pc = "reply",
                                 !.val = IF t \in Broken THEN NoText ELSE t]
         /\ cache' = IF t \in Broken THEN cache ELSE AfterPut(cache, main.uri, t)
  /\ UNCHANGED <<debounceVars, sync, revision, docs, checks, cancels, shown,
                 checked, queries, exited>>

(* The handler answers from that checker.                                  *)
QueryReply ==
  /\ MainAt("reply")
  /\ main' = Idle
  /\ UNCHANGED <<debounceVars, sync, revision, docs, cache, checks, cancels,
                 shown, checked, queries, exited>>

(* Shutdown stops the debouncer, if there is one; a client then only exits.*)
Shutdown ==
  /\ MainAt("idle")
  /\ ~exited
  /\ exited' = TRUE
  /\ IF sync THEN UNCHANGED debounceVars ELSE Stop
  /\ UNCHANGED <<sync, revision, docs, cache, main, checks, cancels, shown,
                 checked, queries>>

-----------------------------------------------------------------------------
(* What the Go runtime does with a timer before its callback calls fn.     *)
TimerExpires(i) == Expire(i) /\ UNCHANGED pipelineVars
TimerUnmaps(i) == Unmap(i) /\ UNCHANGED pipelineVars

(* The rest of the handler main is in; an inline check is one of checks.   *)
MainStep ==
  \/ ScheduleCancel \/ ScheduleTrigger \/ ScheduleInline
  \/ CloseRemove \/ CloseClear
  \/ QueryAnalyze \/ QueryReply

CheckStep(t) ==
  \/ TakeSnapshot(t) \/ AnalyzeStart(t) \/ AnalyzeParsed(t)
  \/ AnalyzeChecked(t) \/ AnalyzePut(t) \/ Publish(t) \/ Finish(t)

ClientMessage ==
  \/ \E u \in Key : Edit(u)
  \/ \E u \in Key : CloseCancel(u)
  \/ \E u \in Key : QueryCache(u)
  \/ Shutdown

RuntimeStep(i) == TimerExpires(i) \/ TimerUnmaps(i) \/ TimerRunsCheck(i)

PipelineNext ==
  \/ ClientMessage
  \/ MainStep
  \/ \E i \in DOMAIN pool : RuntimeStep(i)
  \/ \E t \in DOMAIN checks : CheckStep(t)

PipelineSpec == PipelineInit /\ [][PipelineNext]_vars

(* Go schedules every goroutine and expires every timer.  The client need  *)
(* not send anything.                                                      *)
PipelineFairSpec ==
  /\ PipelineSpec
  /\ WF_vars(MainStep)
  /\ \A i \in 1 .. MaxTimers : WF_vars(RuntimeStep(i))
  /\ \A t \in 1 .. MaxRevision : WF_vars(CheckStep(t))

-----------------------------------------------------------------------------
CheckPC == {"snapshot", "start", "parsed", "checked", "put", "publish",
            "finish", "done"}

MainPC == {"idle", "cancel", "schedule", "inline", "remove", "clear",
           "analyze", "reply"}

CheckRecord == [uri : Key, pc : CheckPC, snap : Text \cup {NoText},
                cancelled : BOOLEAN]

(* Type invariant of the server's state: every entry of cancels is a check *)
(* that ran, every cached checker one of a text the client sent.           *)
PipelineTypeOK ==
  /\ DebounceTypeOK
  /\ sync \in SyncModes
  /\ revision \in 0 .. MaxRevision
  /\ docs \in [Key -> Text \cup {NoText}]
  /\ cache.items = ListKeys(cache.order)
  /\ cache.order \in Seq([key : Key, entry : Text])
  /\ main \in [pc : MainPC, uri : Key \cup {None}, val : Text \cup {NoText}]
  /\ checks \in Seq(CheckRecord)
  /\ cancels \in [Key -> 0 .. Len(checks)]
  /\ shown \in [Key -> {DiagnosticsOf(t) : t \in Text}
                         \cup {NoDiagnostics, DocumentNotFound}]
  /\ checked \in [Key -> Text \cup {NoText}]
  /\ queries \in 0 .. MaxQueries
  /\ exited \in BOOLEAN

(* Nothing is left to run: no handler, no timer, no check.                 *)
Quiet ==
  /\ MainAt("idle")
  /\ \A i \in DOMAIN pool : pool[i].state \in {"stopped", "ran"}
  /\ \A t \in DOMAIN checks : checks[t].pc = "done"

(***************************************************************************)
(* s.cancels does not leak: an entry belongs to a check of that document   *)
(* which has not returned yet, however many checks of the document overlap *)
(* and in whatever order they end.                                         *)
(***************************************************************************)
OwnerAlive ==
  \A u \in Key : cancels[u] # None =>
    checks[cancels[u]].uri = u /\ checks[cancels[u]].pc # "done"

(***************************************************************************)
(* The check registered for an open document works on its current text, or *)
(* has been told to stop; only between UpdateDocument and the cancellation *)
(* of scheduleCheck may it still be unaware of an edit.  It is what lets   *)
(* scheduleCheck reach the stale check through the entry.                  *)
(***************************************************************************)
OwnerCurrent ==
  \A u \in Key :
    /\ cancels[u] # None
    /\ docs[u] # NoText
    /\ ~(MainAt("cancel") /\ main.uri = u)
    => LET c == checks[cancels[u]]
       IN  c.cancelled \/ c.pc = "snapshot" \/ c.snap = docs[u]

(***************************************************************************)
(* No edit is lost between the debouncer, the cancellations and the        *)
(* overlapping checks: once nothing is left to run, the diagnostics of the *)
(* text of every open document have been published.                        *)
(***************************************************************************)
EditsChecked ==
  Quiet /\ ~exited =>
    \A u \in Key : docs[u] # NoText => checked[u] = docs[u]

(***************************************************************************)
(* Without a debounce delay the client never sees stale diagnostics and    *)
(* the cache never holds a stale checker, between two messages.            *)
(***************************************************************************)
SyncShowsCurrent ==
  sync /\ MainAt("idle") =>
    \A u \in Key :
      /\ shown[u] = IF docs[u] = NoText THEN NoDiagnostics
                                        ELSE DiagnosticsOf(docs[u])
      /\ u \in cache.items => EntryOf(cache, u) = docs[u]

(***************************************************************************)
(* Every text the client sends is checked and its diagnostics published,   *)
(* unless it is replaced or closed, or the client shuts the server down.   *)
(***************************************************************************)
EveryEditChecked ==
  \A u \in Key, t \in Text :
    docs[u] = t ~> (checked[u] = t \/ docs[u] # t \/ exited)

(***************************************************************************)
(* What DidCloseTextDocument says it does: "Publish empty diagnostics to   *)
(* clear any displayed diagnostics."  Once nothing is left to run, a       *)
(* closed document shows none.                                             *)
(***************************************************************************)
ClosedDocumentsClear ==
  Quiet => \A u \in Key : docs[u] = NoText => shown[u] = NoDiagnostics

(***************************************************************************)
(* What TestCompletionUsesLatestDocumentStateBeforeDebounce asks for: a    *)
(* request is answered from the latest text of its document, if that has a *)
(* program, and not from an earlier one.                                   *)
(***************************************************************************)
QueryUsesLatest ==
  MainAt("reply") =>
    main.val = IF docs[main.uri] \in Broken THEN NoText ELSE docs[main.uri]
=============================================================================
