---------------------------- MODULE ConfigManager ----------------------------
(***************************************************************************)
(* The configuration manager of the Flow integration                       *)
(* (languageserver/integration/config_manager.go, state.go) with its two   *)
(* kinds of watch loops, and what the integration does with it: the        *)
(* initialization, the prompt for a missing flow.json, the resolvers with  *)
(* their caches, and the clients of the commands.                          *)
(*                                                                         *)
(* A configuration is a directory, for the flow.json in it, or Custom, a   *)
(* file of another name that the initialization options may give.  What a  *)
(* file says is its version.  A flowkitState is an object of the heap: the *)
(* path it was loaded from and the version it holds.  A client is known by *)
(* the state it was made with; its accounts are in FlowClient.             *)
(*                                                                         *)
(* A write of a watched file arms the debounce timers of its watch loops.  *)
(* The lock is held over one step, except while loadState reads the file   *)
(* (pc "watch").                                                           *)
(***************************************************************************)
EXTENDS Integers, Sequences, FiniteSets

CONSTANTS
  Dir,            \* directories
  Custom,         \* a configuration that is not named flow.json
  CustomDir,      \* and its directory
  Doc,            \* documents
  Up,             \* [Doc -> Seq(Dir)]: the directories above, nearest first
  Root,           \* [Doc -> Dir]: workspace folder, or directory
  Files,          \* the files a session may begin with: [Config -> state]
  Edits,          \* what the user does to files: pairs <<configuration, state>>
  Options,        \* the initialization options: pairs <<configuration or None,
                  \* is the number of accounts valid?>>
  MaxWrites, MaxRequests,
  None

Config == Dir \cup {Custom}
Path == Doc \cup Dir

ASSUME ConfigAssumption ==
  /\ Custom \notin Dir /\ CustomDir \in Dir /\ None \notin Config \cup Doc
  /\ {"main", "prompt"} \cap Dir = {}
  /\ Root \in [Doc -> Dir] /\ \A d \in Doc : Up[d] \in Seq(Dir) /\ Up[d] # << >>
  /\ {MaxWrites, MaxRequests} \subseteq Nat
  /\ Options \subseteq (Config \cup {None}) \X BOOLEAN
  /\ Edits \subseteq Config \X {"none", "broken", "good"}
  /\ Files \subseteq [Config -> {"none", "broken", "good"}]

DirOf(c) == IF c = Custom THEN CustomDir ELSE c

(* Where the flow.json of p may be: for a directory, in it                 *)
(* (ConfigPathForProject); for a document, in those above it.              *)
Above(p) == IF p \in Dir THEN <<p>> ELSE Up[p]

VARIABLES
  disk,        \* [Config -> [state, ver]]: the files
  writes,      \* versions written so far
  heap,        \* the flowkitStates: [path, ver]
  states,      \* m.states, 0 for none
  clients,     \* m.clients, by their states, 0 for none
  watchers,    \* m.watchers: the loop a configuration is watched by, or 0
  loops,       \* the goroutines of watchLoop
  threads,     \* main, the prompt and the goroutines of watchDirLoop
  index,       \* m.docToConfig
  errors,      \* the configurations in m.loadErrors
  initConfig,  \* m.initConfigPath
  lastUsed,    \* m.lastUsedConfigPath
  accounts,    \* is m.numberOfAccounts one that a client can be made with?
  caches,      \* the resolvers' nameToAddressCache and fileToContractCache
  promptShown, \* i.promptShown
  asked,       \* i.promptedRoots, as a bag in the order of the prompts
  requests,    \* requests so far
  hist         \* history: writes nobody watched, late records and clients

fileVars == <<disk, writes>>
mapVars == <<heap, states, clients, watchers, loops, errors>>
promptVars == <<promptShown, asked>>
optionVars == <<initConfig, accounts>>
cfgVars == <<fileVars, mapVars, threads, index, lastUsed, optionVars, caches,
             promptVars, requests, hist>>

Thread == {"main", "prompt"} \cup Dir
IdleThread == [pc |-> "idle", kind |-> "none", path |-> None, cfg |-> None, st |-> 0,
               cl |-> 0, armed |-> FALSE, on |-> FALSE, ver |-> 0, late |-> FALSE,
               todo |-> {}]
NewLoop(c) == [cfg |-> c, armed |-> FALSE, moving |-> FALSE, pc |-> "idle", st |-> 0,
               cl |-> 0, ok |-> TRUE]
NoCache == [st |-> 0, ver |-> 0, raced |-> FALSE]

(* NewFlowIntegration and NewConfigManager.                                *)
CfgInit ==
  /\ \E f \in Files : disk = [c \in Config |-> [state |-> f[c], ver |-> 0]]
  /\ writes = 0
  /\ heap = << >>
  /\ states = [c \in Config |-> 0]
  /\ clients = [c \in Config |-> 0]
  /\ watchers = [c \in Config |-> 0]
  /\ loops = << >>
  /\ threads = [x \in Thread |-> IF x = "main" THEN [IdleThread EXCEPT !.pc = "start"]
                                               ELSE IdleThread]
  /\ index = [p \in Path |-> None]
  /\ errors = {}
  /\ initConfig = None
  /\ lastUsed = None
  /\ accounts = FALSE
  /\ caches = [c \in Config |-> NoCache]
  /\ promptShown = FALSE
  /\ asked = << >>
  /\ requests = 0
  /\ hist = [unseen |-> {}, late |-> {}, orphans |-> {}]

-----------------------------------------------------------------------------
(* Helpers                                                                 *)

(* Mutant: nobody waits for the lock.                                      *)
UnlockedAlways == TRUE

Unlocked == \A x \in Thread : threads[x].pc # "watch"

At(x, pc) == threads[x].pc = pc

(* findNearestFlowJSON: the closest directory above p with a flow.json.    *)
(* For a directory, which stands for the path of its flow.json, only that  *)
(* file is asked for: the walk on to its parents, when the file vanished   *)
(* since the path was found, is left out.                                  *)
FindNearest(p) ==
  LET found == {i \in DOMAIN Above(p) : disk[Above(p)[i]].state # "none"}
  IN  IF found = {} THEN None
      ELSE Above(p)[CHOOSE i \in found : \A j \in found : i <= j]

(* ProjectIDForURI and ConfigPathForProject, which cuts the modification   *)
(* time off again: the configuration of the options, or the nearest one;   *)
(* a directory without flow.json is a project that cannot be loaded.  It   *)
(* has the key of its flow.json here, its own path in the code: the two    *)
(* would differ for a flow.json that appears before the next lookup.       *)
ProjectOf(p) ==
  IF initConfig # None THEN initConfig
  ELSE IF FindNearest(p) # None THEN FindNearest(p) ELSE Above(p)[1]

(* flowkitState.Reload, and the Load of a client's Reload: a failure       *)
(* leaves the state as it was.                                             *)
Readable(id) == disk[heap[id].path].state = "good"
Reloaded(h, id) ==
  IF Readable(id) THEN [h EXCEPT ![id].ver = disk[h[id].path].ver] ELSE h

(* resolvers.invalidateCache(c), also for an access that main is in.       *)
Invalidated(c) == [caches EXCEPT ![c] = NoCache]
RacedBy(c, t) ==
  IF t["main"].pc = "cache" /\ heap[t["main"].st].path = c
  THEN [t EXCEPT !["main"].late = TRUE] ELSE t

(* invalidateIndexForConfig(c); a lookup that found c before is late now.  *)
WithoutConfig(c) == [p \in Path |-> IF index[p] = c THEN None ELSE index[p]]
LateBy(c, t) ==
  [x \in Thread |-> IF t[x].pc = "record" /\ t[x].cfg = c
                    THEN [t[x] EXCEPT !.late = TRUE] ELSE t[x]]

(* ensureWatcherLocked(c): one loop per configuration.                     *)
EnsureWatcher(c) ==
  IF watchers[c] # 0
  THEN UNCHANGED <<watchers, loops>>
  ELSE /\ loops' = Append(loops, NewLoop(c))
       /\ watchers' = [watchers EXCEPT ![c] = Len(loops) + 1]

(* setLastUsed, SetInitConfigPath and SetDefaultClientForPath.             *)
SetLastUsed(c) == lastUsed' = c
SetInitConfigPath(c) == initConfig' = c /\ EnsureWatcher(c)
SetDefaultClientForPath(c, id) == clients' = [clients EXCEPT ![c] = id] /\ SetLastUsed(c)

-----------------------------------------------------------------------------
(* resolveStateForPath and resolveClientForPath, on any thread.            *)

(* What a thread does once it has its state or client, or an error.        *)
After(x) ==
  CASE threads[x].kind = "access" -> "access"
    [] threads[x].kind = "reload" -> IF threads[x].cl # 0 THEN "client" ELSE "index"
    [] threads[x].kind = "created" -> "created"
    [] threads[x].kind = "init" -> "initClient"
    [] OTHER -> "idle"

(* Thread record t goes on at pc to; an idle thread forgets its locals.    *)
GoTo(t, to) ==
  IF to = "idle" THEN [IdleThread EXCEPT !.on = t.on, !.armed = t.armed]
  ELSE [t EXCEPT !.pc = to]

(* lookupOrFindConfig: the cached configuration, or the nearest one.       *)
Find(x) ==
  /\ At(x, "find") /\ Unlocked
  /\ LET p == threads[x].path
         c == IF index[p] # None THEN index[p] ELSE FindNearest(p)
         to == IF index[p] # None THEN "load" ELSE IF c # None THEN "record" ELSE After(x)
     IN  threads' = [threads EXCEPT
                       ![x] = GoTo([@ EXCEPT !.cfg = c, !.late = FALSE, !.st = 0], to)]
  /\ UNCHANGED <<fileVars, mapVars, index, lastUsed, optionVars, caches, promptVars,
                 requests, hist>>

(* Its second critical section.                                            *)
Record(x) ==
  /\ At(x, "record") /\ Unlocked
  /\ index' = [index EXCEPT ![threads[x].path] = threads[x].cfg]
  /\ hist' = [hist EXCEPT !.late = IF threads[x].late THEN @ \cup {threads[x].path}
                                                     ELSE @ \ {threads[x].path}]
  /\ threads' = [threads EXCEPT ![x].pc = "load"]
  /\ UNCHANGED <<fileVars, mapVars, lastUsed, optionVars, caches, promptVars, requests>>

(* loadState: a state that is there (for a client: a client), or a new one *)
(* from the file, or an error to remember.                                 *)
LoadState(x) ==
  /\ At(x, "load") /\ Unlocked
  /\ LET c == threads[x].cfg
         client == threads[x].kind = "client"
     IN  \/ /\ client /\ clients[c] # 0
            /\ threads' = [threads EXCEPT ![x] = GoTo(@, After(x))]
            /\ SetLastUsed(c)
            /\ UNCHANGED <<heap, states, errors>>
         \/ /\ ~(client /\ clients[c] # 0) /\ states[c] # 0
            /\ threads' = [threads EXCEPT ![x] = GoTo([@ EXCEPT !.st = states[c]],
                                               IF client THEN "loadClient" ELSE After(x))]
            /\ SetLastUsed(IF client THEN lastUsed ELSE c)
            /\ UNCHANGED <<heap, states, errors>>
         \/ /\ ~(client /\ clients[c] # 0) /\ states[c] = 0
            /\ IF disk[c].state = "good"
               THEN /\ heap' = Append(heap, [path |-> c, ver |-> disk[c].ver])
                    /\ states' = [states EXCEPT ![c] = Len(heap) + 1]
                    /\ threads' = [threads EXCEPT ![x] =
                                    [@ EXCEPT !.pc = "watch", !.st = Len(heap) + 1]]
                    /\ errors' = errors
               ELSE /\ errors' = errors \cup {c}
                    /\ threads' = [threads EXCEPT ![x] = GoTo([@ EXCEPT !.st = 0], After(x))]
                    /\ UNCHANGED <<heap, states>>
            /\ lastUsed' = lastUsed
  /\ hist' = IF heap' # heap THEN [hist EXCEPT !.unseen = @ \ {threads[x].cfg}] ELSE hist
  /\ UNCHANGED <<fileVars, clients, watchers, loops, index, optionVars, caches,
                 promptVars, requests>>

(* Its end: the file is watched, the error forgotten.                      *)
Watch(x) ==
  /\ At(x, "watch")
  /\ LET c == threads[x].cfg
     IN  /\ EnsureWatcher(c)
         /\ errors' = errors \ {c}
         /\ SetLastUsed(IF threads[x].kind = "client" THEN lastUsed ELSE c)
         /\ threads' = [threads EXCEPT
              ![x] = GoTo(@, IF @.kind = "client" THEN "loadClient" ELSE After(x))]
  /\ UNCHANGED <<fileVars, heap, states, clients, index, optionVars, caches, promptVars,
                 requests, hist>>

(* loadClient: for the state found before, whether or not it is still the  *)
(* one of the map.                                                         *)
LoadClient(x) ==
  /\ At(x, "loadClient") /\ Unlocked
  /\ LET c == threads[x].cfg
     IN  IF clients[c] # 0 \/ accounts
         THEN /\ clients' = [clients EXCEPT ![c] = IF @ # 0 THEN @ ELSE threads[x].st]
              /\ errors' = IF clients[c] # 0 THEN errors ELSE errors \ {c}
              /\ SetLastUsed(c)
              /\ hist' = IF clients[c] = 0 /\ states[c] # threads[x].st
                              /\ heap[threads[x].st].ver # disk[c].ver
                         THEN [hist EXCEPT !.orphans = @ \cup {threads[x].st}] ELSE hist
         ELSE /\ errors' = errors \cup {c}
              /\ UNCHANGED <<clients, lastUsed, hist>>
  /\ threads' = [threads EXCEPT ![x] = GoTo(@, After(x))]
  /\ UNCHANGED <<fileVars, heap, states, watchers, loops, index, optionVars, caches,
                 promptVars, requests>>

Resolve(x) == Find(x) \/ Record(x) \/ LoadState(x) \/ Watch(x) \/ LoadClient(x)

-----------------------------------------------------------------------------
(* watchLoop                                                               *)

LoopUnchanged ==
  UNCHANGED <<fileVars, lastUsed, optionVars, promptVars, requests, hist>>

(* A flow.json appears next to the Custom file that loop w watches: state, *)
(* client and watcher move to its key, and the loop watches it from now on.*)
WatchMove(w) ==
  /\ loops[w].pc = "idle" /\ loops[w].moving /\ Unlocked
  /\ LET c == loops[w].cfg
         d == DirOf(c)
         Moved(f) == IF f[c] = 0 THEN f ELSE [f EXCEPT ![c] = 0, ![d] = f[c]]
     IN  /\ states' = Moved(states)
         /\ clients' = Moved(clients)
         /\ watchers' = [watchers EXCEPT ![c] = 0, ![d] = w]
         /\ loops' = [loops EXCEPT ![w] =
                         [@ EXCEPT !.cfg = d, !.moving = FALSE, !.armed = TRUE]]
  /\ UNCHANGED <<heap, errors, threads, index, caches>> /\ LoopUnchanged

(* The debounce timer fires: state and client are read under the lock.     *)
WatchFire(w) ==
  /\ loops[w].pc = "idle" /\ loops[w].armed /\ Unlocked
  /\ LET c == loops[w].cfg
         to == IF states[c] # 0 THEN "reload"
               ELSE IF clients[c] # 0 THEN "client" ELSE "index"
     IN  loops' = [loops EXCEPT ![w] =
           [@ EXCEPT !.armed = FALSE, !.st = states[c], !.cl = clients[c], !.pc = to]]
  /\ UNCHANGED <<heap, states, clients, watchers, errors, threads, index, caches>>
  /\ LoopUnchanged

(* The state is reloaded, without the lock.                                *)
WatchReload(w) ==
  /\ loops[w].pc = "reload"
  /\ heap' = Reloaded(heap, loops[w].st)
  /\ loops' = [loops EXCEPT ![w] = [@ EXCEPT !.pc = "apply", !.ok = Readable(loops[w].st)]]
  /\ UNCHANGED <<states, clients, watchers, errors, threads, index, caches>>
  /\ LoopUnchanged

(* Mutant: the resolvers are not told of the reload.                       *)
WatchApplySilently(w) ==
  /\ loops[w].pc = "apply" /\ Unlocked
  /\ LET c == loops[w].cfg
     IN  IF loops[w].ok
         THEN /\ errors' = errors \ {c}
              /\ UNCHANGED <<states, clients>>
         ELSE /\ errors' = errors \cup {c}
              /\ states' = [states EXCEPT ![c] = 0]
              /\ clients' = [clients EXCEPT ![c] = 0]
  /\ loops' = [loops EXCEPT ![w].pc = IF loops[w].cl # 0 THEN "client" ELSE "index"]
  /\ UNCHANGED <<heap, watchers, index, caches, threads>> /\ LoopUnchanged

(* Mutant: a state whose file is broken stays.                             *)
WatchApplyKeepsBroken(w) ==
  /\ loops[w].pc = "apply" /\ Unlocked
  /\ LET c == loops[w].cfg
     IN  /\ errors' = IF loops[w].ok THEN errors \ {c} ELSE errors \cup {c}
         /\ caches' = Invalidated(c)
         /\ threads' = RacedBy(c, threads)
  /\ loops' = [loops EXCEPT ![w].pc = IF loops[w].cl # 0 THEN "client" ELSE "index"]
  /\ UNCHANGED <<heap, states, clients, watchers, index>> /\ LoopUnchanged

(* A reload that worked clears the error and tells the resolvers; one that *)
(* failed drops whatever state and client are there now.                   *)
WatchApply(w) ==
  /\ loops[w].pc = "apply" /\ Unlocked
  /\ LET c == loops[w].cfg
     IN  IF loops[w].ok
         THEN /\ errors' = errors \ {c}
              /\ caches' = Invalidated(c)
              /\ threads' = RacedBy(c, threads)
              /\ UNCHANGED <<states, clients>>
         ELSE /\ errors' = errors \cup {c}
              /\ states' = [states EXCEPT ![c] = 0]
              /\ clients' = [clients EXCEPT ![c] = 0]
              /\ UNCHANGED <<caches, threads>>
  /\ loops' = [loops EXCEPT ![w].pc = IF loops[w].cl # 0 THEN "client" ELSE "index"]
  /\ UNCHANGED <<heap, watchers, index>> /\ LoopUnchanged

(* Mutant: the client is forgotten.                                        *)
WatchClientSkipped(w) ==
  /\ loops[w].pc = "client"
  /\ loops' = [loops EXCEPT ![w].pc = "index"]
  /\ UNCHANGED <<heap, states, clients, watchers, errors, threads, index, caches>>
  /\ LoopUnchanged

(* The client reloads its own state.                                       *)
WatchClient(w) ==
  /\ loops[w].pc = "client"
  /\ heap' = Reloaded(heap, loops[w].cl)
  /\ loops' = [loops EXCEPT ![w].pc = "index"]
  /\ UNCHANGED <<states, clients, watchers, errors, threads, index, caches>>
  /\ LoopUnchanged

(* Mutant: the index is left alone.                                        *)
WatchIndexKept(w) ==
  /\ loops[w].pc = "index" /\ Unlocked
  /\ loops' = [loops EXCEPT ![w] = [NewLoop(@.cfg) EXCEPT !.armed = loops[w].armed,
                                     !.moving = loops[w].moving]]
  /\ UNCHANGED <<heap, states, clients, watchers, errors, caches, index, threads>>
  /\ LoopUnchanged

(* invalidateIndexForConfig.                                               *)
WatchIndex(w) ==
  /\ loops[w].pc = "index" /\ Unlocked
  /\ index' = WithoutConfig(loops[w].cfg)
  /\ threads' = LateBy(loops[w].cfg, threads)
  /\ loops' = [loops EXCEPT ![w] = [NewLoop(@.cfg) EXCEPT !.armed = loops[w].armed,
                                     !.moving = loops[w].moving]]
  /\ UNCHANGED <<heap, states, clients, watchers, errors, caches>> /\ LoopUnchanged

WatchLoop(w) ==
  \/ WatchMove(w) \/ WatchFire(w) \/ WatchReload(w) \/ WatchApply(w)
  \/ WatchClient(w) \/ WatchIndex(w)

-----------------------------------------------------------------------------
(* watchDirLoop: the goroutine of directory d is thread d.                 *)

DirUnchanged ==
  UNCHANGED <<fileVars, watchers, loops, errors, lastUsed, optionVars, promptVars,
              requests, hist>>

(* The timer fires.  If flow.json exists its state is reloaded, or loaded; *)
(* if not, its index entries go, and then its state and client.            *)
DirFire(d) ==
  /\ At(d, "idle") /\ threads[d].armed /\ Unlocked
  /\ LET to == IF disk[d].state = "none" THEN "gone"
               ELSE IF states[d] # 0 THEN "reload" ELSE "find"
     IN  threads' = [threads EXCEPT ![d] =
           [@ EXCEPT !.armed = FALSE, !.pc = to, !.kind = "reload", !.path = d, !.cfg = d,
                     !.st = states[d], !.cl = clients[d]]]
  /\ UNCHANGED <<heap, states, clients, index, caches>> /\ DirUnchanged

(* The resolvers are told, whether the reload worked or not.               *)
DirReload(d) ==
  /\ At(d, "reload")
  /\ heap' = Reloaded(heap, threads[d].st)
  /\ caches' = Invalidated(d)
  /\ threads' = RacedBy(d, [threads EXCEPT ![d].pc = After(d)])
  /\ UNCHANGED <<states, clients, index>> /\ DirUnchanged

DirClient(d) ==
  /\ At(d, "client")
  /\ heap' = Reloaded(heap, threads[d].cl)
  /\ threads' = [threads EXCEPT ![d].pc = "index"]
  /\ UNCHANGED <<states, clients, index, caches>> /\ DirUnchanged

DirRest(d) == [IdleThread EXCEPT !.on = TRUE, !.armed = threads[d].armed]

DirIndex(d) ==
  /\ threads[d].pc \in {"index", "gone"} /\ d \in Dir /\ Unlocked
  /\ index' = WithoutConfig(d)
  /\ threads' = LateBy(d, [threads EXCEPT
        ![d] = IF @.pc = "gone" THEN [@ EXCEPT !.pc = "drop"] ELSE DirRest(d)])
  /\ UNCHANGED <<heap, states, clients, caches>> /\ DirUnchanged

DirDrop(d) ==
  /\ At(d, "drop") /\ Unlocked
  /\ states' = [states EXCEPT ![d] = 0]
  /\ clients' = [clients EXCEPT ![d] = 0]
  /\ threads' = [threads EXCEPT ![d] = DirRest(d)]
  /\ UNCHANGED <<heap, index, caches>> /\ DirUnchanged

DirLoop(d) ==
  \/ DirFire(d) \/ DirReload(d) \/ DirClient(d) \/ DirIndex(d) \/ DirDrop(d)

-----------------------------------------------------------------------------
(* The integration                                                         *)

(* setupConfigManager, for a configuration c that loads: n says whether    *)
(* the number of accounts is valid.                                        *)
SetupConfigManager(c, n) ==
  /\ accounts' = n
  /\ SetInitConfigPath(c)
  /\ threads' = [threads EXCEPT !["main"] =
       [IdleThread EXCEPT !.pc = "load", !.cfg = c, !.kind = "init"]]

(* handleInitConfigLoadFailure: the configuration is remembered and tried  *)
(* once more, for the error, with no accounts to make clients with.        *)
HandleInitConfigLoadFailure(c) ==
  /\ accounts' = FALSE
  /\ SetInitConfigPath(c)
  /\ threads' = [threads EXCEPT !["main"] =
       [IdleThread EXCEPT !.pc = "load", !.cfg = c, !.kind = "open"]]

(* FlowIntegration.initialize, without options or with a configuration c,  *)
(* which the integration first loads into a state of its own.              *)
Initialize(c, n) ==
  /\ At("main", "start")
  /\ IF c = None
     THEN /\ threads' = [threads EXCEPT !["main"] = IdleThread]
          /\ UNCHANGED <<heap, watchers, loops, optionVars>>
     ELSE IF disk[c].state = "good"
     THEN /\ heap' = Append(heap, [path |-> c, ver |-> disk[c].ver])
          /\ SetupConfigManager(c, n)
     ELSE heap' = heap /\ HandleInitConfigLoadFailure(c)
  /\ UNCHANGED <<fileVars, states, clients, errors, index, lastUsed, caches, promptVars,
                 requests, hist>>

(* Its end: the client is made with the integration's own state (the first *)
(* object) and given to the manager.                                       *)
InitializeClient ==
  /\ At("main", "initClient") /\ Unlocked
  /\ LET c == threads["main"].cfg
     IN  IF threads["main"].st # 0 /\ accounts
         THEN /\ SetDefaultClientForPath(c, 1)
              /\ hist' = IF heap[1].ver = disk[c].ver THEN hist
                         ELSE [hist EXCEPT !.orphans = @ \cup {1}]
         ELSE UNCHANGED <<clients, lastUsed, hist>>
  /\ threads' = [threads EXCEPT !["main"] = IdleThread]
  /\ UNCHANGED <<fileVars, heap, states, watchers, loops, errors, index, optionVars,
                 caches, promptVars, requests>>

(* A request begins on main, with the given first step.                    *)
Begin(kind, pc, p, c, todo) ==
  /\ At("main", "idle") /\ requests < MaxRequests
  /\ requests' = requests + 1
  /\ threads' = [threads EXCEPT !["main"] =
       [IdleThread EXCEPT !.kind = kind, !.pc = pc, !.path = p, !.cfg = c, !.todo = todo]]
  /\ UNCHANGED <<fileVars, mapVars, index, lastUsed, optionVars, caches, hist>>

(* didOpenInitHook where there is a configuration: its state is resolved.  *)
OpenInProject(p) ==
  /\ FindNearest(p) # None
  /\ Begin("open", "find", FindNearest(p), None, {})
  /\ UNCHANGED promptVars

(* Commands about document p (clientForPath); without a client for p the   *)
(* default client serves them.                                             *)
CommandFor(p) == Begin("client", "find", p, None, {}) /\ UNCHANGED promptVars

(* addressImport and stringImport, and accountAccess, for the project of p.*)
AddressImport(p) == Begin("client", "load", None, ProjectOf(p), {}) /\ UNCHANGED promptVars
StringImport(p) == Begin("import", "load", None, ProjectOf(p), {}) /\ UNCHANGED promptVars
AccountAccess(p) == Begin("access", "load", None, ProjectOf(p), {}) /\ UNCHANGED promptVars

(* reloadConfig: ReloadAll takes the states of the moment.                 *)
ReloadAll ==
  /\ Unlocked
  /\ Begin("reloadAll", "reloadAll", None, None, {states[c] : c \in Config} \ {0})
  /\ UNCHANGED promptVars

(* Each is reloaded and its resolvers told; the first failure ends it.     *)
ReloadNext ==
  /\ At("main", "reloadAll")
  /\ \/ /\ threads["main"].todo = {}
        /\ threads' = [threads EXCEPT !["main"] = IdleThread]
        /\ UNCHANGED <<heap, caches>>
     \/ \E id \in threads["main"].todo :
          IF Readable(id)
          THEN /\ heap' = Reloaded(heap, id)
               /\ caches' = Invalidated(heap[id].path)
               /\ threads' = [threads EXCEPT !["main"].todo = @ \ {id}]
          ELSE /\ threads' = [threads EXCEPT !["main"] = IdleThread]
               /\ UNCHANGED <<heap, caches>>
  /\ UNCHANGED <<fileVars, states, clients, watchers, loops, errors, index, lastUsed,
                 optionVars, promptVars, requests, hist>>

(* accountAccess once it has its state: a cached map, or one built from    *)
(* what the state holds now, ...                                           *)
AccessBuild ==
  /\ At("main", "access")
  /\ LET st == threads["main"].st
     IN  threads' = [threads EXCEPT !["main"] =
           IF st = 0 \/ caches[heap[st].path] # NoCache THEN IdleThread
           ELSE [@ EXCEPT !.pc = "cache", !.ver = heap[st].ver, !.late = FALSE]]
  /\ UNCHANGED <<fileVars, mapVars, index, lastUsed, optionVars, caches, promptVars,
                 requests, hist>>

(* ... which is then cached under the path of the state.                   *)
AccessCache ==
  /\ At("main", "cache")
  /\ LET m == threads["main"]
     IN  caches' = [caches EXCEPT ![heap[m.st].path] =
                      [st |-> m.st, ver |-> m.ver, raced |-> m.late]]
  /\ threads' = [threads EXCEPT !["main"] = IdleThread]
  /\ UNCHANGED <<fileVars, mapVars, index, lastUsed, optionVars, promptVars, requests,
                 hist>>

(* codeLenses: the directory of the document is watched from now on.       *)
EnsureDirWatcher(p) ==
  /\ At("main", "idle") /\ requests < MaxRequests
  /\ requests' = requests + 1
  /\ Unlocked
  /\ threads' = [threads EXCEPT ![Above(p)[1]].on = TRUE]
  /\ UNCHANGED <<fileVars, mapVars, index, lastUsed, optionVars, caches, promptVars, hist>>

-----------------------------------------------------------------------------
(* The prompt                                                              *)

(* Mutant: a prompt that is showing does not keep another one away.        *)
OpenWithoutProjectAlways(p) ==
  /\ FindNearest(p) = None /\ At("main", "idle") /\ requests < MaxRequests
  /\ requests' = requests + 1
  /\ IF (initConfig # None /\ initConfig \in errors) \/ Root[p] \in {asked[i] : i \in DOMAIN asked}
     THEN UNCHANGED <<promptVars, threads>>
     ELSE /\ promptShown' = TRUE
          /\ asked' = Append(asked, Root[p])
          /\ threads' = [threads EXCEPT !["prompt"] =
               [IdleThread EXCEPT !.pc = "ask", !.path = Root[p],
                                  !.todo = threads["prompt"].todo \cup {Root[p]}]]
  /\ UNCHANGED <<fileVars, mapVars, index, lastUsed, optionVars, caches, hist>>

(* didOpenInitHook where there is no configuration: a broken configuration *)
(* of the options is shown, or the user is asked, unless a prompt is       *)
(* showing; a root that was asked about before only takes the flag.        *)
OpenWithoutProject(p) ==
  /\ FindNearest(p) = None /\ At("main", "idle") /\ requests < MaxRequests
  /\ requests' = requests + 1
  /\ IF (initConfig # None /\ initConfig \in errors) \/ promptShown
     THEN UNCHANGED <<promptVars, threads>>
     ELSE /\ promptShown' = TRUE
          /\ IF Root[p] \in {asked[i] : i \in DOMAIN asked}
             THEN UNCHANGED <<asked, threads>>
             ELSE /\ asked' = Append(asked, Root[p])
                  /\ threads' = [threads EXCEPT !["prompt"] =
                       [IdleThread EXCEPT !.pc = "ask", !.path = Root[p],
                                          !.todo = threads["prompt"].todo \cup {Root[p]}]]
  /\ UNCHANGED <<fileVars, mapVars, index, lastUsed, optionVars, caches, hist>>

(* The loops that see a write of c.                                        *)
LoopsSee(c) ==
  [w \in DOMAIN loops |->
     IF c = loops[w].cfg THEN [loops[w] EXCEPT !.armed = TRUE]
     ELSE IF c \in Dir /\ c = DirOf(loops[w].cfg) THEN [loops[w] EXCEPT !.moving = TRUE]
     ELSE loops[w]]
ThreadsSee(c, t) ==
  IF c \in Dir /\ t[c].on THEN [t EXCEPT ![c].armed = TRUE] ELSE t
Watched(c) == watchers[c] # 0 \/ (c \in Dir /\ threads[c].on)

(* A file is written, broken or removed.                                   *)
Write(c, s, t) ==
  /\ writes' = writes + 1
  /\ disk' = [disk EXCEPT ![c] = [state |-> s, ver |-> writes + 1]]
  /\ loops' = LoopsSee(c)
  /\ threads' = ThreadsSee(c, t)
  /\ hist' = [hist EXCEPT !.orphans = IF watchers[c] # 0 THEN @
                                       ELSE @ \cup ({states[c], clients[c]} \ {0}),
                           !.unseen = IF Watched(c) THEN @ ELSE @ \cup {c}]

(* The user declines, or `flow init` runs and makes a flow.json or fails;  *)
(* a failure keeps the flag.  (Were it to succeed without the file, the    *)
(* code would read the message of an error that is nil.)                   *)
PromptAnswer ==
  /\ At("prompt", "ask")
  /\ LET d == threads["prompt"].path
         t == [threads EXCEPT !["prompt"] =
                 [@ EXCEPT !.pc = "find", !.kind = "created", !.todo = {}]]
     IN  \/ /\ promptShown' = FALSE
            /\ threads' = [threads EXCEPT !["prompt"] = IdleThread]
            /\ UNCHANGED <<fileVars, loops, hist>>
         \/ /\ writes < MaxWrites
            /\ disk[d].state = "none" /\ Write(d, "good", t)
            /\ UNCHANGED promptShown
         \/ /\ threads' = [threads EXCEPT !["prompt"] = IdleThread]
            /\ UNCHANGED <<fileVars, loops, hist, promptShown>>
  /\ UNCHANGED <<heap, states, clients, watchers, errors, index, lastUsed, optionVars,
                 caches, asked, requests>>

(* The new configuration is resolved; an error keeps the flag.             *)
PromptCreated ==
  /\ At("prompt", "created")
  /\ promptShown' = (threads["prompt"].st = 0)
  /\ threads' = [threads EXCEPT !["prompt"] = IdleThread]
  /\ UNCHANGED <<fileVars, mapVars, index, lastUsed, optionVars, caches, asked, requests,
                 hist>>

-----------------------------------------------------------------------------
UserWrites ==
  /\ writes < MaxWrites /\ ~At("main", "start")
  /\ \E e \in Edits :
       /\ ~(e[2] = "none" /\ disk[e[1]].state = "none")
       /\ Write(e[1], e[2], threads)
  /\ UNCHANGED <<heap, states, clients, watchers, errors, index, lastUsed, optionVars,
                 caches, promptVars, requests>>

MainRequest ==
  \/ \E p \in Doc :
       \/ OpenInProject(p) \/ OpenWithoutProject(p) \/ CommandFor(p) \/ AddressImport(p)
       \/ StringImport(p) \/ AccountAccess(p) \/ EnsureDirWatcher(p)
  \/ ReloadAll

CfgNext ==
  \/ \E o \in Options : Initialize(o[1], o[2])
  \/ MainRequest
  \/ InitializeClient \/ ReloadNext \/ AccessBuild \/ AccessCache
  \/ \E x \in Thread : Resolve(x)
  \/ \E w \in DOMAIN loops : WatchLoop(w)
  \/ \E d \in Dir : DirLoop(d)
  \/ PromptAnswer \/ PromptCreated
  \/ UserWrites

CfgSpec == CfgInit /\ [][CfgNext]_cfgVars

-----------------------------------------------------------------------------
(* Nothing is under way: no goroutine is in a step or has one due.         *)
Settled ==
  /\ \A x \in Thread : threads[x].pc \in {"idle", "ask"} /\ ~threads[x].armed
  /\ \A w \in DOMAIN loops : loops[w].pc = "idle" /\ ~loops[w].armed /\ ~loops[w].moving

(* Type invariant: a configuration holds only objects that were made, the  *)
(* index leads to directories, and watchers to loops.                      *)
CfgTypeOK ==
  /\ \A i \in DOMAIN heap : heap[i] \in [path : Config, ver : 0 .. MaxWrites]
  /\ states \in [Config -> 0 .. Len(heap)] /\ clients \in [Config -> 0 .. Len(heap)]
  /\ watchers \in [Config -> 0 .. Len(loops)]
  /\ index \in [Path -> Dir \cup {None}]
  /\ \A x, y \in Thread : At(x, "watch") /\ At(y, "watch") => x = y

(***************************************************************************)
(* The watch loops keep up with the files: when nothing is under way, the  *)
(* state of a configuration is what its file says now, and a configuration *)
(* whose file is broken or gone has no state.  The exceptions are a file   *)
(* written between its load and its watcher, and a state that moved from   *)
(* another file.                                                           *)
(***************************************************************************)
StatesSettle ==
  Settled =>
    \A c \in Config :
      states[c] # 0 /\ heap[states[c]].path = c /\ states[c] \notin hist.orphans =>
        disk[c].state = "good" /\ heap[states[c]].ver = disk[c].ver

(***************************************************************************)
(* So do the states of the clients: when nothing is under way, a client    *)
(* sees the last good version of its file, unless it was installed for a   *)
(* state that the loops had dropped or left behind.                        *)
(***************************************************************************)
ClientsSettle ==
  Settled =>
    \A c \in Config :
      LET id == clients[c]
      IN  id # 0 /\ heap[id].path = c /\ id \notin hist.orphans
            /\ disk[c].state = "good" => heap[id].ver = disk[c].ver

(***************************************************************************)
(* When nothing is under way, a cached address map is the one of the       *)
(* current contents of the state it was built from, as long as that state  *)
(* is in use and was not reloaded while the map was built.  Maps of states *)
(* that were replaced are exempt: a loop whose reload fails, or whose file *)
(* is gone, drops the state without telling the resolvers.                 *)
(***************************************************************************)
CachesSettle ==
  Settled =>
    \A c \in Config :
      caches[c] # NoCache /\ ~caches[c].raced /\ caches[c].st = states[c] =>
        caches[c].ver = heap[states[c]].ver

(***************************************************************************)
(* When nothing is under way, the index does not lead to a flow.json that  *)
(* is gone, unless nobody watched it go or the entry was recorded after    *)
(* the invalidation.                                                       *)
(***************************************************************************)
IndexSettles ==
  Settled =>
    \A p \in Path :
      index[p] # None /\ p \notin hist.late /\ index[p] \notin hist.unseen =>
        disk[index[p]].state # "none"

(***************************************************************************)
(* The user sees one prompt at a time, and no root is asked about twice.   *)
(***************************************************************************)
PromptOnce ==
  /\ Cardinality(threads["prompt"].todo) <= 1
  /\ \A i, j \in DOMAIN asked : asked[i] = asked[j] => i = j
=============================================================================
