------------------------------ MODULE ServerV1 ------------------------------
(***************************************************************************)
(* The v1 language server (languageserver/server/server.go) with the Flow  *)
(* client's accounts, commands and code lenses.                            *)
(*                                                                         *)
(* One goroutine reads messages and runs their handlers to the end.  The   *)
(* user's flow.json and source files change under it at any time.  Which   *)
(* flow.json a document belongs to is the subject of ConfigManager; here   *)
(* all documents have the same one, and a project identity is its          *)
(* modification time, or 0 for the documents' directory while there is     *)
(* none.                                                                   *)
(*                                                                         *)
(* A checker is [project, loc, text, lib, mode, deps]: its key, the text   *)
(* it checked, the standard library and access mode of its configuration,  *)
(* and the imports it got, each with its text.  Texts stand for their      *)
(* contents.                                                               *)
(***************************************************************************)
EXTENDS FlowClient

CONSTANTS
  Loc,             \* locations of programs
  Doc,             \* the locations that the client opens
  Builtin,         \* the locations of the test framework's contracts
  Address,         \* addresses imported without identifiers
  Imports,         \* [Text -> SUBSET (Loc \cup Address)]
  DocTexts,        \* [Doc -> SUBSET Text]: what the client writes in a document
  InitialDisk,     \* [Loc -> Text \cup {None}]: the files at the start
  DiskTexts,       \* [Loc -> SUBSET (Text \cup {None})]: their contents later
  NoProgram, ParseErrors, CheckErrors,   \* \subseteq Text
  ProblemsOf,      \* [Text -> SUBSET Problem]: what its diagnostics are about
  AccountNumbers,  \* values of the option numberOfAccounts
  Modes,           \* access check modes
  Budgets          \* bounds on notifications, requests, commands, versions of
                   \* flow.json and file writes, in the combinations to explore

Problem == {"returnType", "members", "function", "method", "suggestion",
            "unreachable", "removal", "deprecated"}

ASSUME ServerV1Assumption ==
  /\ ProblemsOf \in [Text -> SUBSET Problem]
  /\ "strict" \in Modes
  /\ Doc \subseteq Loc /\ Builtin \subseteq Loc \ Doc /\ Address \cap Loc = {}
  /\ None \notin Doc \cup Nat
  /\ DocTexts \in [Doc -> SUBSET Text]
  /\ InitialDisk \in [Loc -> Text \cup {None}]
  /\ DiskTexts \in [Loc -> SUBSET (Text \cup {None})]
  /\ AccountNumbers \subseteq Nat
  /\ NoProgram \subseteq ParseErrors /\ ParseErrors \cup CheckErrors \subseteq Text
  /\ Budgets \subseteq [messages : Nat, requests : Nat, commands : Nat,
                         projects : Nat, writes : Nat]

VARIABLES
  disk,       \* [Loc -> Text \cup {None}]: the files
  project,    \* the project identity of the documents
  projects,   \* modification times of flow.json so far
  open,       \* the documents the client has open
  documents,  \* s.documents: [Doc -> [text, version]]
  cache,      \* s.checkerCache: checkers
  mode,       \* s.accessCheckMode
  checking,   \* the document whose notification is being handled, or None
  checks,     \* checks so far
  resolvers,  \* s.codeActionsResolvers, those of a check under one id:
              \* [Doc -> [id, text, project]]
  published,  \* the diagnostics the client has: [Doc -> [id, text, valid]]
  members,    \* s.memberResolvers: the completion that filled them, per document
  ranges,     \* s.ranges, likewise
  completions,  \* completions so far
  infos,      \* contractInfo and entryPointInfo, per document
  client,     \* the Flow client
  ready,      \* has the client been initialized, and given to the commands?
  chain,      \* accounts the emulator has created
  initialized,
  reply,      \* the answer the last step sent, if it sent one
  left,       \* the events that may still happen: one of Budgets
  \* history
  checkedIn,  \* [Doc -> project identity of its last check, None if that panicked]
  saw,        \* the diagnostics with code actions the client was sent
  latest,     \* [Doc -> its last completion with items]
  shown       \* the signers of the code lenses shown, with their addresses

envVars == <<disk, project, projects, open>>
checkVars == <<documents, cache, checking, checks, resolvers, published, checkedIn, saw>>
completionVars == <<members, ranges, completions, latest>>
flowVars == <<infos, client, ready, chain, shown>>
v1Vars == <<envVars, checkVars, completionVars, flowVars, mode, initialized, reply,
            left>>

NoDocument == [text |-> None, version |-> 0]
NoResolvers == [id |-> 0, text |-> None, project |-> 0]
NoDiagnostics == [id |-> 0, text |-> None, valid |-> TRUE]
NoCompletion == [kind |-> "none", id |-> 0]
NoReply == [kind |-> "none", uri |-> None, text |-> None, value |-> {}]

(* NewServer and NewFlowIntegration.                                       *)
V1Init ==
  /\ disk = InitialDisk
  /\ project = 0 /\ projects = 0
  /\ open = {}
  /\ documents = [u \in Doc |-> NoDocument]
  /\ cache = {}
  /\ mode = "strict"
  /\ checking = None
  /\ checks = 0
  /\ resolvers = [u \in Doc |-> NoResolvers]
  /\ published = [u \in Doc |-> NoDiagnostics]
  /\ members = [u \in Doc |-> 0]
  /\ ranges = [u \in Doc |-> 0]
  /\ completions = 0
  /\ infos = [u \in Doc |-> [contract |-> NoInfo, entry |-> NoInfo]]
  /\ client = NewClient
  /\ ready = FALSE
  /\ chain = 0
  /\ initialized = FALSE
  /\ left \in Budgets
  /\ reply = NoReply
  /\ checkedIn = [u \in Doc |-> 0]
  /\ saw = {}
  /\ latest = [u \in Doc |-> NoCompletion]
  /\ shown = {}

Reading == initialized /\ checking = None

-----------------------------------------------------------------------------
(* Start                                                                   *)

(* accessCheckModeFromName, in configure: without an option, or with any   *)
(* other name, checks are strict.                                          *)
AccessCheckMode(name) == IF name \in Modes THEN name ELSE "strict"

(* Initialize configures the access mode and calls the integration's       *)
(* handler: a flow.json that cannot be loaded leaves the client as it is   *)
(* and is no error; a failing client fails the request, but the server     *)
(* goes on.                                                                *)
Initialize ==
  /\ ~initialized
  /\ initialized' = TRUE
  /\ \E name \in Modes \cup {None} : mode' = AccessCheckMode(name)
  /\ \/ /\ reply' = [NoReply EXCEPT !.kind = "ok"]
        /\ UNCHANGED <<client, ready, chain>>
     \/ \E n \in AccountNumbers : \E k \in 0 .. n :
          LET r == InitializeClient(client, chain, n, k)
          IN  /\ client' = r.client
              /\ chain' = IF 0 < n /\ n <= Len(Names) THEN chain + k ELSE chain
              /\ ready' = (r.result = "ok")
              /\ reply' = [NoReply EXCEPT !.kind = r.result]
  /\ UNCHANGED <<envVars, checkVars, completionVars, infos, shown, left>>

-----------------------------------------------------------------------------
(* Documents and checks                                                    *)

CachedAt(p, l) == {c \in cache : c.project = p /\ c.loc = l}

(* The client opens a document: its first version is 1 each time.          *)
DidOpen(u, t) ==
  /\ Reading /\ left.messages > 0 /\ u \notin open
  /\ left' = [left EXCEPT !.messages = @ - 1]
  /\ open' = open \cup {u}
  /\ documents' = [documents EXCEPT ![u] = [text |-> t, version |-> 1]]
  /\ checking' = u
  /\ reply' = NoReply
  /\ UNCHANGED <<disk, project, projects, cache, checks, resolvers, published,
                 checkedIn, saw, completionVars, flowVars, mode, initialized>>

(* didChange drops the document's own checker, of the project of now.      *)
DidChange(u, t) ==
  /\ Reading /\ left.messages > 0 /\ u \in open /\ documents[u].text # t
  /\ left' = [left EXCEPT !.messages = @ - 1]
  /\ documents' = [documents EXCEPT ![u] = [text |-> t, version |-> @.version + 1]]
  /\ cache' = cache \ CachedAt(project, u)
  /\ checking' = u
  /\ reply' = NoReply
  /\ UNCHANGED <<envVars, checks, resolvers, published, checkedIn, saw, completionVars,
                 flowVars, mode, initialized>>

(* didClose does nothing: the document and all that is kept for it stay.   *)
DidClose(u) ==
  /\ Reading /\ u \in open
  /\ open' = open \ {u}
  /\ reply' = NoReply
  /\ UNCHANGED <<disk, project, projects, checkVars, completionVars, flowVars,
                 mode, initialized, left>>

(* decideCheckerConfig.                                                    *)
LibOf(t) ==
  IF TextInfo[t].entry = "transaction" \/ TextInfo[t].contract = "contract"
  THEN "standard" ELSE "script"

(* handleLocation: an address without identifiers stands for the contracts *)
(* it has; other locations for themselves.                                 *)
ResolvedLocations(t, contracts) ==
  (Imports[t] \cap Loc) \cup (IF Imports[t] \cap Address = {} THEN {} ELSE contracts)

(* resolveImport: is there a file, and does it parse?                      *)
ResolveImport(l) == disk[l] # None /\ disk[l] \notin ParseErrors

(* Mutant: the import handler reads the file even if a checker is cached.  *)
HandleImportUncached(g, lib) ==
  [l \in Loc |->
     IF disk[l] = None THEN [ok |-> FALSE, text |-> None, put |-> {}]
     ELSE [ok |-> TRUE, text |-> disk[l],
           put |-> {[project |-> project, loc |-> l, text |-> disk[l], lib |-> lib,
                     mode |-> mode, deps |-> {}]}]]

(* handleImport looks at a file only if the project has no checker of it.  *)
Uncached(l) == l \notin Builtin /\ CachedAt(project, l) = {}

(* The pairs <<l, s>> where the file of l is looked at, and imports s.     *)
ImportGraph(contracts) ==
  UNION {{l} \X ResolvedLocations(disk[l], contracts) : l \in {l \in Loc : Uncached(l) /\ ResolveImport(l)}}

ImportsOf(g, l) == {e[2] : e \in {e \in g : e[1] = l}}

(* The locations that are looked at to import those of S: the least set    *)
(* that holds S and the imports of its members.                            *)
Reached(g, S) ==
  LET closed == {R \in SUBSET Loc : S \subseteq R /\ \A e \in g : e[1] \in R => e[2] \in R}
  IN  {l \in Loc : \A R \in closed : l \in R}

(* Files that lead to each other are checked inside each other, without    *)
(* end; only a file that imports itself is told apart.                     *)
Endless(g, S) == \E l \in Reached(g, S) : l \in Reached(g, ImportsOf(g, l) \ {l})

(* An import fails without a file that parses, with an error in the file   *)
(* or a failing import of its own.                                         *)
ImportFails(g, l) ==
  Uncached(l) /\ (~ResolveImport(l) \/ disk[l] \in CheckErrors \/ <<l, l>> \in g)
ImportOk(g, l) == \A k \in Reached(g, {l}) : ~ImportFails(g, k)

(* The text of the checker that is imported.                               *)
ImportText(l) ==
  IF l \in Builtin THEN None
  ELSE IF Uncached(l) THEN disk[l] ELSE (CHOOSE c \in CachedAt(project, l) : TRUE).text

(* handleImport, with resolveImport, for each location: the cached checker *)
(* of the project, or a check of the file, cached if it has no error.      *)
HandleImport(g, lib) ==
  [l \in Loc |->
     [ok   |-> ImportOk(g, l),
      text |-> ImportText(l),
      put  |-> {[project |-> project, loc |-> k, text |-> disk[k], lib |-> lib, mode |-> mode,
                 deps |-> {<<s, ImportText(s)>> : s \in ImportsOf(g, k)}] :
                  k \in {k \in Reached(g, {l}) : Uncached(k) /\ ImportOk(g, k)}}]]

(* The root checker of document u, and the imports it caches on the way.   *)
RootCheck(u, contracts) ==
  LET t      == documents[u].text
      import == HandleImport(ImportGraph(contracts), LibOf(t))
      subs   == ResolvedLocations(t, contracts) \ {u}
  IN  [checker |-> [project |-> project, loc |-> u, text |-> t, lib |-> LibOf(t),
                    mode |-> mode,
                    deps |-> {<<s, import[s].text>> : s \in {s \in subs : import[s].ok}}],
       puts    |-> UNION {import[s].put : s \in subs},
       clean   |-> /\ t \notin ParseErrors \cup CheckErrors
                   /\ u \notin ResolvedLocations(t, contracts)
                   /\ \A s \in subs : import[s].ok]

(* convertError: the errors that have code actions, by their type or       *)
(* because they suggest fixes of their own.  convertDiagnostic: those      *)
(* findings of the linter.                                                 *)
ConvertError(p) == p \in {"returnType", "members", "function", "method"}
SuggestsFixes(p) == p = "suggestion"
ConvertDiagnostic(p) == p = "removal"

Fixes(t) ==
  {p \in ProblemsOf[t] : ConvertError(p) \/ SuggestsFixes(p) \/ ConvertDiagnostic(p)}

(* Mutant: the code actions of earlier checks are not reset.               *)
PublishKeepsActions(u, t, valid) ==
  /\ checks' = checks + 1
  /\ published' = [published EXCEPT ![u] = [id |-> checks + 1, text |-> t, valid |-> valid]]
  /\ resolvers' = [resolvers EXCEPT ![u] =
                     IF Fixes(t) = {} THEN @
                     ELSE [id |-> checks + 1, text |-> t, project |-> project]]
  /\ saw' = IF Fixes(t) # {} THEN saw \cup {[uri |-> u, id |-> checks + 1]} ELSE saw

(* The diagnostics of a check of text t go out, and the resolvers of their *)
(* code actions replace those of the check before.                         *)
Publish(u, t, valid) ==
  /\ checks' = checks + 1
  /\ published' = [published EXCEPT ![u] = [id |-> checks + 1, text |-> t, valid |-> valid]]
  /\ resolvers' = [resolvers EXCEPT ![u] =
                     IF Fixes(t) = {} THEN NoResolvers
                     ELSE [id |-> checks + 1, text |-> t, project |-> project]]
  /\ saw' = IF Fixes(t) # {} THEN saw \cup {[uri |-> u, id |-> checks + 1]} ELSE saw

(* Mutant: a checker with errors is not cached, as in the import handler.  *)
CheckCachesClean ==
  /\ checking # None
  /\ LET u == checking
         r == RootCheck(u, {})
     IN  /\ documents[u].text \notin NoProgram
         /\ cache' = IF r.clean THEN (cache \ CachedAt(project, u)) \cup r.puts \cup {r.checker}
                     ELSE cache \cup r.puts
         /\ Publish(u, documents[u].text, r.clean)
         /\ checkedIn' = [checkedIn EXCEPT ![u] = project]
  /\ checking' = None
  /\ reply' = NoReply
  /\ UNCHANGED <<envVars, documents, completionVars, flowVars, mode, initialized, left>>

(* checkAndPublishDiagnostics and getDiagnostics, in the project of now: a *)
(* text without a program only drops the checker; the root checker is      *)
(* cached whatever errors it has.                                          *)
Check ==
  /\ checking # None
  /\ LET u == checking
     IN  IF documents[u].text \in NoProgram
         THEN /\ cache' = cache \ CachedAt(project, u)
              /\ Publish(u, documents[u].text, FALSE)
         ELSE \E contracts \in SUBSET (Loc \ (Doc \cup Builtin)) :
                LET r == RootCheck(u, contracts)
                IN  /\ Imports[documents[u].text] \cap Address = {} => contracts = {}
                    /\ ~Endless(ImportGraph(contracts),
                                ResolvedLocations(documents[u].text, contracts) \ {u})
                    /\ cache' = {c \in cache \cup r.puts : c.project # project \/ c.loc # u}
                                  \cup {r.checker}
                    /\ Publish(u, documents[u].text, r.clean)
  /\ checkedIn' = [checkedIn EXCEPT ![checking] = project]
  /\ checking' = None
  /\ reply' = NoReply
  /\ UNCHANGED <<envVars, documents, completionVars, flowVars, mode, initialized, left>>

(* handleLocation panics when the contract names of an address cannot be   *)
(* had.  The handler ends there, with the imports before that one cached:  *)
(* nothing is published, and the code actions of the document are gone.    *)
(* Only the document's own address imports do this here: those of imported *)
(* files, which may panic too, are left out.                               *)
CheckPanics ==
  /\ checking # None /\ documents[checking].text \notin NoProgram
  /\ Imports[documents[checking].text] \cap Address # {}
  /\ \E before \in SUBSET ((Imports[documents[checking].text] \cap Loc) \ {checking}) :
       LET import == HandleImport(ImportGraph({}), LibOf(documents[checking].text))
       IN  /\ ~Endless(ImportGraph({}), before)
           /\ cache' = cache \cup UNION {import[s].put : s \in before}
  /\ resolvers' = [resolvers EXCEPT ![checking] = NoResolvers]
  /\ checkedIn' = [checkedIn EXCEPT ![checking] = None]
  /\ checking' = None
  /\ reply' = [NoReply EXCEPT !.kind = "panic", !.uri = checking]
  /\ UNCHANGED <<envVars, documents, checks, published, saw, completionVars, flowVars, mode,
                 initialized, left>>

-----------------------------------------------------------------------------
(* Requests about an open document                                         *)

(* checkerForDocument: the cached checker of the project of now, if any.   *)
CheckerForDocument(u) == CachedAt(project, u)

Request(u) ==
  /\ Reading /\ left.requests > 0 /\ u \in open
  /\ left' = [left EXCEPT !.requests = @ - 1]
  /\ UNCHANGED initialized

(* A handler answers from the checker it found, or with nothing.  value is *)
(* what the answer names.                                                  *)
Answer(u, kind, Value(_)) ==
  /\ Request(u)
  /\ reply' = IF CheckerForDocument(u) = {} THEN [NoReply EXCEPT !.kind = "empty", !.uri = u]
              ELSE LET c == CHOOSE c \in CheckerForDocument(u) : TRUE
                   IN  [kind |-> kind, uri |-> u, text |-> c.text, value |-> Value(c)]

ReadOnly == UNCHANGED <<envVars, checkVars, completionVars, flowVars, mode>>

(* The symbols a program has occurrences of: its own and those it imports. *)
Symbols(c) == {c.loc} \cup {d[1] : d \in c.deps}

(* Occurrences.Find, at a position on or just behind a symbol.             *)
Find(c, at) == IF at.after THEN {} ELSE Symbols(c) \cap {at.sym}
FindNear(c, at) == Symbols(c) \cap {at.sym}

(* Hover, and DocumentHighlight and Rename with all occurrences, try the   *)
(* preceding column too; Definition and SignatureHelp do not.              *)
Hover(u, at) == LET V(c) == FindNear(c, at) IN Answer(u, "occurrence", V) /\ ReadOnly
Definition(u, at) == LET V(c) == Find(c, at) IN Answer(u, "occurrence", V) /\ ReadOnly
SignatureHelp(u, at) == LET V(c) == Find(c, at) IN Answer(u, "occurrence", V) /\ ReadOnly
DocumentHighlight(u, at) == LET V(c) == FindNear(c, at) IN Answer(u, "occurrence", V) /\ ReadOnly
Rename(u, at) == LET V(c) == FindNear(c, at) IN Answer(u, "occurrence", V) /\ ReadOnly

(* DocumentSymbol and InlayHint walk the checker's program.                *)
DocumentSymbol(u) == LET V(c) == {c.loc} IN Answer(u, "occurrence", V) /\ ReadOnly
InlayHint(u) == LET V(c) == {c.loc} IN Answer(u, "occurrence", V) /\ ReadOnly

(* An edit that was worked out for text t.                                 *)
Action(t, edit) == [text |-> t, edit |-> edit, at |-> "use"]

(* The declarations that are proposed: a function; a variable or constant, *)
(* before the use; a field.                                                *)
DeclareFunction(t, pos) == [Action(t, "function") EXCEPT !.at = pos]
DeclareVariable(t) == Action(t, "variable")
DeclareField(t, pos) == [Action(t, "field") EXCEPT !.at = pos]

(* The use that resolver r is about is an element of the program of r's    *)
(* check, and found only there; so is the declaration of its type.  The    *)
(* code compares pointers; here a checker that was made again in the same  *)
(* project counts as that of r, which changes the kind of the edit only.   *)
FindsUse(r, c) == c.project = r.project

(* Where a member goes: among the members of its type, or, if the checker  *)
(* c does not know the declaration, to the start of the document.          *)
MemberPosition(r, c) == IF FindsUse(r, c) THEN "members" ELSE "start"

(* maybeAddDeclarationActionsResolver for a function or method that is not *)
(* declared, with the document and the checker c of now.  If the use is    *)
(* not found, it is not known to be a call.                                *)
AddDeclaration(u, r, p, c) ==
  LET t == documents[u].text
  IN  IF p = "method"
      THEN IF FindsUse(r, c) THEN DeclareFunction(t, MemberPosition(r, c))
                             ELSE DeclareField(t, MemberPosition(r, c))
      ELSE IF FindsUse(r, c) THEN DeclareFunction(t, "use") ELSE DeclareVariable(t)

(* The resolver r of a problem p: the others have their edit already.      *)
ActionOf(u, r, p, c) ==
  IF p \in {"function", "method"} THEN AddDeclaration(u, r, p, c) ELSE Action(r.text, p)

(* maybeSplitLinesContainerElementsCodeAction, for what c's program has.   *)
SplitLines(c) == Action(c.text, "split")

(* CodeAction, with the diagnostics the request names, which the client    *)
(* may have got long ago: each action comes from the resolver of its       *)
(* diagnostic, if that is still there.  Invoked explicitly, it also offers *)
(* refactorings.                                                           *)
CodeAction(u, ids, invoked) ==
  /\ LET V(c) == (IF resolvers[u].id \in ids
                  THEN {ActionOf(u, resolvers[u], p, c) : p \in Fixes(resolvers[u].text)} ELSE {})
                   \cup (IF invoked THEN {SplitLines(c)} ELSE {})
     IN  Answer(u, "codeAction", V)
  /\ ReadOnly

(* The integration's codeLenses: its infos of u are brought up to the      *)
(* version of the document, and make their lenses for its client.          *)
UpdatedInfos(u, c) ==
  [contract |-> UpdateInfo(infos[u].contract, "contract", documents[u].version, c.text),
   entry    |-> UpdateInfo(infos[u].entry, "entry", documents[u].version, c.text)]
CodeLenses(u, c) ==
  ContractLenses(client, UpdatedInfos(u, c).contract)
    \cup EntryPointLenses(client, UpdatedInfos(u, c).entry)

(* The signers of lenses, with the addresses they have now.                *)
SignersOfLenses(lenses) ==
  {[name |-> n, addr |-> LET i == GetClientAccount(client, n)
                         IN  IF i = 0 THEN None ELSE client.accounts[i].addr] :
     n \in UNION {Range(l.signers) : l \in lenses}}

(* CodeLens, with the integration as the only provider.                    *)
CodeLens(u) ==
  /\ LET Lenses(c) == CodeLenses(u, c) IN Answer(u, "lens", Lenses)
  /\ infos' = [infos EXCEPT ![u] = IF CheckerForDocument(u) = {} THEN @
                                   ELSE UpdatedInfos(u, CHOOSE c \in CheckerForDocument(u) : TRUE)]
  /\ shown' = shown \cup SignersOfLenses(IF reply'.kind = "lens" THEN reply'.value ELSE {})
  /\ UNCHANGED <<envVars, checkVars, completionVars, client, ready, chain, mode>>

-----------------------------------------------------------------------------
(* Completion                                                              *)

(* Mutant: the members of an earlier completion stay.                      *)
MemberCompletionsKeep(u, found) == IF found = "member" /\ members[u] = 0 THEN completions + 1 ELSE members[u]

(* memberCompletions: the resolvers of the document are dropped, and set   *)
(* to those of a member access at the position.                            *)
MemberCompletions(u, found) == IF found = "member" THEN completions + 1 ELSE 0

(* rangeCompletions, which are asked for only if there are no members.     *)
RangeCompletions(u, found) ==
  IF found = "member" THEN ranges[u] ELSE IF found = "range" THEN completions + 1 ELSE 0

(* Completion: members, or else declarations in range and keywords.    *)
Completion(u, found) ==
  /\ LET V(c) == {found} IN Answer(u, "completion", V)
  /\ IF CheckerForDocument(u) = {} THEN UNCHANGED completionVars
     ELSE /\ completions' = completions + 1
          /\ members' = [members EXCEPT ![u] = MemberCompletions(u, found)]
          /\ ranges' = [ranges EXCEPT ![u] = RangeCompletions(u, found)]
          /\ latest' = [latest EXCEPT ![u] =
                          IF found = "keyword" THEN NoCompletion
                          ELSE [kind |-> found, id |-> completions + 1]]
  /\ UNCHANGED <<envVars, checkVars, flowVars, mode>>

(* maybeResolveMember by name, then maybeResolveRange by number: an item   *)
(* is resolved by the completion that last filled its map.                 *)
ResolvedBy(u, item) == IF item.kind = "member" THEN members[u] ELSE ranges[u]

ResolveCompletionItem(u) ==
  /\ Request(u) /\ latest[u] # NoCompletion
  /\ reply' = [NoReply EXCEPT !.kind = "resolved", !.uri = u,
                              !.value = {ResolvedBy(u, latest[u])} \ {0}]
  /\ ReadOnly

-----------------------------------------------------------------------------
(* Commands and settings                                                   *)

Command ==
  /\ Reading /\ left.commands > 0
  /\ left' = [left EXCEPT !.commands = @ - 1]
  /\ UNCHANGED initialized

Outcome(kind, value) == [NoReply EXCEPT !.kind = kind, !.value = value]

NotReady == ~ready /\ reply' = Outcome("error", {}) /\ UNCHANGED <<client, chain>>

SwitchActiveAccount(name) ==
  /\ Command
  /\ \/ NotReady
     \/ /\ ready
        /\ LET r == SetActiveClientAccount(client, name)
           IN  client' = r.client /\ reply' = Outcome(r.result, {})
        /\ UNCHANGED chain
  /\ UNCHANGED <<envVars, checkVars, completionVars, infos, ready, shown, mode>>

(* createAccount: the chain makes one first, if it does not fail.          *)
CreateAccountCommand ==
  /\ Command
  /\ \/ NotReady
     \/ ready /\ reply' = Outcome("error", {}) /\ UNCHANGED <<client, chain>>
     \/ /\ ready
        /\ chain' = chain + 1
        /\ LET r == CreateAccount(client, chain + 1)
           IN  client' = r.client /\ reply' = Outcome(r.result, {})
  /\ UNCHANGED <<envVars, checkVars, completionVars, infos, ready, shown, mode>>

(* sendTransaction for the signers named: an unknown one is an error.      *)
SendTransaction(names) ==
  /\ Command
  /\ \/ NotReady
     \/ /\ ready
        /\ reply' = IF Absent(client, names) # {} THEN Outcome("error", {})
                    ELSE Outcome("sent", SignersOf(client, names))
        /\ UNCHANGED <<client, chain>>
  /\ UNCHANGED <<envVars, checkVars, completionVars, infos, ready, shown, mode>>

(* deployContract to the account named, or the active one without a name.  *)
DeployContract(names) ==
  /\ Command
  /\ \/ NotReady
     \/ /\ ready
        /\ reply' = IF Absent(client, names) # {} THEN Outcome("error", {})
                    ELSE Outcome("deployed",
                                 SignersOf(client, IF names = << >> THEN ActiveName(client)
                                                   ELSE names))
        /\ UNCHANGED <<client, chain>>
  /\ UNCHANGED <<envVars, checkVars, completionVars, infos, ready, shown, mode>>

(* executeScript needs no account.                                         *)
ExecuteScript ==
  /\ Command
  /\ reply' = Outcome(IF ready THEN "result" ELSE "error", {})
  /\ UNCHANGED <<envVars, checkVars, completionVars, flowVars, mode>>

(* getAccounts: the accounts as they are, the active one marked.           *)
GetAccounts ==
  /\ Command
  /\ reply' = IF ready THEN Outcome("accounts", Accounts(client)) ELSE Outcome("error", {})
  /\ UNCHANGED <<envVars, checkVars, completionVars, flowVars, mode>>

(* getEntryPointParameters, getContractInitializerParameters and           *)
(* parseEntryPointArguments: from the checker, or an error without one.    *)
EntryPointParameters(u) ==
  LET V(c) == IF TextInfo[c.text].entry = "none" THEN {} ELSE {TextInfo[c.text].params}
  IN  Answer(u, "parameters", V) /\ ReadOnly
ContractParameters(u) ==
  LET V(c) == IF TextInfo[c.text].contract = "contract" THEN {TextInfo[c.text].params} ELSE {}
  IN  Answer(u, "parameters", V) /\ ReadOnly
ParseArguments(u, count) ==
  LET V(c) == {count} \cap {IF TextInfo[c.text].entry = "none" THEN 0 ELSE TextInfo[c.text].params}
  IN  Answer(u, "parameters", V) /\ ReadOnly

(* DidChangeConfiguration: for the checks to come.                         *)
DidChangeConfiguration(name) ==
  /\ Command
  /\ mode' = AccessCheckMode(name)
  /\ reply' = Outcome("ok", {})
  /\ UNCHANGED <<envVars, checkVars, completionVars, flowVars>>

-----------------------------------------------------------------------------
(* The user                                                                *)

(* flow.json is written, created or removed.                               *)
WriteFlowJson ==
  /\ left.projects > 0 /\ left' = [left EXCEPT !.projects = @ - 1]
  /\ projects' = projects + 1
  /\ project' \in {0, projects + 1} \ {project}
  /\ reply' = NoReply
  /\ UNCHANGED <<disk, open, checkVars, completionVars, flowVars, mode, initialized>>

WriteFile(l) ==
  /\ left.writes > 0 /\ left' = [left EXCEPT !.writes = @ - 1]
  /\ \E t \in DiskTexts[l] \ {disk[l]} : disk' = [disk EXCEPT ![l] = t]
  /\ reply' = NoReply
  /\ UNCHANGED <<project, projects, open, checkVars, completionVars, flowVars, mode, initialized>>

-----------------------------------------------------------------------------
Positions == [sym : Doc, after : BOOLEAN]
SignerLists == {<< >>} \cup {<<n>> : n \in {Names[1], Names[Len(Names)]}}

Notification(u) ==
  \/ \E t \in DocTexts[u] : DidOpen(u, t) \/ DidChange(u, t)
  \/ DidClose(u)

DocumentRequest(u) ==
  \/ \E at \in Positions : \/ Hover(u, at) \/ Definition(u, at) \/ SignatureHelp(u, at)
                           \/ DocumentHighlight(u, at) \/ Rename(u, at)
  \/ DocumentSymbol(u) \/ InlayHint(u)
  \/ \E ids \in {{}} \cup {{d.id} : d \in {d \in saw : d.uri = u}}, invoked \in BOOLEAN :
       CodeAction(u, ids, invoked)
  \/ CodeLens(u)
  \/ \E found \in {"member", "range", "keyword"} : Completion(u, found)
  \/ ResolveCompletionItem(u)
  \/ EntryPointParameters(u) \/ ContractParameters(u) \/ ParseArguments(u, 0)

ExecuteCommand ==
  \/ \E n \in {Names[i] : i \in DOMAIN Names}
           \cup {x.name : x \in Configured} : SwitchActiveAccount(n)
  \/ CreateAccountCommand
  \/ \E names \in SignerLists : SendTransaction(names) \/ DeployContract(names)
  \/ ExecuteScript \/ GetAccounts

V1Next ==
  \/ Initialize
  \/ \E u \in Doc : Notification(u) \/ DocumentRequest(u)
  \/ Check \/ CheckPanics
  \/ ExecuteCommand
  \/ \E name \in Modes \cup {None} : DidChangeConfiguration(name)
  \/ WriteFlowJson \/ \E l \in Loc : WriteFile(l)

V1Spec == V1Init /\ [][V1Next]_v1Vars

-----------------------------------------------------------------------------
Entry == [version : Nat, decl : Text \cup {None}, pragmas : Text \cup {None}]

(* Type invariant: a project caches at most one checker of a location, the *)
(* client's current account is one of its accounts.                        *)
V1TypeOK ==
  /\ disk \in [Loc -> Text \cup {None}]
  /\ project \in 0 .. projects
  /\ documents \in [Doc -> [text : Text \cup {None}, version : Nat]]
  /\ \A c \in cache : c.project \in Nat /\ c.loc \in Loc /\ c.text \in Text
  /\ \A c, d \in cache : c.project = d.project /\ c.loc = d.loc => c = d
  /\ mode \in Modes
  /\ checking \in Doc \cup {None}
  /\ infos \in [Doc -> [contract : Entry, entry : Entry]]
  /\ client.current \in 0 .. Len(client.accounts)
  /\ ready => client.current # 0

(* Is the document's last check one of this project, and did it end with a *)
(* checker?                                                                *)
CheckedHere(u) ==
  /\ published[u].id # 0 /\ published[u].text = documents[u].text
  /\ checkedIn[u] = project
  /\ documents[u].text \notin NoProgram

(***************************************************************************)
(* A request about a document that was checked in the project of now is    *)
(* answered from the text the client has, whatever was closed, reopened or *)
(* imported before: no import of the document and no earlier check leaves  *)
(* another checker under its key.                                          *)
(***************************************************************************)
AnswersCurrentText ==
  reply.uri \in open /\ reply.kind \in {"occurrence", "completion", "parameters"}
    /\ CheckedHere(reply.uri) => reply.text = documents[reply.uri].text

(***************************************************************************)
(* A check sees an imported document as it is in the editor and not as it  *)
(* is on disk, if that document was checked in the same project.           *)
(***************************************************************************)
ImportsSeeEditor ==
  [][\A u, w \in Doc :
       published'[u].id > published[u].id /\ CheckedHere(w) /\ w # u
         /\ w \in Imports[documents[u].text] /\ documents[u].text \notin NoProgram =>
       \A c \in cache' : c.project = project /\ c.loc = u =>
         <<w, documents[w].text>> \in c.deps]_v1Vars

(***************************************************************************)
(* A code action that is offered for a diagnostic, however old, was made   *)
(* for the text the document has now; if the document was checked in the   *)
(* project of now, so was a refactoring, and an undeclared function gets a *)
(* function and not a variable or field, a method one among its members.   *)
(***************************************************************************)
ActionsOfCurrentText ==
  reply.kind = "codeAction" =>
    \A x \in reply.value :
      /\ x.edit # "split" => x.text = documents[reply.uri].text
      /\ CheckedHere(reply.uri) => /\ x.text = documents[reply.uri].text
                                   /\ x.edit \notin {"variable", "field"}
                                   /\ x.at # "start"

(***************************************************************************)
(* The items of a document's last completion resolve by that completion,   *)
(* after completions in other documents and of the other kind.             *)
(***************************************************************************)
LatestItemsResolve ==
  \A u \in Doc : latest[u] # NoCompletion => ResolvedBy(u, latest[u]) = latest[u].id

(***************************************************************************)
(* The client is shown at most one active account, and it is the one that  *)
(* signs by default; accounts do not share names, so that a name means one *)
(* account, and a lens that was shown still runs as it says.               *)
(***************************************************************************)
OneActiveAccount ==
  /\ \A i \in DOMAIN client.accounts : client.accounts[i].active => client.current = i
  /\ \A i, j \in DOMAIN client.accounts :
       client.accounts[i].name = client.accounts[j].name => i = j
  /\ \A s \in shown : \E a \in Accounts(client) : a.name = s.name /\ a.addr = s.addr
=============================================================================
