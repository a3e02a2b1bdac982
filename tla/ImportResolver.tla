--------------------------- MODULE ImportResolver ---------------------------
(***************************************************************************)
(* The import resolvers of languageserver/resolver as lsp-v2 composes them *)
(* (cmd/lsp-v2/main.go): FlowJSONResolver, then FileResolver.  A location  *)
(* is what an import has in its source, a contract name ("name"), the path *)
(* of a file ("path"), an address location ("address") or the URI of a     *)
(* document ("uri": file:///....cdc, which no resolver makes a path of).   *)
(* ResolveImport of a name has two critical sections, ensureLoaded and the *)
(* lookup, between which flow.json and the resolver may change.            *)
(*                                                                         *)
(* The user's files are the environment.  Every write of flow.json gives   *)
(* it a new modification time.                                             *)
(***************************************************************************)
EXTENDS Integers

CONSTANTS
  Loc,         \* import locations
  KindOf,      \* [Loc -> Kind]
  Existing,    \* the places where there is a source file
  Versions,    \* what the user makes of flow.json: [state, manual, installed]
  MaxWrites    \* bound on writes of flow.json

Kind == {"name", "path", "address", "uri"}

Name == {l \in Loc : KindOf[l] = "name"}

FileState == {"missing", "denied", "broken", "good"}

ASSUME ResolverAssumption ==
  /\ KindOf \in [Loc -> Kind]
  /\ Versions \subseteq [state : FileState, manual : SUBSET Name, installed : SUBSET Name]
  /\ MaxWrites \in Nat

(* A contract's file: listed under "contracts", or under "dependencies"    *)
(* (imports/<address>/<name>.cdc); a path is its own file.                 *)
Place == (Name \X {"manual", "installed"})
           \cup {<<l, "path">> : l \in {l \in Loc : KindOf[l] = "path"}}

VARIABLES
  flowJson,   \* the file: [state, mtime, manual, installed]
  writes,     \* writes so far
  resolver    \* FlowJSONResolver: [nil, paths, loadErr, lastMod]

fileVars == <<flowJson, writes>>
resolverVars == <<fileVars, resolver>>

FlowJsonFile ==
  [state : FileState, mtime : 0 .. MaxWrites + 1, manual : SUBSET Name,
   installed : SUBSET Name]

NoPaths == [n \in Name |-> "none"]

(* NewFlowJSONResolver: no map, the zero time.                             *)
NewFlowJSONResolver ==
  [nil |-> TRUE, paths |-> NoPaths, loadErr |-> "none", lastMod |-> 0]

-----------------------------------------------------------------------------
(* What a flow.json maps a name to: its contracts section takes precedence *)
(* over its dependencies.  A dependency without an address in its source   *)
(* or its aliases is not one of installed.                                 *)
PathsOf(file) ==
  [n \in Name |-> IF n \in file.manual THEN "manual"
                  ELSE IF n \in file.installed THEN "installed"
                  ELSE "none"]

(* Mutant: an error is not forgotten when the file is read again.          *)
EnsureLoadedKeepsErr(r, file) ==
  CASE file.state = "missing" ->
         [nil |-> TRUE, paths |-> NoPaths, loadErr |-> "notFound", lastMod |-> 0]
    [] file.state = "denied" -> r
    [] file.state \notin {"missing", "denied"} /\ file.mtime = r.lastMod /\ ~r.nil -> r
    [] OTHER ->
         IF file.state = "broken"
         THEN [r EXCEPT !.loadErr = "error", !.lastMod = file.mtime]
         ELSE [r EXCEPT !.nil = FALSE, !.paths = PathsOf(file),
                        !.lastMod = file.mtime]

(* ensureLoaded, as it changes the resolver: the modification time is      *)
(* recorded before the read and the parse that may fail, and a failure     *)
(* leaves the map as it was.                                               *)
EnsureLoaded(r, file) ==
  CASE file.state = "missing" ->
         [nil |-> TRUE, paths |-> NoPaths, loadErr |-> "notFound", lastMod |-> 0]
    [] file.state = "denied" -> r
    [] file.state \notin {"missing", "denied"} /\ file.mtime = r.lastMod /\ ~r.nil -> r
    [] OTHER ->
         IF file.state = "broken"
         THEN [r EXCEPT !.loadErr = "error", !.lastMod = file.mtime]
         ELSE [nil |-> FALSE, paths |-> PathsOf(file), loadErr |-> "none",
               lastMod |-> file.mtime]

(* The error ensureLoaded returns: that of os.Stat, or the one it records. *)
EnsureLoadedErr(r, file) ==
  IF file.state = "denied" THEN "error" ELSE EnsureLoaded(r, file).loadErr

(* FileResolver.ResolveImport: os.ReadFile of the text of the import, so   *)
(* only a path finds a file.                                               *)
ResolveFile(l) ==
  KindOf[l] = "path" /\ <<l, "path">> \in Existing

(* The second half of FlowJSONResolver.ResolveImport: the map is looked up *)
(* (a nil map holds nothing) and the file is read.                         *)
LookupContract(r, l) ==
  ~r.nil /\ <<l, r.paths[l]>> \in Existing

(* CompositeResolver.ResolveImport for l if flow.json were file and read   *)
(* afresh: is a source found?                                              *)
ResolveAfresh(file, l) ==
  IF KindOf[l] = "name"
  THEN file.state = "good"
         /\ LookupContract(EnsureLoaded(NewFlowJSONResolver, file), l)
  ELSE ResolveFile(l)

-----------------------------------------------------------------------------
(* The user writes, breaks, hides or removes flow.json.                    *)
WriteFlowJson ==
  /\ writes < MaxWrites
  /\ \E c \in Versions :
       flowJson' = [state |-> c.state, mtime |-> writes + 2, manual |-> c.manual,
                    installed |-> c.installed]
  /\ writes' = writes + 1
  /\ UNCHANGED resolver

(* The server starts in a project with a good or a broken flow.json.       *)
ResolverInit ==
  /\ \E s \in {"good", "broken"} :
       flowJson = [state |-> s, mtime |-> 1, manual |-> Name, installed |-> Name]
  /\ writes = 0
  /\ resolver = NewFlowJSONResolver
=============================================================================
