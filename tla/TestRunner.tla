----------------------------- MODULE TestRunner -----------------------------
(***************************************************************************)
(* TestRunner (test/test_runner.go): it runs the functions of Cadence test *)
(* scripts, one script after the other, on one EmulatorBackend that it     *)
(* keeps as long as the network stays the same.  Everything is sequential; *)
(* what is hard is what one test, or one script, leaves to the next.       *)
(*                                                                         *)
(* A script is [pragma, tests, hooks, imports]: its test_fork pragma (None *)
(* without one; one that is malformed names a network that is not in       *)
(* Hosts), its test functions in the order of the file, those of setup,    *)
(* beforeEach, afterEach and tearDown that it declares, and the contracts  *)
(* it imports.  What its functions do is open: any calls of the backend.   *)
(***************************************************************************)
EXTENDS EmulatorBackend, FiniteSets

CONSTANTS
  Scripts,          \* the scripts
  Configurations,   \* WithNetworkLabel and WithFork: [label, fork]
  Hosts,            \* the networks that the networkResolver knows, None without
                    \* one; a network's host has its name
  ImportFiles,      \* pairs <<network label, contract>>: what the importResolver
                    \* has a source of
  Shuffled,         \* values of randomSeed > 0
  MaxRuns, MaxCalls

(* The networks that a session may meet, and a backend of one of them.     *)
Network ==
  Hosts \cup {c.label : c \in Configurations}
        \cup {c.fork.host : c \in {d \in Configurations : d.fork # None}}
Backend ==
  [label : Network, host : Network \cup {None}, offset : Nat, known : SUBSET Nat,
   time : Nat, forkStart : Nat, chain : Chain]

ASSUME RunnerAssumption ==
  /\ Shuffled \subseteq BOOLEAN /\ {MaxRuns, MaxCalls} \subseteq Nat
  /\ None \notin Hosts /\ None \notin Scripts
  /\ None \notin [host : Hosts, height : Nat] /\ None \notin Backend
  /\ \A c \in Configurations :
       c.fork # None => c.fork.host # None /\ c.fork.height \in Nat
  /\ \A s \in Scripts :
       /\ s.tests \in Seq(ToSet(s.tests)) /\ IsInjective(s.tests)
       /\ s.pragma # None => s.pragma.height \in Nat

VARIABLES
  config,    \* how the runner was made
  runner,    \* r.networkLabel and r.forkConfig: [label, fork]
  backend,   \* r.backend, or None
  script,    \* the script that is running, or None
  phase,     \* the function it is in: [name, single]; single for RunTest
  todo,      \* the test functions that are left, the current one first
  testErr,   \* did the current test function fail?
  results,   \* results so far: a sequence of [test, ok]
  runs, calls,   \* scripts run and backend calls made so far
  reply,     \* what the last step returned: [kind, value]
  \* history
  trace,     \* the functions this script has invoked: [name, ok]
  skewed     \* the offset may differ from the pending block

runVars == <<script, phase, todo, testErr, results, trace>>
runnerVars == <<config, runner, backend, runVars, runs, calls, reply, skewed>>

NoPhase == [name |-> "idle", single |-> FALSE]
NoReply == [kind |-> "none", value |-> << >>]

(* NewTestRunner and its options.                                          *)
RunnerInit ==
  /\ config \in Configurations
  /\ runner = config
  /\ backend = None
  /\ script = None
  /\ phase = NoPhase
  /\ todo = << >>
  /\ testErr = FALSE
  /\ results = << >>
  /\ runs = 0 /\ calls = 0
  /\ reply = NoReply
  /\ trace = << >>
  /\ skewed = FALSE

-----------------------------------------------------------------------------
(* parseCheckAndInterpret                                                  *)

(* replaceImports: an import with a known address becomes an address       *)
(* import.                                                                 *)
ReplaceImport(b, name) == IF Resolves(b, name) THEN "address" ELSE "name"

(* parseAndCheckImport on backend b: the source comes from the             *)
(* importResolver, which is asked with the network's label only on a fork, *)
(* or else, for an address import, from the chain.                         *)
Importable(b, name) ==
  LET network == IF Fork(b) /\ b.label # None THEN b.label ELSE "testing"
  IN  \/ <<network, name>> \in ImportFiles
      \/ /\ ReplaceImport(b, name) = "address"
         /\ name \in Latest(b.chain).ledger.deployed \cup Builtin

(* Mutant: the backend stays when the network changes.                     *)
KeepBackend(s) == backend # None

(* Does initializeEnvironment keep the framework and its backend?          *)
KeepsBackend(s) == backend # None /\ (s.pragma = None \/ backend.label = s.pragma.network)

(* extractForkPragma, and the networkResolver's answer: a pragma that is   *)
(* malformed, or names an unknown network, is refused.                     *)
PragmaFits(s) == s.pragma = None \/ s.pragma.network \in Hosts

(* initializeEnvironment, from the pragma, which may be refused, to the    *)
(* backend; forking may fail, with the old backend gone already.           *)
Environments(s) ==
  LET bad  == [ok |-> FALSE, fresh |-> FALSE, runner |-> runner, backend |-> backend]
      r    == IF s.pragma = None THEN runner
              ELSE [label |-> s.pragma.network,
                    fork  |-> [host |-> s.pragma.network, height |-> s.pragma.height]]
      kept == [ok |-> TRUE, fresh |-> FALSE, runner |-> r,
               backend |-> [backend EXCEPT !.label = r.label]]
      new  == [ok |-> TRUE, fresh |-> TRUE, runner |-> r, backend |-> NewBackend(r.label, r.fork)]
      lost == [ok |-> FALSE, fresh |-> TRUE, runner |-> r, backend |-> None]
  IN  IF ~PragmaFits(s) THEN {bad}
      ELSE IF KeepsBackend(s) THEN {kept}
      ELSE IF r.fork = None THEN {new} ELSE {new, lost}

Usable(e, s) == e.ok /\ \A i \in s.imports : Importable(e.backend, i)

(* A script is parsed and checked; one that does not parse or check, or    *)
(* whose imports are not there, leaves the environment as it made it.      *)
(* What follows for one that is usable is the action accepted.             *)
Prepare(s, accepted) ==
  /\ script = None /\ runs < MaxRuns
  /\ runs' = runs + 1
  /\ \/ reply' = [NoReply EXCEPT !.kind = "error"] /\ UNCHANGED <<runner, backend, runVars, skewed>>
     \/ \E e \in Environments(s) :
          /\ runner' = e.runner
          /\ backend' = e.backend
          /\ skewed' = (skewed /\ ~e.fresh)
          /\ \/ /\ ~Usable(e, s)
                /\ reply' = [NoReply EXCEPT !.kind = "error"]
                /\ UNCHANGED runVars
             \/ /\ Usable(e, s)
                /\ accepted
  /\ UNCHANGED <<config, calls>>

(* GetTests: the names of the test functions.                              *)
GetTests(s) ==
  Prepare(s, reply' = [kind |-> "tests", value |-> s.tests] /\ UNCHANGED runVars)

Begin(s, tests, single) ==
  /\ script' = s
  /\ phase' = [name |-> "setup", single |-> single]
  /\ todo' = tests
  /\ testErr' = FALSE
  /\ results' = << >>
  /\ trace' = << >>
  /\ reply' = NoReply

(* RunTests: all test functions, perhaps shuffled.                         *)
RunTests(s) ==
  Prepare(s, \E shuffle \in Shuffled :
               \E order \in IF shuffle THEN SetToSeqs(ToSet(s.tests)) ELSE {s.tests} :
                 Begin(s, order, FALSE))

(* RunTest: one of them.                                                   *)
RunTest(s) ==
  Prepare(s, \E t \in ToSet(s.tests) : Begin(s, <<t>>, TRUE))

-----------------------------------------------------------------------------
(* The functions of a script                                               *)

Running == script # None

(* The run is over, with its results or (kind "error") without.            *)
Done(kind, value) ==
  /\ script' = None
  /\ phase' = NoPhase
  /\ todo' = << >>
  /\ testErr' = FALSE
  /\ results' = << >>
  /\ reply' = [kind |-> kind, value |-> value]

Goto(name, left) ==
  /\ phase' = [phase EXCEPT !.name = name]
  /\ todo' = left
  /\ reply' = NoReply
  /\ UNCHANGED script

NextTest(left) == IF left = << >> THEN "tearDown" ELSE "beforeEach"

(* Mutant: one err for a test function and its afterEach, of which the     *)
(* result is that of the last.                                             *)
AfterwardsSharesErr(ok) ==
  IF ~ok /\ phase.name \notin {"test", "tearDown"} THEN Done("error", << >>)
  ELSE CASE phase.name = "setup" -> Goto(NextTest(todo), todo) /\ UNCHANGED <<testErr, results>>
       [] phase.name = "beforeEach" -> Goto("test", todo) /\ UNCHANGED <<testErr, results>>
       [] phase.name = "test" -> Goto("afterEach", todo) /\ testErr' = ~ok /\ UNCHANGED results
       [] phase.name = "afterEach" ->
            /\ Goto(NextTest(Tail(todo)), Tail(todo))
            /\ results' = Append(results, [test |-> Head(todo), ok |-> ok])
            /\ UNCHANGED testErr
       [] phase.name = "tearDown" -> Done("results", results)

(* What RunTests and RunTest do after a function: a failing test function  *)
(* is a result, a failing hook ends the run without results, a failing     *)
(* tearDown is an error beside the results.                                *)
Afterwards(ok) ==
  IF ~ok /\ phase.name \notin {"test", "tearDown"} THEN Done("error", << >>)
  ELSE CASE phase.name = "setup" -> Goto(NextTest(todo), todo) /\ UNCHANGED <<testErr, results>>
       [] phase.name = "beforeEach" -> Goto("test", todo) /\ UNCHANGED <<testErr, results>>
       [] phase.name = "test" -> Goto("afterEach", todo) /\ testErr' = ~ok /\ UNCHANGED results
       [] phase.name = "afterEach" ->
            /\ Goto(NextTest(Tail(todo)), Tail(todo))
            /\ results' = Append(results, [test |-> Head(todo), ok |-> ~testErr])
            /\ UNCHANGED testErr
       [] phase.name = "tearDown" -> Done("results", results)

Name == IF phase.name = "test" THEN Head(todo) ELSE phase.name
Declared == phase.name = "test" \/ phase.name \in script.hooks

(* invokeTestFunction returns: the function ended, or failed for an error  *)
(* or an internal panic.                                                   *)
Return(ok) ==
  /\ Running /\ Declared
  /\ trace' = Append(trace, [name |-> Name, ok |-> ok])
  /\ Afterwards(ok)
  /\ UNCHANGED <<config, runner, backend, runs, calls, skewed>>

(* A hook that the script does not declare.                                *)
SkipHook ==
  /\ Running /\ ~Declared
  /\ Afterwards(TRUE)
  /\ UNCHANGED <<config, runner, backend, runs, calls, trace, skewed>>

(* RunTest invokes its test function without a recovery of its own: an     *)
(* internal panic ends the run there.                                      *)
SingleTestPanics ==
  /\ Running /\ phase.single /\ phase.name = "test"
  /\ trace' = Append(trace, [name |-> Name, ok |-> FALSE])
  /\ Done("error", << >>)
  /\ UNCHANGED <<config, runner, backend, runs, calls, skewed>>

-----------------------------------------------------------------------------
(* Calls of the backend from a running function                            *)

Calling == Running /\ Declared /\ calls < MaxCalls /\ calls' = calls + 1

(* The call's outcome r; a panic, or an error that the framework turns     *)
(* into one, fails the function (Return).  skew says what becomes of the   *)
(* agreement of offset and pending block.                                  *)
Called(r, skew) ==
  /\ backend' = r.backend
  /\ reply' = [NoReply EXCEPT !.kind = r.result]
  /\ skewed' = skew
  /\ UNCHANGED <<config, runner, runVars, runs>>

Pending == backend.chain.pending.txs # << >>

(* Arguments that cannot be exported, or an unknown signer, are an error.  *)
AddTransactionCall(code) ==
  /\ Calling
  /\ \/ Called(AddTransaction(backend, code), skewed)
     \/ Called(Outcome("error", backend), skewed)
ExecuteNextCall == Calling /\ Called(ExecuteNextTransaction(backend), skewed)

(* A commit resets the offset and, if it succeeds, the block: they agree   *)
(* again.  If it is refused they no longer do.                             *)
CommitBlockCall ==
  /\ Calling
  /\ LET r == CommitBlock(backend) IN Called(r, r.result # "ok")

DeployContractCall(name) ==
  /\ Calling
  /\ LET r == DeployContract(backend, name)
     IN  Called(r, IF r.result = "ok" THEN FALSE
                   ELSE skewed \/ r.backend.offset # Len(r.backend.chain.pending.txs))

(* A snapshot, or a new account, while transactions are pending empties    *)
(* the block behind the offset's back.                                     *)
CreateAccountCall ==
  Calling /\ Called(CreateAccount(backend), skewed \/ Pending)
CreateSnapshotCall(n) ==
  Calling /\ Called(CreateSnapshot(backend, n), skewed \/ Pending)
LoadSnapshotCall(n) ==
  /\ Calling
  /\ LET r == LoadSnapshot(backend, n)
     IN  Called(r, skewed \/ (r.result = "ok" /\ Pending))

ResetCall(height) ==
  /\ Calling
  /\ LET r == Reset(backend, height) IN Called(r, IF r.result = "ok" THEN FALSE ELSE skewed)
MoveTimeCall ==
  /\ Calling
  /\ LET r == MoveTime(backend) IN Called(r, r.result # "ok")

(* RunScript, GetAccount, Events and the value of an imported contract     *)
(* only read; a contract that is not deployed yet is a panic.              *)
RunScriptCall == Calling /\ Called(Outcome("value", backend), skewed)
GetAccountCall(a) ==
  Calling /\ Called(Outcome(IF GetAccount(backend, a) THEN "ok" ELSE "error", backend), skewed)
EventsCall ==
  /\ Calling
  /\ reply' = [kind |-> "events", value |-> Events(backend)]
  /\ UNCHANGED <<config, runner, backend, runVars, runs, skewed>>
ContractValueCall(name) ==
  /\ Calling /\ name \in script.imports
  /\ Called(Outcome(IF name \in Latest(backend.chain).ledger.deployed THEN "value" ELSE "panic",
                    backend), skewed)

Transactions ==
  \/ \E code \in Code : AddTransactionCall(code)
  \/ ExecuteNextCall \/ CommitBlockCall \/ CreateAccountCall \/ MoveTimeCall
  \/ \E name \in Contract : DeployContractCall(name) \/ ContractValueCall(name)
  \/ \E n \in Snapshot : CreateSnapshotCall(n) \/ LoadSnapshotCall(n)
  \/ \E h \in 0 .. RemoteHeight + 1 : ResetCall(h)
  \/ RunScriptCall \/ EventsCall \/ \E a \in 0 .. InitialAccounts + 1 : GetAccountCall(a)

RunnerNext ==
  \/ \E s \in Scripts : GetTests(s) \/ RunTests(s) \/ RunTest(s)
  \/ \E ok \in BOOLEAN : Return(ok)
  \/ SkipHook \/ SingleTestPanics
  \/ Transactions

RunnerSpec == RunnerInit /\ [][RunnerNext]_runnerVars

-----------------------------------------------------------------------------
(* Type invariant: a script runs on a backend, and a backend's pending     *)
(* block goes on from its last block.                                      *)
RunnerTypeOK ==
  /\ Running => backend # None /\ script \in Scripts
  /\ phase.name \in {"idle", "setup", "beforeEach", "test", "afterEach", "tearDown"}
  /\ phase.name = "test" => todo # << >>
  /\ backend # None =>
       /\ backend \in Backend
       /\ backend.chain.pending.done <= Len(backend.chain.pending.txs)
       /\ backend.label = runner.label
       /\ backend.chain.pending.done = 0 =>
            backend.chain.pending.ledger = Latest(backend.chain).ledger

(***************************************************************************)
(* The comment on blockOffset: it is the number of transactions in the     *)
(* pending block, whose transactions have consecutive sequence numbers     *)
(* from that of the service key on, so that none fails for its number.     *)
(* This holds whatever tests and scripts did before, unless since the last *)
(* commit or reset a commit was refused or the pending block was dropped   *)
(* by a snapshot or taken by an account's creation.                        *)
(***************************************************************************)
OffsetTracksBlock ==
  backend # None /\ ~skewed =>
    LET p == backend.chain.pending
    IN  /\ backend.offset = Len(p.txs)
        /\ \A i \in DOMAIN p.txs : p.txs[i].seq = Latest(backend.chain).ledger.seq + i - 1
        /\ reply.kind # "sequence"

(***************************************************************************)
(* A script with a test_fork pragma runs on a fork of the network that it  *)
(* names, whatever ran before, if the runner's own label and fork agreed.  *)
(***************************************************************************)
ForkFits ==
  Running /\ script.pragma # None
    /\ (config.fork = None => config.label \notin Hosts)
    /\ (config.fork # None => config.fork.host = config.label) =>
  backend.host = script.pragma.network

(***************************************************************************)
(* Events are those of the blocks made here, all of them and in order, and *)
(* none of the forked network, after any rollbacks and snapshots.          *)
(***************************************************************************)
EventsLocal ==
  reply.kind = "events" =>
    reply.value = FlattenSeq([i \in DOMAIN backend.chain.blocks |->
                    IF backend.chain.blocks[i].local THEN backend.chain.blocks[i].events
                    ELSE << >>])

(* The functions a run with results has to invoke, in order, for s.        *)
Hook(s, name) == IF name \in s.hooks THEN <<name>> ELSE << >>
Expected(s, tests) ==
  Hook(s, "setup")
    \o FlattenSeq([i \in DOMAIN tests |->
         Hook(s, "beforeEach") \o <<tests[i].test>> \o Hook(s, "afterEach")])
    \o Hook(s, "tearDown")

(***************************************************************************)
(* A run that gives results has invoked setup, each test function between  *)
(* its hooks, and tearDown, in that order; it has a result for each test   *)
(* function, which is that of its own invocation, and a failing one has    *)
(* kept none of the others from running.                                   *)
(***************************************************************************)
ResultsComplete ==
  [][reply'.kind = "results" =>
       /\ [i \in DOMAIN trace' |-> trace'[i].name] = Expected(script, results)
       /\ phase.single \/ {results[i].test : i \in DOMAIN results} = ToSet(script.tests)
       /\ \A i \in DOMAIN results : \E j \in DOMAIN trace' :
            trace'[j] = [name |-> results[i].test, ok |-> results[i].ok]]_runnerVars
=============================================================================
