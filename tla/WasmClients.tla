---------------------------- MODULE WasmClients ----------------------------
(***************************************************************************)
(* The npm package of the v1 server: CadenceLanguageServer                 *)
(* (npm-packages/cadence-language-server/src/index.ts) and the WebAssembly *)
(* program it runs (languageserver/cmd/languageserver/main_wasm.go), which *)
(* serves every client of the page, each under a number.                   *)
(*                                                                         *)
(* There is one thread.  A call of a Go function runs the program until    *)
(* all of its goroutines wait, so that a message is handled inside the     *)
(* call that sends it; Go in turn calls the client's callbacks, and these  *)
(* may call Go again.  Clients are created concurrently: create awaits the *)
(* binary.  The class has one Go object, whose functions resume the        *)
(* program that was run last.                                              *)
(*                                                                         *)
(* Left out: what a global function of a replaced program does, callbacks  *)
(* of onServerClose that throw, and the requests the server sends itself.  *)
(***************************************************************************)
EXTENDS Integers, FiniteSets, SequencesExt

CONSTANTS
  Client,       \* calls of create
  None,
  MaxCalls,     \* bound on the calls of the clients' functions
  MaxCallbacks  \* bound on the callbacks of the handlers

ASSUME WasmAssumption ==
  IsFiniteSet(Client) /\ None \notin Client /\ {MaxCalls, MaxCallbacks} \subseteq Nat

Id == 1 .. Cardinality(Client)

VARIABLES
  loaded,     \* CadenceLanguageServer.loaded
  clients,    \* [Client -> [pc, id, closed, home]]: isClientClosed, and the
              \* program its server was started in
  programs,   \* programs run so far: the last one is the one that runs
  exited,     \* go.exited
  started,    \* the program's counter of servers
  toServer,   \* the numbers under which there is a toServer function
  owner,      \* [Id -> the client whose callbacks the globals call]
  conn,       \* [Id -> "open", "closing" or "closed"]: the program's connections
  stack,      \* the handlers in progress, each in the last one's callback
  calls, callbacks,  \* counts of the bounded events
  told,       \* history: calls of a client's onServerClose
  overlap     \* history: was a program run over another one?

pageVars == <<loaded, programs, started, owner, overlap>>
wasmVars == <<pageVars, clients, exited, toServer, conn, stack, calls, callbacks, told>>

NoClient == [pc |-> "none", id |-> 0, closed |-> FALSE, home |-> 0]

WasmInit ==
  /\ loaded = FALSE /\ programs = 0 /\ exited = FALSE /\ started = 0
  /\ clients = [c \in Client |-> NoClient]
  /\ toServer = {}
  /\ owner = [i \in Id |-> None]
  /\ conn = [i \in Id |-> "closed"]
  /\ stack = << >>
  /\ calls = 0 /\ callbacks = 0
  /\ told = [c \in Client |-> 0]
  /\ overlap = FALSE

(* A connection is closed once its context is cancelled and no write of    *)
(* its handler holds the lock for sending.                                 *)
CanClose(i) ==
  /\ conn[i] = "closing" /\ ~exited
  /\ \A n \in DOMAIN stack : stack[n].id # i \/ stack[n].in # "toClient"

(* JavaScript runs when all goroutines wait, or inside a callback.         *)
JSRuns ==
  IF stack = << >> THEN \A i \in Id : ~CanClose(i) ELSE Last(stack).in # "go"

-----------------------------------------------------------------------------
(* Creation                                                                *)

(* Mutant: the names of the globals do not hold the number.                *)
ConstructOne(c, p, n) ==
  /\ started' = 1
  /\ clients' = [clients EXCEPT ![c] =
                   [pc |-> "open", id |-> 1, closed |-> FALSE, home |-> p]]
  /\ toServer' = toServer \cup {1}
  /\ owner' = [owner EXCEPT ![1] = c]

(* The constructor, in program p that has started n servers: start makes   *)
(* the server's first toServer function before it returns, and the client's *)
(* callbacks become the globals of its number.                             *)
Construct(c, p, n) ==
  /\ started' = n + 1
  /\ clients' = [clients EXCEPT ![c] =
                   [pc |-> "open", id |-> n + 1, closed |-> FALSE, home |-> p]]
  /\ toServer' = toServer \cup {n + 1}
  /\ owner' = [owner EXCEPT ![n + 1] = c]

(* create, up to ensureLoaded's await, or to the end if a program has been *)
(* loaded; one that has exited fails it.                                   *)
Create(c) ==
  /\ stack = << >> /\ JSRuns /\ clients[c].pc = "none"
  /\ IF loaded /\ ~exited
     THEN /\ Construct(c, programs, started)
          /\ conn' = [conn EXCEPT ![started + 1] = "open"]
     ELSE /\ clients' = [clients EXCEPT ![c].pc = IF loaded THEN "failed" ELSE "loading"]
          /\ UNCHANGED <<started, toServer, owner, conn>>
  /\ UNCHANGED <<loaded, programs, overlap, exited, stack, calls, callbacks, told>>

(* The binary is there: run it, in place of a program that another create  *)
(* has run meanwhile, and go on with the constructor.                      *)
LoadDone(c) ==
  /\ stack = << >> /\ JSRuns /\ clients[c].pc = "loading"
  /\ programs' = programs + 1
  /\ overlap' = (overlap \/ programs > 0)
  /\ exited' = FALSE
  /\ loaded' = TRUE
  /\ Construct(c, programs + 1, 0)
  /\ conn' = [i \in Id |-> IF i = 1 THEN "open" ELSE "closed"]
  /\ UNCHANGED <<stack, calls, callbacks, told>>

(* It cannot be had: create rejects, and a later one loads again.          *)
LoadFails(c) ==
  /\ stack = << >> /\ JSRuns /\ clients[c].pc = "loading"
  /\ clients' = [clients EXCEPT ![c].pc = "failed"]
  /\ UNCHANGED <<pageVars, exited, toServer, conn, stack, calls, callbacks, told>>

-----------------------------------------------------------------------------
(* Messages                                                                *)

(* A client calls one of its functions.                                    *)
Calls(c) ==
  /\ JSRuns /\ clients[c].pc = "open" /\ calls < MaxCalls
  /\ calls' = calls + 1

(* Does i name a server of the running program?                            *)
Running(i) == ~exited /\ i <= started

(* Mutant: the function can be called again.                               *)
SendKeeps(c) ==
  LET i == clients[c].id
  IN  /\ Calls(c) /\ Running(i) /\ i \in toServer
      /\ stack' = Append(stack, [id |-> i, from |-> c, in |-> "go"])
      /\ UNCHANGED <<pageVars, clients, exited, toServer, conn, callbacks, told>>

(* The function is deleted as it takes the message, and the server's read  *)
(* returns: the handler begins.                                            *)
Send(c) ==
  LET i == clients[c].id
  IN  /\ Calls(c) /\ Running(i) /\ i \in toServer
      /\ toServer' = toServer \ {i}
      /\ stack' = Append(stack, [id |-> i, from |-> c, in |-> "go"])
      /\ UNCHANGED <<pageVars, clients, exited, conn, callbacks, told>>

(* No function under this number, or the program has exited: the call      *)
(* throws, and nothing reaches the program.                                *)
SendThrows(c) ==
  /\ Calls(c)
  /\ exited \/ clients[c].id \notin toServer
  /\ UNCHANGED <<pageVars, clients, exited, toServer, conn, stack, callbacks, told>>

Told(i) == told' = [told EXCEPT ![owner[i]] = @ + 1]

(* Mutant: every failed read tells the client that the server has closed.  *)
SendBadTells(c) ==
  LET i == clients[c].id
  IN  /\ Calls(c) /\ Running(i) /\ i \in toServer
      /\ toServer' = toServer \ {i}
      /\ conn' = [conn EXCEPT ![i] = "closed"]
      /\ Told(i)
      /\ UNCHANGED <<pageVars, clients, exited, stack, callbacks>>

(* An error, or something that does not parse, fails the read: the server  *)
(* reads no more, and closes its connection unless this is done.           *)
SendBad(c) ==
  LET i == clients[c].id
  IN  /\ Calls(c) /\ Running(i) /\ i \in toServer
      /\ toServer' = toServer \ {i}
      /\ conn' = [conn EXCEPT ![i] = "closed"]
      /\ IF conn[i] = "closed" THEN UNCHANGED told ELSE Told(i)
      /\ UNCHANGED <<pageVars, clients, exited, stack, callbacks>>

(* The notification "exit" of one client ends the program of all.          *)
Exit(c) ==
  LET i == clients[c].id
  IN  /\ Calls(c) /\ Running(i) /\ i \in toServer
      /\ toServer' = toServer \ {i}
      /\ exited' = TRUE
      /\ stack' = << >>
      /\ UNCHANGED <<pageVars, clients, conn, callbacks, told>>

(* The last handler calls a global of its client: toClient, for which the  *)
(* connection must not be closed, or the resolver of an import.            *)
Callback(f) ==
  /\ stack # << >> /\ Last(stack).in = "go" /\ callbacks < MaxCallbacks
  /\ f = "toClient" => conn[Last(stack).id] # "closed"
  /\ callbacks' = callbacks + 1
  /\ stack' = [stack EXCEPT ![Len(stack)].in = f]
  /\ UNCHANGED <<pageVars, clients, exited, toServer, conn, calls, told>>

CallbackReturns ==
  /\ stack # << >> /\ Last(stack).in # "go"
  /\ stack' = [stack EXCEPT ![Len(stack)].in = "go"]
  /\ UNCHANGED <<pageVars, clients, exited, toServer, conn, calls, callbacks, told>>

(* The handler is over, and the read after it makes a new function, even   *)
(* if the connection has been closed meanwhile.                            *)
HandlerEnds ==
  /\ stack # << >> /\ Last(stack).in = "go"
  /\ toServer' = toServer \cup {Last(stack).id}
  /\ stack' = Front(stack)
  /\ UNCHANGED <<pageVars, clients, exited, conn, calls, callbacks, told>>

(* Mutant: the panic ends the read loop with the handler.                  *)
CallbackThrowsEnds ==
  /\ stack # << >> /\ Last(stack).in # "go"
  /\ stack' = Front(stack)
  /\ UNCHANGED <<pageVars, clients, exited, toServer, conn, calls, callbacks, told>>

(* An exception of the callback is a panic in Go, which Handle recovers:   *)
(* the handler ends without a reply, and the server reads on.              *)
CallbackThrows ==
  /\ stack # << >> /\ Last(stack).in # "go"
  /\ toServer' = toServer \cup {Last(stack).id}
  /\ stack' = Front(stack)
  /\ UNCHANGED <<pageVars, clients, exited, conn, calls, callbacks, told>>

-----------------------------------------------------------------------------
(* Closing                                                                 *)

(* onClientClose, the first time: cancels the server's context.  It throws *)
(* if the program has exited.                                              *)
OnClientClose(c) ==
  LET i == clients[c].id
  IN  /\ Calls(c) /\ ~clients[c].closed /\ (exited \/ Running(i))
      /\ clients' = [clients EXCEPT ![c].closed = TRUE]
      /\ conn' = IF ~exited /\ conn[i] = "open" THEN [conn EXCEPT ![i] = "closing"] ELSE conn
      /\ UNCHANGED <<pageVars, exited, toServer, stack, callbacks, told>>

(* start, whose context is done: Stop closes the stream, which tells the   *)
(* client.  The read that waits stays, with its function.                  *)
CloseStream(i) ==
  /\ CanClose(i)
  /\ conn' = [conn EXCEPT ![i] = "closed"]
  /\ Told(i)
  /\ UNCHANGED <<pageVars, clients, exited, toServer, stack, calls, callbacks>>

WasmNext ==
  \/ \E c \in Client : Create(c) \/ LoadDone(c) \/ LoadFails(c)
  \/ \E c \in Client : Send(c) \/ SendThrows(c) \/ SendBad(c) \/ Exit(c) \/ OnClientClose(c)
  \/ \E f \in {"toClient", "resolver"} : Callback(f)
  \/ CallbackReturns \/ CallbackThrows \/ HandlerEnds
  \/ \E i \in Id : CloseStream(i)

WasmSpec == WasmInit /\ [][WasmNext]_wasmVars

-----------------------------------------------------------------------------
(* Type invariant: clients that are open have a number and a program; of   *)
(* the handlers in progress only the last one may be outside a callback;   *)
(* and no server has two: a message sent from inside a callback of its own *)
(* server is refused, never handled before the one in progress.            *)
WasmTypeOK ==
  /\ \A c \in Client : clients[c].pc = "open" =>
       clients[c].id \in Id /\ clients[c].home \in 1 .. programs
  /\ started \in 0 .. Cardinality(Client) /\ toServer \subseteq Id
  /\ loaded <=> programs > 0
  /\ conn \in [Id -> {"open", "closing", "closed"}]
  /\ \A n \in DOMAIN stack :
       /\ stack[n] \in [id : 1 .. started, from : Client, in : {"go", "toClient", "resolver"}]
       /\ n < Len(stack) => stack[n].in # "go"
       /\ \A m \in DOMAIN stack : stack[m].id = stack[n].id => m = n

(***************************************************************************)
(* Clients do not share a server: what a handler writes, and the imports   *)
(* it asks for, go to the client whose message it handles.  The only way   *)
(* out are two creates that both find nothing loaded, when the program     *)
(* that comes second counts from 1 again: this takes over the clients of   *)
(* the first.                                                              *)
(***************************************************************************)
RepliesToSender ==
  \A n \in DOMAIN stack :
    \/ owner[stack[n].id] = stack[n].from
    \/ overlap /\ clients[stack[n].from].home # programs

(***************************************************************************)
(* No server becomes deaf: although the function that takes a message is   *)
(* deleted by it, there is one again whenever no handler is in progress,   *)
(* whatever was refused or thrown in between and by whichever client, as   *)
(* long as no read has failed.                                             *)
(***************************************************************************)
ServersListen ==
  stack = << >> /\ ~exited =>
    \A i \in 1 .. started : i \in toServer \/ conn[i] = "closed"

(***************************************************************************)
(* The end of a connection is told once: by a close, a failed read, or     *)
(* both in either order, also from inside a callback; and a client that    *)
(* has closed has been told when the call is over.                         *)
(***************************************************************************)
ClosesOnce ==
  \A c \in Client :
    /\ told[c] <= 1
    /\ clients[c].closed /\ clients[c].home = programs /\ ~exited
         /\ stack = << >> /\ JSRuns => told[c] = 1

=============================================================================
