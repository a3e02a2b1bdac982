--------------------------- MODULE EmulatorBackend ---------------------------
(***************************************************************************)
(* EmulatorBackend (test/emulator_backend.go): the blockchain the tests of *)
(* a Cadence test script run against, and the sequence numbers it gives to *)
(* their transactions.                                                     *)
(*                                                                         *)
(* The emulator itself is external.  Its ledger is [seq, accounts,         *)
(* deployed]: the sequence number of the service key, which proposes every *)
(* transaction, the number of accounts, and the contracts.  A block is a   *)
(* ledger with the events of its transactions; the first one of a fork is  *)
(* the remote network's.  A transaction is [code, seq].  The pending block *)
(* is [txs, done, ledger, events]: its transactions, how many were         *)
(* executed, and what came of them.  A chain is [base, blocks, pending,    *)
(* snaps], base being the height of its first block.                       *)
(***************************************************************************)
EXTENDS Naturals, Sequences, SequencesExt

CONSTANTS
  Contract,          \* contracts that tests deploy
  Code,              \* codes of transactions; Failing of them fail
  Failing,
  Addresses,         \* pairs <<network label, contract>>: what the user's
                     \* ContractAddressResolver resolves
  Builtin,           \* contracts with a built-in address, of the service account
  OwnerOf,           \* [Contract -> Nat]: the account a contract's address is of
  Snapshot,          \* names of snapshots
  InitialAccounts,   \* initialAccountsNumber (20)
  RemoteHeight,      \* latest sealed block of a remote network
  None

ASSUME BackendAssumption ==
  /\ InitialAccounts \in Nat /\ RemoteHeight \in Nat \ {0}
  /\ Builtin \subseteq Contract /\ OwnerOf \in [Contract -> Nat]
  /\ Failing \subseteq Code /\ Contract \cap Code = {} /\ None \notin Snapshot

(* The values of the emulator.                                             *)
Ledger == [seq : Nat, accounts : Nat, deployed : SUBSET Contract]
EventName == Code \cup Contract \cup {"account", "remote"}
Transaction == [code : EventName, seq : Nat]
BlockRecord == [ledger : Ledger, events : Seq(EventName), local : BOOLEAN]
PendingRecord ==
  [txs : Seq(Transaction), done : Nat, ledger : Ledger, events : Seq(EventName)]
Chain ==
  [base : Nat, blocks : Seq(BlockRecord) \ {<< >>}, pending : PendingRecord,
   snaps : [Snapshot -> Seq(BlockRecord)]]

Genesis == [seq |-> 0, accounts |-> 0, deployed |-> {}]
Block(ledger, events, local) == [ledger |-> ledger, events |-> events, local |-> local]
Latest(c) == Last(c.blocks)
Height(c) == c.base + Len(c.blocks) - 1
BlockAt(c, h) == c.blocks[h - c.base + 1]

EmptyBlock(ledger) == [txs |-> << >>, done |-> 0, ledger |-> ledger, events |-> << >>]
Restart(c, blocks) ==
  [c EXCEPT !.blocks = blocks, !.pending = EmptyBlock(Last(blocks).ledger)]

-----------------------------------------------------------------------------
(* The emulator: each call gives [result, chain].                          *)

(* No transaction joins a block whose execution has begun, or joins twice. *)
ChainAdd(c, tx) ==
  IF c.pending.done > 0 \/ \E i \in DOMAIN c.pending.txs : c.pending.txs[i] = tx
  THEN [result |-> "error", chain |-> c]
  ELSE [result |-> "ok", chain |-> [c EXCEPT !.pending.txs = Append(@, tx)]]

(* What transaction tx does to the ledger.                                 *)
Effect(ledger, tx) ==
  [seq      |-> ledger.seq + 1,
   accounts |-> IF tx.code = "account" THEN ledger.accounts + 1 ELSE ledger.accounts,
   deployed |-> ledger.deployed \cup (Contract \cap {tx.code})]

(* The next transaction runs.  A wrong sequence number stops it at once,   *)
(* unless validation is off (fork); a failing one has used its number.     *)
ChainExecute(c, fork) ==
  LET p  == c.pending
      tx == p.txs[p.done + 1]
      wrong == ~fork /\ tx.seq # p.ledger.seq
  IN  IF p.done = Len(p.txs) THEN [result |-> "exhausted", chain |-> c]
      ELSE IF wrong
      THEN [result |-> "sequence", chain |-> [c EXCEPT !.pending.done = @ + 1]]
      ELSE IF tx.code \in Failing
      THEN [result |-> "failed",
            chain  |-> [c EXCEPT !.pending.done = @ + 1, !.pending.ledger.seq = @ + 1]]
      ELSE [result |-> "ok",
            chain  |-> [c EXCEPT !.pending =
                         [p EXCEPT !.done = @ + 1, !.ledger = Effect(@, tx),
                                   !.events = Append(@, tx.code)]]]

(* A block is committed when all of its transactions were executed.        *)
ChainCommit(c) ==
  IF c.pending.done < Len(c.pending.txs)
  THEN [result |-> "error", chain |-> c]
  ELSE [result |-> "ok",
        chain  |-> Restart(c, Append(c.blocks, Block(c.pending.ledger, c.pending.events, TRUE)))]

(* The pending block is executed to the end: what the last transaction     *)
(* gave.                                                                   *)
ExecuteBlock(c, fork) ==
  LET run[n \in 0 .. Len(c.pending.txs)] ==
        IF n = 0 THEN [result |-> "error", chain |-> c]
        ELSE ChainExecute(run[n-1].chain, fork)
  IN  run[Len(c.pending.txs)]

(* The adapter's CreateAccount: a transaction of its own, with the key's   *)
(* number, in a block that is executed to the end and committed.           *)
ChainCreateAccount(c, fork) ==
  LET added == ChainAdd(c, [code |-> "account", seq |-> Latest(c).ledger.seq])
      last  == ExecuteBlock(added.chain, fork)
  IN  IF added.result = "error" THEN added
      ELSE [result |-> last.result, chain |-> ChainCommit(last.chain).chain]

-----------------------------------------------------------------------------
(* The backend: [label, host, offset, known, time, forkStart, chain].      *)

Fork(b) == b.host # None

(* bootstrapAccounts: the block after the accounts of the tests are made,  *)
(* each with a transaction of its own.                                     *)
BootstrapAccounts ==
  Block([seq |-> InitialAccounts, accounts |-> InitialAccounts, deployed |-> {}], << >>, TRUE)

(* NewEmulatorBackend: without a fork the accounts of the tests are        *)
(* created; on a fork, at the height asked for or the latest one (0), a    *)
(* first local block.                                                      *)
NewBackend(label, fork) ==
  LET base   == IF fork = None THEN 0 ELSE IF fork.height = 0 THEN RemoteHeight ELSE fork.height
      first  == IF fork = None THEN BootstrapAccounts ELSE Block(Genesis, <<"remote">>, FALSE)
      blocks == IF fork = None THEN <<first>> ELSE <<first, Block(Genesis, << >>, TRUE)>>
  IN  [label |-> label, host |-> IF fork = None THEN None ELSE fork.host, offset |-> 0,
       known |-> IF fork = None THEN 1 .. InitialAccounts ELSE {}, time |-> 0,
       forkStart |-> IF fork = None THEN 0 ELSE base,
       chain |-> [base |-> base, blocks |-> blocks, pending |-> EmptyBlock(Last(blocks).ledger),
                  snaps |-> [n \in Snapshot |-> << >>]]]

Outcome(result, b) == [result |-> result, backend |-> b]

(* newTransaction: the key's number plus the offset in the block.          *)
NewTransaction(b, code) == [code |-> code, seq |-> Latest(b.chain).ledger.seq + b.offset]

(* AddTransaction, of code with arguments that encode and signers whose    *)
(* keys are known: the other errors are returned before anything changes.  *)
AddTransaction(b, code) ==
  LET r == ChainAdd(b.chain, NewTransaction(b, code))
  IN  IF r.result = "error" THEN Outcome("error", b)
      ELSE Outcome("ok", [b EXCEPT !.chain = r.chain, !.offset = @ + 1])

(* ExecuteNextTransaction: a block without more transactions is no error.  *)
ExecuteNextTransaction(b) ==
  LET r == ChainExecute(b.chain, Fork(b))
  IN  Outcome(r.result, [b EXCEPT !.chain = r.chain])

(* Mutant: the offset goes on counting over the block's end.               *)
CommitKeepsOffset(b) ==
  LET r == ChainCommit(b.chain) IN Outcome(r.result, [b EXCEPT !.chain = r.chain])

(* CommitBlock: the offset is reset, then the block is committed or not.   *)
CommitBlock(b) ==
  LET r == ChainCommit(b.chain)
  IN  Outcome(r.result, [b EXCEPT !.chain = r.chain, !.offset = 0])

(* GetAccount: on a fork any account.                                      *)
GetAccount(b, a) == Fork(b) \/ a = 0 \/ a \in b.known

(* CreateAccount: the key of the new account is known.  The offset stays.  *)
CreateAccount(b) ==
  LET r == ChainCreateAccount(b.chain, Fork(b))
      c == [b EXCEPT !.chain = r.chain]
  IN  Outcome(r.result, IF r.result # "ok" THEN c
                        ELSE [c EXCEPT !.known = @ \cup {Latest(r.chain).ledger.accounts}])

(* newContractResolverWithBuiltins, for the network label or the default.  *)
Resolves(b, name) ==
  <<IF b.label = None THEN "testing" ELSE b.label, name>> \in Addresses \/ name \in Builtin

(* DeployContract: its transaction joins the pending block, whose next     *)
(* transaction, whichever that is, is executed; after an error the block   *)
(* is not committed.  (A file resolver that fails panics before all this.) *)
DeployContract(b, name) ==
  LET added == AddTransaction(b, name)
      run   == ExecuteNextTransaction(added.backend)
  IN  IF ~Resolves(b, name) \/ ~GetAccount(b, OwnerOf[name]) THEN Outcome("error", b)
      ELSE IF added.result # "ok" THEN added
      ELSE IF run.result \notin {"ok", "exhausted"} THEN Outcome("error", run.backend)
      ELSE CommitBlock(run.backend)

(* Mutant: the blocks go, the pending one stays.                           *)
ResetKeepsPending(b, height) ==
  IF height > Height(b.chain) \/ height < b.chain.base THEN Outcome("panic", b)
  ELSE Outcome("ok", [b EXCEPT !.chain.blocks = SubSeq(@, 1, height - b.chain.base + 1),
                               !.offset = 0])

(* Reset to a height: beyond the last block it panics.                     *)
Reset(b, height) ==
  IF height > Height(b.chain) \/ height < b.chain.base THEN Outcome("panic", b)
  ELSE Outcome("ok", [b EXCEPT
         !.chain = Restart(b.chain, SubSeq(b.chain.blocks, 1, height - b.chain.base + 1)),
         !.offset = 0])

(* MoveTime: the clock moves, whether or not the block is committed then.  *)
MoveTime(b) ==
  LET r == CommitBlock([b EXCEPT !.time = @ + 1])
  IN  Outcome(IF r.result = "ok" THEN "ok" ELSE "panic", r.backend)

(* CreateSnapshot and LoadSnapshot leave the offset to itself; the         *)
(* emulator starts anew from its last block.                               *)
CreateSnapshot(b, n) ==
  Outcome("ok", [b EXCEPT !.chain = [Restart(b.chain, b.chain.blocks) EXCEPT
                                       !.snaps[n] = b.chain.blocks]])
LoadSnapshot(b, n) ==
  IF b.chain.snaps[n] = << >> THEN Outcome("error", b)
  ELSE Outcome("ok", [b EXCEPT !.chain = Restart(b.chain, b.chain.snaps[n])])

(* Mutant: the loop begins with the block the fork started from.           *)
EventsFromFork(b) ==
  FlattenSeq([i \in 1 .. Height(b.chain) + 1 - b.forkStart |->
                BlockAt(b.chain, b.forkStart + i - 1).events])

(* Events: of all blocks or, on a fork, of those after its start.          *)
Events(b) ==
  LET start == IF Fork(b) THEN b.forkStart + 1 ELSE 0
      count == IF Height(b.chain) < start THEN 0 ELSE Height(b.chain) + 1 - start
  IN  FlattenSeq([i \in 1 .. count |-> BlockAt(b.chain, start + i - 1).events])
=============================================================================
