-------------------------- MODULE TestRunnerProofs --------------------------
(***************************************************************************)
(* Proofs about the test framework, for any scripts, networks, contracts   *)
(* and snapshots, whatever the functions of the scripts do.                *)
(*                                                                         *)
(* RunnerInv is the inductive invariant.  What a backend promises rests on *)
(* BackendFits: its blocks, and those of its snapshots, are local except   *)
(* the one that a fork began with; and on InStep, while offset and pending *)
(* block agree: the ledger of the pending block is as many numbers ahead   *)
(* of the last block's as transactions were executed.                      *)
(* What a run promises rests on RunFits: the functions invoked so far are  *)
(* those that the phase and the results call for, each result is that of   *)
(* an invocation, and results and tests that are left make up the tests.   *)
(***************************************************************************)
EXTENDS TestRunner, ValueLemmas, FiniteSetTheorems

(* The blocks of a chain: the first one of a fork is the network's.        *)
LocalBlocks(blocks, fork) ==
  \A i \in DOMAIN blocks : blocks[i].local = (~fork \/ i > 1)

(* What the emulator's calls need of a chain, and preserve.                *)
ChainFits(c, fork) ==
  /\ c \in Chain
  /\ c.pending.done <= Len(c.pending.txs)
  /\ c.pending.done = 0 => c.pending.ledger = Latest(c).ledger
  /\ LocalBlocks(c.blocks, fork)
  /\ \A n \in Snapshot : LocalBlocks(c.snaps[n], fork)

BackendFits(b) ==
  /\ b \in Backend
  /\ ChainFits(b.chain, Fork(b))
  /\ b.chain.base = b.forkStart
  /\ ~Fork(b) => b.forkStart = 0

(* The pending block has transactions with consecutive numbers, from that  *)
(* of the last block on, and the executed ones have used theirs.           *)
Consecutive(c) ==
  /\ \A i \in DOMAIN c.pending.txs : c.pending.txs[i].seq = Latest(c).ledger.seq + i - 1
  /\ c.pending.ledger.seq = Latest(c).ledger.seq + c.pending.done

InStep(b) == b.offset = Len(b.chain.pending.txs) /\ Consecutive(b.chain)

-----------------------------------------------------------------------------
(* Types of a chain's parts.                                               *)
LEMMA ChainFields ==
  ASSUME NEW c \in Chain
  PROVE  /\ c.base \in Nat /\ c.blocks \in Seq(BlockRecord) /\ c.blocks # << >>
         /\ c.pending \in PendingRecord /\ c.snaps \in [Snapshot -> Seq(BlockRecord)]
         /\ c.pending.txs \in Seq(Transaction) /\ c.pending.done \in Nat
         /\ c.pending.ledger \in Ledger /\ c.pending.events \in Seq(EventName)
         /\ Latest(c) \in BlockRecord /\ Latest(c).ledger \in Ledger
         /\ Len(c.blocks) \in Nat \ {0} /\ Latest(c) = c.blocks[Len(c.blocks)]
<1>1. /\ c.base \in Nat /\ c.blocks \in Seq(BlockRecord) /\ c.blocks # << >>
      /\ c.pending \in PendingRecord /\ c.snaps \in [Snapshot -> Seq(BlockRecord)]
  BY DEF Chain
<1>2. /\ c.pending.txs \in Seq(Transaction) /\ c.pending.done \in Nat
      /\ c.pending.ledger \in Ledger /\ c.pending.events \in Seq(EventName)
  BY <1>1 DEF PendingRecord
<1>3. Len(c.blocks) \in Nat \ {0} /\ Latest(c) = c.blocks[Len(c.blocks)]
  BY <1>1 DEF Latest, Last
<1>4. Latest(c) \in BlockRecord
  BY <1>1, <1>3
<1> QED  BY <1>1, <1>2, <1>3, <1>4 DEF BlockRecord

(* A chain that starts anew from blocks has an empty pending block.        *)
LEMMA RestartFits ==
  ASSUME NEW fork, NEW c, ChainFits(c, fork),
         NEW blocks \in Seq(BlockRecord), blocks # << >>, LocalBlocks(blocks, fork)
  PROVE  /\ ChainFits(Restart(c, blocks), fork) /\ Consecutive(Restart(c, blocks))
         /\ Restart(c, blocks).pending.txs = << >>
         /\ Restart(c, blocks).base = c.base
         /\ Restart(c, blocks).blocks = blocks /\ Restart(c, blocks).snaps = c.snaps
<1> DEFINE r == Restart(c, blocks)
           e == EmptyBlock(Last(blocks).ledger)
<1>1. c \in Chain
  BY DEF ChainFits
<1>2. Len(blocks) \in Nat \ {0} /\ Last(blocks) = blocks[Len(blocks)]
  BY DEF Last
<1>3. Last(blocks) \in BlockRecord /\ Last(blocks).ledger \in Ledger
  <2>1. Last(blocks) \in BlockRecord
    BY <1>2
  <2> QED  BY <2>1 DEF BlockRecord
<1>4. /\ e.txs = << >> /\ e.done = 0 /\ e.ledger = Last(blocks).ledger /\ e.events = << >>
      /\ e \in PendingRecord
  BY <1>3 DEF EmptyBlock, PendingRecord
<1>5. r = [c EXCEPT !.blocks = blocks, !.pending = e]
  BY DEF Restart
<1> HIDE DEF e, r
<1>6. /\ r.base = c.base /\ r.blocks = blocks /\ r.pending = e /\ r.snaps = c.snaps
      /\ r \in Chain
  BY <1>1, <1>4, <1>5 DEF Chain
<1>7. Latest(r) = Last(blocks)
  BY <1>6 DEF Latest
<1>8. ChainFits(r, fork)
  BY <1>4, <1>6, <1>7 DEF ChainFits
<1>9. Consecutive(r)
  <2>1. Last(blocks).ledger.seq \in Nat
    BY <1>3 DEF Ledger
  <2> QED  BY <2>1, <1>4, <1>6, <1>7 DEF Consecutive
<1> QED  BY <1>4, <1>6, <1>8, <1>9 DEF r

(* ChainAdd keeps the blocks, and adds the transaction at the end.         *)
LEMMA ChainAddFits ==
  ASSUME NEW fork, NEW c, ChainFits(c, fork), NEW tx \in Transaction
  PROVE  /\ ChainFits(ChainAdd(c, tx).chain, fork)
         /\ ChainAdd(c, tx).chain.base = c.base
         /\ ChainAdd(c, tx).chain.blocks = c.blocks
         /\ ChainAdd(c, tx).result \in {"ok", "error"}
         /\ ChainAdd(c, tx).result = "error" => ChainAdd(c, tx).chain = c
         /\ ChainAdd(c, tx).result = "ok" =>
              /\ ChainAdd(c, tx).chain.pending.txs = Append(c.pending.txs, tx)
              /\ ChainAdd(c, tx).chain.pending.done = 0 /\ c.pending.done = 0
              /\ ChainAdd(c, tx).chain.pending.ledger = c.pending.ledger
<1>1. c \in Chain
  BY DEF ChainFits
<1>2. CASE c.pending.done > 0 \/ \E i \in DOMAIN c.pending.txs : c.pending.txs[i] = tx
  BY <1>2 DEF ChainAdd
<1>3. CASE ~(c.pending.done > 0 \/ \E i \in DOMAIN c.pending.txs : c.pending.txs[i] = tx)
  <2> DEFINE d == [c EXCEPT !.pending.txs = Append(@, tx)]
  <2>1. ChainAdd(c, tx) = [result |-> "ok", chain |-> d]
    BY <1>3 DEF ChainAdd
  <2>2. c.pending.done = 0
    BY <1>1, <1>3, ChainFields
  <2>3. /\ d.pending = [c.pending EXCEPT !.txs = Append(@, tx)]
        /\ d.base = c.base /\ d.blocks = c.blocks /\ d.snaps = c.snaps
    BY <1>1 DEF Chain
  <2>4. Append(c.pending.txs, tx) \in Seq(Transaction)
    BY <1>1, ChainFields
  <2>5. /\ d.pending.txs = Append(c.pending.txs, tx) /\ d.pending.done = c.pending.done
        /\ d.pending.ledger = c.pending.ledger /\ d.pending.events = c.pending.events
        /\ d.pending \in PendingRecord
    <3>1. c.pending \in PendingRecord
      BY <1>1, ChainFields
    <3> DEFINE p == [c.pending EXCEPT !.txs = Append(@, tx)]
    <3>2. /\ p.txs = Append(c.pending.txs, tx) /\ p.done = c.pending.done
          /\ p.ledger = c.pending.ledger /\ p.events = c.pending.events
          /\ p \in PendingRecord
      BY <3>1, <2>4 DEF PendingRecord
    <3>3. d.pending = p
      BY <2>3
    <3> HIDE DEF d, p
    <3> QED  BY <3>2, <3>3
  <2>6. d \in Chain
    <3>1. d = [c EXCEPT !.pending = d.pending]
      BY <1>1 DEF Chain
    <3> HIDE DEF d
    <3> QED  BY <3>1, <1>1, <2>5 DEF Chain
  <2>7. Latest(d) = Latest(c)
    BY <2>3 DEF Latest
  <2>8. ChainFits(d, fork)
    <3>1. Len(d.pending.txs) \in Nat
      BY <2>4, <2>5
    <3> HIDE DEF d
    <3> QED  BY <3>1, <2>2, <2>3, <2>5, <2>6, <2>7 DEF ChainFits
  <2> HIDE DEF d
  <2>9. ChainAdd(c, tx).result = "ok" /\ ChainAdd(c, tx).chain = d
    BY <2>1
  <2> QED  BY <2>2, <2>3, <2>5, <2>8, <2>9
<1> QED  BY <1>2, <1>3

(* A chain with another pending block whose execution has begun.           *)
LEMMA PendingFits ==
  ASSUME NEW fork, NEW c, ChainFits(c, fork), NEW q \in PendingRecord,
         q.done # 0, q.done <= Len(q.txs), NEW d, d = [c EXCEPT !.pending = q]
  PROVE  /\ ChainFits(d, fork) /\ d.pending = q /\ d.base = c.base
         /\ d.blocks = c.blocks /\ d.snaps = c.snaps /\ Latest(d) = Latest(c)
<1>1. c \in Chain
  BY DEF ChainFits
<1>2. /\ d \in Chain /\ d.pending = q /\ d.base = c.base
      /\ d.blocks = c.blocks /\ d.snaps = c.snaps
  BY <1>1 DEF Chain
<1>3. Latest(d) = Latest(c)
  BY <1>2 DEF Latest
<1> QED  BY <1>2, <1>3 DEF ChainFits

(* What a transaction does to the ledger: it uses up a number.             *)
LEMMA EffectFacts ==
  ASSUME NEW ledger \in Ledger, NEW tx \in Transaction
  PROVE  Effect(ledger, tx) \in Ledger /\ Effect(ledger, tx).seq = ledger.seq + 1
<1>1. ledger.seq \in Nat /\ ledger.accounts \in Nat /\ ledger.deployed \in SUBSET Contract
  BY DEF Ledger
<1> QED  BY <1>1 DEF Effect, Ledger

(* ChainExecute: the next transaction is executed, the others and the      *)
(* blocks are left alone; consecutive numbers stay so and none is wrong.   *)
LEMMA ChainExecuteFits ==
  ASSUME NEW fork, NEW f, NEW c, ChainFits(c, f), NEW r, r = ChainExecute(c, fork)
  PROVE  /\ ChainFits(r.chain, f)
         /\ r.chain.base = c.base /\ r.chain.blocks = c.blocks /\ r.chain.snaps = c.snaps
         /\ r.chain.pending.txs = c.pending.txs
         /\ r.result \in {"exhausted", "sequence", "failed", "ok"}
         /\ IF c.pending.done = Len(c.pending.txs) THEN r.chain = c
            ELSE r.chain.pending.done = c.pending.done + 1
         /\ Consecutive(c) => Consecutive(r.chain) /\ r.result # "sequence"
<1> DEFINE p  == c.pending
           tx == p.txs[p.done + 1]
           wrong == ~fork /\ tx.seq # p.ledger.seq
           q1 == [p EXCEPT !.done = @ + 1]
           q2 == [p EXCEPT !.done = @ + 1, !.ledger.seq = @ + 1]
           q3 == [p EXCEPT !.done = @ + 1, !.ledger = Effect(@, tx),
                           !.events = Append(@, tx.code)]
<1>1. c \in Chain /\ p.done <= Len(p.txs)
  BY DEF ChainFits
<1>2. /\ p \in PendingRecord /\ p.txs \in Seq(Transaction) /\ p.done \in Nat
      /\ p.ledger \in Ledger /\ p.events \in Seq(EventName) /\ Len(p.txs) \in Nat
      /\ DOMAIN p.txs = 1 .. Len(p.txs) /\ Latest(c).ledger \in Ledger
  BY <1>1, ChainFields
<1>3. CASE p.done = Len(p.txs)
  <2>1. r = [result |-> "exhausted", chain |-> c]
    BY <1>3 DEF ChainExecute
  <2>2. r.result = "exhausted" /\ r.chain = c
    BY <2>1
  <2> QED  BY <2>2, <1>3
<1>4. CASE p.done # Len(p.txs)
  <2>1. /\ p.done + 1 \in DOMAIN p.txs /\ p.done + 1 <= Len(p.txs)
        /\ p.done + 1 \in Nat /\ p.done + 1 # 0
    BY <1>1, <1>2, <1>4
  <2>2. tx \in Transaction
    BY <1>2, <2>1
  <2>3. tx.code \in EventName /\ tx.seq \in Nat
    BY <2>2 DEF Transaction
  <2>4. p.ledger.seq \in Nat /\ Latest(c).ledger.seq \in Nat
    BY <1>2 DEF Ledger
  <2>5. Consecutive(c) => tx.seq = p.ledger.seq
    <3>1. SUFFICES ASSUME Consecutive(c) PROVE tx.seq = p.ledger.seq
      OBVIOUS
    <3>2. tx.seq = Latest(c).ledger.seq + (p.done + 1) - 1
      BY <3>1, <2>1 DEF Consecutive
    <3>3. p.ledger.seq = Latest(c).ledger.seq + p.done
      BY <3>1 DEF Consecutive
    <3> HIDE DEF tx, p
    <3> QED  BY <3>2, <3>3, <2>4, <1>2
  <2>6. ASSUME NEW q \in PendingRecord, q.txs = p.txs, q.done = p.done + 1,
               q.ledger.seq = p.ledger.seq + 1 \/ wrong,
               r.chain = [c EXCEPT !.pending = q],
               r.result \in {"failed", "ok"} \/ (wrong /\ r.result = "sequence")
        PROVE  /\ ChainFits(r.chain, f)
               /\ r.chain.base = c.base /\ r.chain.blocks = c.blocks /\ r.chain.snaps = c.snaps
               /\ r.chain.pending.txs = c.pending.txs
               /\ r.result \in {"exhausted", "sequence", "failed", "ok"}
               /\ r.chain.pending.done = c.pending.done + 1
               /\ Consecutive(c) => Consecutive(r.chain) /\ r.result # "sequence"
    <3> DEFINE d == r.chain
    <3> HIDE DEF d
    <3>1. /\ ChainFits(d, f) /\ d.pending = q /\ d.base = c.base
          /\ d.blocks = c.blocks /\ d.snaps = c.snaps /\ Latest(d) = Latest(c)
      BY <2>6, <2>1, PendingFits DEF d
    <3>2. Consecutive(c) => ~wrong
      BY <2>5
    <3>3. ASSUME Consecutive(c) PROVE Consecutive(d)
      <4>1. q.ledger.seq = p.ledger.seq + 1
        BY <2>6, <3>2, <3>3
      <4>2. q.ledger.seq = Latest(d).ledger.seq + q.done
        <5>1. p.ledger.seq = Latest(c).ledger.seq + p.done
          BY <3>3 DEF Consecutive
        <5> HIDE DEF p
        <5> QED  BY <4>1, <5>1, <2>6, <3>1, <2>4, <1>2
      <4> QED  BY <4>2, <3>1, <3>3, <2>6 DEF Consecutive
    <3> HIDE DEF wrong, p
    <3>4. d.pending.txs = c.pending.txs /\ d.pending.done = c.pending.done + 1
      BY <3>1, <2>6 DEF p
    <3> QED  BY <3>1, <3>2, <3>3, <3>4, <2>6 DEF d
  <2>7. CASE wrong
    <3>1. r = [result |-> "sequence", chain |-> [c EXCEPT !.pending.done = @ + 1]]
      BY <2>7, <1>4 DEF ChainExecute
    <3>2. r.result = "sequence" /\ r.chain = [c EXCEPT !.pending.done = @ + 1]
      BY <3>1
    <3>3. [c EXCEPT !.pending.done = @ + 1] = [c EXCEPT !.pending = q1]
      BY <1>1 DEF Chain
    <3>4. q1 \in PendingRecord /\ q1.txs = p.txs /\ q1.done = p.done + 1
      BY <1>2, <2>1 DEF PendingRecord
    <3> HIDE DEF q1, wrong, p
    <3> QED  BY <3>2, <3>3, <3>4, <2>6, <2>7, <1>4 DEF p
  <2>8. CASE ~wrong /\ tx.code \in Failing
    <3>1. r = [result |-> "failed",
               chain  |-> [c EXCEPT !.pending.done = @ + 1, !.pending.ledger.seq = @ + 1]]
      BY <2>8, <1>4 DEF ChainExecute
    <3>2. /\ r.result = "failed"
          /\ r.chain = [c EXCEPT !.pending.done = @ + 1, !.pending.ledger.seq = @ + 1]
      BY <3>1
    <3>3. [c EXCEPT !.pending.done = @ + 1, !.pending.ledger.seq = @ + 1]
             = [c EXCEPT !.pending = q2]
      BY <1>1 DEF Chain, PendingRecord
    <3>4. [p.ledger EXCEPT !.seq = @ + 1] \in Ledger
      BY <1>2, SMTT(20) DEF Ledger
    <3>5. q2 \in PendingRecord /\ q2.txs = p.txs /\ q2.done = p.done + 1
      BY <1>2, <2>1, <3>4 DEF PendingRecord
    <3>6. q2.ledger.seq = p.ledger.seq + 1
      BY <1>2 DEF PendingRecord, Ledger
    <3> HIDE DEF q2, wrong, p
    <3> QED  BY <3>2, <3>3, <3>5, <3>6, <2>6, <1>4 DEF p
  <2>9. CASE ~wrong /\ tx.code \notin Failing
    <3>1. r = [result |-> "ok", chain |-> [c EXCEPT !.pending = q3]]
      BY <2>9, <1>4 DEF ChainExecute
    <3>2. r.result = "ok" /\ r.chain = [c EXCEPT !.pending = q3]
      BY <3>1
    <3>3. Effect(p.ledger, tx) \in Ledger /\ Effect(p.ledger, tx).seq = p.ledger.seq + 1
      BY <1>2, <2>2, EffectFacts
    <3>4. Append(p.events, tx.code) \in Seq(EventName)
      BY <1>2, <2>3
    <3>5. /\ q3 \in PendingRecord /\ q3.txs = p.txs /\ q3.done = p.done + 1
          /\ q3.ledger = Effect(p.ledger, tx)
      BY <1>2, <2>1, <3>3, <3>4 DEF PendingRecord
    <3> HIDE DEF q3, wrong, p
    <3> QED  BY <3>2, <3>3, <3>5, <2>6, <1>4 DEF p
  <2> QED  BY <2>7, <2>8, <2>9
<1> QED  BY <1>3, <1>4

(* ChainCommit: a block that was executed to its end joins the blocks.     *)
LEMMA ChainCommitFits ==
  ASSUME NEW fork, NEW c, ChainFits(c, fork), NEW r, r = ChainCommit(c)
  PROVE  /\ ChainFits(r.chain, fork) /\ r.chain.base = c.base
         /\ IF c.pending.done < Len(c.pending.txs)
            THEN r.result = "error" /\ r.chain = c
            ELSE r.result = "ok" /\ Consecutive(r.chain) /\ r.chain.pending.txs = << >>
<1> DEFINE p == c.pending
           b == Block(p.ledger, p.events, TRUE)
<1>1. c \in Chain /\ LocalBlocks(c.blocks, fork)
  BY DEF ChainFits
<1>2. CASE p.done < Len(p.txs)
  <2>1. r.result = "error" /\ r.chain = c
    BY <1>2 DEF ChainCommit
  <2> QED  BY <2>1, <1>2
<1>3. CASE ~(p.done < Len(p.txs))
  <2>1. r = [result |-> "ok", chain |-> Restart(c, Append(c.blocks, b))]
    BY <1>3 DEF ChainCommit
  <2>2. r.result = "ok" /\ r.chain = Restart(c, Append(c.blocks, b))
    BY <2>1
  <2>3. b \in BlockRecord /\ b.local = TRUE
    <3>1. p.ledger \in Ledger /\ p.events \in Seq(EventName)
      BY <1>1, ChainFields
    <3> QED  BY <3>1 DEF Block, BlockRecord
  <2>4. c.blocks \in Seq(BlockRecord) /\ Len(c.blocks) \in Nat \ {0}
    BY <1>1, ChainFields
  <2> HIDE DEF b
  <2>5. /\ Append(c.blocks, b) \in Seq(BlockRecord) /\ Append(c.blocks, b) # << >>
        /\ DOMAIN Append(c.blocks, b) = 1 .. Len(c.blocks) + 1
        /\ \A i \in 1 .. Len(c.blocks) : Append(c.blocks, b)[i] = c.blocks[i]
        /\ Append(c.blocks, b)[Len(c.blocks) + 1] = b
    BY <2>3, <2>4
  <2>6. LocalBlocks(Append(c.blocks, b), fork)
    <3>1. \A i \in 1 .. Len(c.blocks) : c.blocks[i].local = (~fork \/ i > 1)
      BY <1>1, <2>4 DEF LocalBlocks
    <3>2. Len(c.blocks) + 1 > 1
      BY <2>4
    <3>3. ASSUME NEW i \in 1 .. Len(c.blocks) + 1
          PROVE  Append(c.blocks, b)[i].local = (~fork \/ i > 1)
      <4>1. CASE i = Len(c.blocks) + 1
        BY <4>1, <3>2, <2>5, <2>3
      <4>2. CASE i # Len(c.blocks) + 1
        <5>1. i \in 1 .. Len(c.blocks)
          BY <4>2, <2>4
        <5> QED  BY <5>1, <3>1, <2>5
      <4> QED  BY <4>1, <4>2
    <3> QED  BY <3>3, <2>5 DEF LocalBlocks
  <2>7. /\ ChainFits(r.chain, fork) /\ Consecutive(r.chain)
        /\ r.chain.pending.txs = << >> /\ r.chain.base = c.base
    <3> DEFINE bs == Append(c.blocks, b)
    <3>1. bs \in Seq(BlockRecord) /\ bs # << >> /\ LocalBlocks(bs, fork)
      BY <2>5, <2>6
    <3>2. r.chain = Restart(c, bs)
      BY <2>2
    <3> HIDE DEF bs
    <3> QED  BY <3>1, <3>2, RestartFits
  <2> QED  BY <2>2, <2>7, <1>3
<1> QED  BY <1>2, <1>3

(* ExecuteBlock: all transactions are executed, and the blocks left alone; *)
(* none of consecutive numbers is wrong.                                   *)
LEMMA ExecuteBlockFits ==
  ASSUME NEW fork, NEW f, NEW c, ChainFits(c, f), c.pending.done = 0, c.pending.txs # << >>,
         NEW r, r = ExecuteBlock(c, fork)
  PROVE  /\ ChainFits(r.chain, f)
         /\ r.chain.base = c.base /\ r.chain.pending.txs = c.pending.txs
         /\ r.chain.pending.done = Len(c.pending.txs)
         /\ r.result \in {"error", "exhausted", "sequence", "failed", "ok"}
         /\ Consecutive(c) => r.result # "sequence"
<1> DEFINE N == Len(c.pending.txs)
           Result == {"error", "exhausted", "sequence", "failed", "ok"}
           V == {x \in [result : Result, chain : Chain] : ChainFits(x.chain, f)}
           a == [result |-> "error", chain |-> c]
           step == [i \in Nat |-> [v \in V |-> ChainExecute(v.chain, fork)]]
           Eq(g) == g = [n \in 0 .. N |-> IF n = 0 THEN a
                                          ELSE ChainExecute(g[n-1].chain, fork)]
           run == CHOOSE g : Eq(g)
<1>1. c \in Chain /\ N \in Nat
  <2>1. c \in Chain
    BY DEF ChainFits
  <2> QED  BY <2>1, ChainFields
<1>2. a \in V /\ a.chain = c /\ a.result = "error"
  BY <1>1
<1>3. ASSUME NEW x \in V PROVE ChainExecute(x.chain, fork) \in V
  <2> DEFINE y == ChainExecute(x.chain, fork)
  <2>1. ChainFits(x.chain, f)
    OBVIOUS
  <2>2. y \in [result : {y.result}, chain : {y.chain}]
    BY DEF ChainExecute
  <2>3. ChainFits(y.chain, f) /\ y.result \in {"exhausted", "sequence", "failed", "ok"}
    BY <2>1, ChainExecuteFits
  <2>4. y.chain \in Chain
    BY <2>3 DEF ChainFits
  <2> HIDE DEF y
  <2>5. y \in [result : Result, chain : Chain]
    BY <2>2, <2>3, <2>4
  <2> QED  BY <2>3, <2>5 DEF y
<1> HIDE DEF V, a
<1>4. step \in [Nat -> [V -> V]]
  BY <1>3
<1>5. \E g : Eq(g)
  <2>1. PICK g \in [0 .. N -> V] : g[0] = a /\ \A i \in 0 .. N - 1 : g[i + 1] = step[i][g[i]]
    <3>1. a \in V /\ N \in Nat
      BY <1>1, <1>2
    <3> HIDE DEF step, N
    <3>2. PICK g : Iterates(g, V, a, step, N)
      BY <3>1, <1>4, Iteration
    <3> QED  BY <3>2 DEF Iterates
  <2>2. ASSUME NEW i \in 0 .. N, i # 0 PROVE g[i] = ChainExecute(g[i-1].chain, fork)
    <3>1. i - 1 \in 0 .. N - 1 /\ i - 1 \in Nat /\ i - 1 \in 0 .. N /\ (i - 1) + 1 = i
      BY <1>1, <2>2
    <3>2. g[i-1] \in V
      BY <3>1
    <3>3. g[i] = step[i-1][g[i-1]]
      BY <2>1, <3>1
    <3> QED  BY <3>1, <3>2, <3>3
  <2>3. Eq(g)
    BY <2>1, <2>2
  <2> QED  BY <2>3
<1>6. Eq(run)
  <2> HIDE DEF Eq
  <2> QED  BY <1>5
<1> HIDE DEF run
<1>7. run[0] = a
  <2> DEFINE F == [n \in 0 .. N |-> IF n = 0 THEN a ELSE ChainExecute(run[n-1].chain, fork)]
  <2>1. 0 \in 0 .. N
    BY <1>1
  <2>2. F[0] = a
    BY <2>1
  <2>3. run = F
    BY <1>6
  <2> HIDE DEF F
  <2> QED  BY <2>2, <2>3
<1>8. ASSUME NEW i \in 0 .. N - 1 PROVE run[i + 1] = ChainExecute(run[i].chain, fork)
  <2>1. i + 1 \in 0 .. N /\ i + 1 # 0 /\ (i + 1) - 1 = i
    BY <1>1
  <2>2. run[i + 1] = ChainExecute(run[(i + 1) - 1].chain, fork)
    BY <1>6, <2>1
  <2> QED  BY <2>1, <2>2
<1> DEFINE Fits(n) ==
             /\ ChainFits(run[n].chain, f)
             /\ run[n].chain.base = c.base /\ run[n].chain.pending.txs = c.pending.txs
             /\ run[n].chain.pending.done = n
             /\ run[n].result \in Result
             /\ Consecutive(c) /\ n # 0 => run[n].result # "sequence"
             /\ Consecutive(c) => Consecutive(run[n].chain)
           S == {n \in 0 .. N : Fits(n)}
<1>9. 0 \in S
  BY <1>1, <1>2, <1>7
<1>10. ASSUME NEW i \in 0 .. N - 1, i \in S PROVE i + 1 \in S
  <2> DEFINE d == run[i].chain
             y == run[i + 1]
  <2>1. Fits(i)
    BY <1>10
  <2>2. /\ ChainFits(d, f) /\ d.base = c.base /\ d.pending.txs = c.pending.txs
        /\ d.pending.done = i /\ (Consecutive(c) => Consecutive(d))
    BY <2>1
  <2>3. y = ChainExecute(d, fork)
    BY <1>8
  <2>4. i # N /\ i + 1 \in 0 .. N
    BY <1>1
  <2> HIDE DEF d, y
  <2>5. /\ ChainFits(y.chain, f)
        /\ y.chain.base = d.base
        /\ y.chain.pending.txs = d.pending.txs
        /\ y.result \in {"exhausted", "sequence", "failed", "ok"}
        /\ IF d.pending.done = Len(d.pending.txs) THEN y.chain = d
           ELSE y.chain.pending.done = d.pending.done + 1
        /\ Consecutive(d) => Consecutive(y.chain) /\ y.result # "sequence"
    BY <2>2, <2>3, ChainExecuteFits
  <2>6. y.chain.pending.done = i + 1
    BY <2>2, <2>4, <2>5
  <2>7. Fits(i + 1)
    BY <2>2, <2>5, <2>6 DEF y
  <2> QED  BY <2>4, <2>7
<1> HIDE DEF S
<1>11. 0 .. N \subseteq S
  <2> HIDE DEF N
  <2> QED  BY <1>1, <1>9, <1>10, Induction
<1>12. N # 0 /\ N \in 0 .. N
  <2>1. c.pending.txs \in Seq(Transaction)
    BY <1>1, ChainFields
  <2> QED  BY <1>1, <2>1
<1>13. r = run[N]
  BY DEF ExecuteBlock, run, a
<1>14. Fits(N)
  BY <1>11, <1>12 DEF S
<1> HIDE DEF Eq
<1> QED  BY <1>12, <1>13, <1>14

(* The adapter's CreateAccount commits what it executed; in an empty block *)
(* the account's transaction has the right number.                         *)
LEMMA ChainCreateAccountFits ==
  ASSUME NEW fork, NEW f, NEW c, ChainFits(c, f), NEW r, r = ChainCreateAccount(c, fork)
  PROVE  /\ ChainFits(r.chain, f) /\ r.chain.base = c.base
         /\ r.result \in {"error", "exhausted", "sequence", "failed", "ok"}
         /\ Consecutive(c) /\ c.pending.txs = << >> =>
              /\ Consecutive(r.chain) /\ r.chain.pending.txs = << >>
              /\ r.result # "sequence"
<1> DEFINE tx == [code |-> "account", seq |-> Latest(c).ledger.seq]
           added == ChainAdd(c, tx)
           d == added.chain
           last == ExecuteBlock(d, fork)
<1>1. c \in Chain
  BY DEF ChainFits
<1>2. /\ Latest(c).ledger.seq \in Nat /\ c.pending.txs \in Seq(Transaction)
      /\ c.pending.ledger.seq \in Nat
  BY <1>1, ChainFields DEF Ledger
<1>3. tx \in Transaction /\ tx.seq = Latest(c).ledger.seq
  BY <1>2 DEF Transaction, EventName
<1>4. r = IF added.result = "error" THEN added
          ELSE [result |-> last.result, chain |-> ChainCommit(last.chain).chain]
  BY DEF ChainCreateAccount
<1> HIDE DEF tx, added
<1>5. /\ ChainFits(d, f) /\ d.base = c.base /\ d.blocks = c.blocks
      /\ added.result \in {"ok", "error"}
      /\ added.result = "error" => d = c
      /\ added.result = "ok" =>
           /\ d.pending.txs = Append(c.pending.txs, tx)
           /\ d.pending.done = 0 /\ c.pending.done = 0
           /\ d.pending.ledger = c.pending.ledger
  BY <1>3, ChainAddFits DEF added
<1>6. CASE added.result = "error"
  <2>1. r = added
    BY <1>4, <1>6
  <2> QED  BY <2>1, <1>5, <1>6
<1>7. CASE added.result = "ok"
  <2>1. r.result = last.result /\ r.chain = ChainCommit(last.chain).chain
    <3> HIDE DEF last
    <3> QED  BY <1>4, <1>7
  <2> HIDE DEF d
  <2>2. d.pending.txs # << >> /\ Len(d.pending.txs) \in Nat
    BY <1>2, <1>3, <1>5, <1>7
  <2> HIDE DEF last
  <2>4. /\ ChainFits(last.chain, f) /\ last.chain.base = c.base
        /\ last.chain.pending.txs = d.pending.txs
        /\ last.chain.pending.done = Len(d.pending.txs)
        /\ last.result \in {"error", "exhausted", "sequence", "failed", "ok"}
        /\ Consecutive(d) => last.result # "sequence"
    BY <2>2, <1>5, <1>7, ExecuteBlockFits DEF last
  <2>5. ~(last.chain.pending.done < Len(last.chain.pending.txs))
    BY <2>2, <2>4
  <2>6. /\ ChainFits(r.chain, f) /\ r.chain.base = c.base
        /\ Consecutive(r.chain) /\ r.chain.pending.txs = << >>
    BY <2>1, <2>4, <2>5, ChainCommitFits
  <2>7. ASSUME Consecutive(c), c.pending.txs = << >> PROVE Consecutive(d)
    <3>1. Latest(d) = Latest(c)
      BY <1>5 DEF Latest
    <3>2. d.pending.txs = <<tx>> /\ DOMAIN d.pending.txs = {1} /\ d.pending.txs[1] = tx
      BY <2>7, <1>5, <1>7
    <3>3. c.pending.ledger.seq = Latest(c).ledger.seq
      BY <2>7, <1>2, <1>5, <1>7 DEF Consecutive
    <3> QED  BY <3>1, <3>2, <3>3, <1>2, <1>3, <1>5, <1>7 DEF Consecutive
  <2> QED  BY <2>1, <2>4, <2>6, <2>7
<1> QED  BY <1>5, <1>6, <1>7

-----------------------------------------------------------------------------
(* The operations of the backend.                                          *)

(* A backend with another chain and offset.                                *)
With(b, c, n) == [b EXCEPT !.chain = c, !.offset = n]

(* It fits, if the chain does.                                             *)
LEMMA WithFits ==
  ASSUME NEW b, BackendFits(b), NEW c, ChainFits(c, Fork(b)), c.base = b.chain.base,
         NEW n \in Nat
  PROVE  /\ BackendFits(With(b, c, n)) /\ With(b, c, n).chain = c
         /\ With(b, c, n).offset = n /\ With(b, c, n).known = b.known
         /\ With(b, c, n).label = b.label /\ With(b, c, n).host = b.host
<1> DEFINE d == With(b, c, n)
<1>1. b \in Backend /\ c \in Chain
  BY DEF BackendFits, ChainFits
<1>2. /\ d \in Backend /\ d.chain = c /\ d.offset = n /\ d.known = b.known
      /\ d.label = b.label /\ d.host = b.host /\ d.forkStart = b.forkStart
  BY <1>1 DEF Backend, With
<1> HIDE DEF d
<1>3. BackendFits(d)
  BY <1>2 DEF BackendFits, Fork
<1> QED  BY <1>2, <1>3 DEF d

(* What every operation of the backend keeps, for its outcome r on b.      *)
OutcomeFits(b, r) ==
  BackendFits(r.backend) /\ r.backend.label = b.label /\ r.backend.host = b.host

(* What an operation answers; Events has a reply of its own.               *)
Answers == {"ok", "error", "exhausted", "sequence", "failed", "panic"}

(* Types of a backend's parts.                                             *)
LEMMA BackendFields ==
  ASSUME NEW b, BackendFits(b)
  PROVE  /\ b \in Backend /\ b.chain \in Chain /\ b.offset \in Nat /\ b.time \in Nat
         /\ b.known \in SUBSET Nat /\ ChainFits(b.chain, Fork(b))
         /\ Latest(b.chain).ledger.seq \in Nat
         /\ b.chain.pending.txs \in Seq(Transaction) /\ Len(b.chain.pending.txs) \in Nat
<1>1. b \in Backend /\ ChainFits(b.chain, Fork(b))
  BY DEF BackendFits
<1>2. /\ b.chain \in Chain /\ b.offset \in Nat /\ b.time \in Nat
      /\ b.known \in SUBSET Nat
  BY <1>1 DEF Backend
<1>3. Latest(b.chain).ledger \in Ledger /\ b.chain.pending.txs \in Seq(Transaction)
  BY <1>2, ChainFields
<1> QED  BY <1>1, <1>2, <1>3 DEF Ledger

(* AddTransaction: the new transaction has the next number.                *)
LEMMA AddTransactionFits ==
  ASSUME NEW b, BackendFits(b), NEW code \in EventName, NEW r, r = AddTransaction(b, code)
  PROVE  /\ OutcomeFits(b, r) /\ r.result \in {"ok", "error"}
         /\ r.result = "error" => r.backend = b
         /\ r.result = "ok" => /\ r.backend.offset = b.offset + 1
                               /\ r.backend.chain.pending.done = 0
                               /\ r.backend.chain.pending.txs # << >>
         /\ InStep(b) => InStep(r.backend)
<1> DEFINE tx == NewTransaction(b, code)
           a == ChainAdd(b.chain, tx)
           d == a.chain
<1>1. /\ b \in Backend /\ b.chain \in Chain /\ b.offset \in Nat
      /\ ChainFits(b.chain, Fork(b)) /\ Latest(b.chain).ledger.seq \in Nat
      /\ b.chain.pending.txs \in Seq(Transaction)
  BY BackendFields
<1>2. tx \in Transaction /\ tx.seq = Latest(b.chain).ledger.seq + b.offset
  BY <1>1 DEF NewTransaction, Transaction
<1>3. r = IF a.result = "error" THEN Outcome("error", b)
          ELSE Outcome("ok", [b EXCEPT !.chain = d, !.offset = @ + 1])
  BY DEF AddTransaction
<1> HIDE DEF tx, a
<1>4. /\ ChainFits(d, Fork(b)) /\ d.base = b.chain.base /\ d.blocks = b.chain.blocks
      /\ a.result \in {"ok", "error"}
      /\ a.result = "ok" =>
           /\ d.pending.txs = Append(b.chain.pending.txs, tx)
           /\ d.pending.done = 0 /\ b.chain.pending.done = 0
           /\ d.pending.ledger = b.chain.pending.ledger
  BY <1>1, <1>2, ChainAddFits DEF a
<1> HIDE DEF d
<1>5. CASE a.result = "error"
  <2>1. r.result = "error" /\ r.backend = b
    BY <1>3, <1>5 DEF Outcome
  <2> QED  BY <2>1 DEF OutcomeFits
<1>6. CASE a.result = "ok"
  <2> DEFINE e == With(b, d, b.offset + 1)
  <2>1. r.result = "ok" /\ r.backend = e
    BY <1>3, <1>6 DEF Outcome, With
  <2>2. b.offset + 1 \in Nat
    BY <1>1
  <2> HIDE DEF e
  <2>3. /\ BackendFits(e) /\ e.chain = d /\ e.offset = b.offset + 1
        /\ e.label = b.label /\ e.host = b.host
    BY <2>2, <1>4, WithFits DEF e
  <2>4. d.pending.txs # << >>
    BY <1>1, <1>2, <1>4, <1>6
  <2>5. ASSUME InStep(b) PROVE InStep(e)
    <3> DEFINE txs == b.chain.pending.txs
               seq == Latest(b.chain).ledger.seq
    <3>1. Latest(d) = Latest(b.chain)
      BY <1>4 DEF Latest
    <3>2. b.offset = Len(txs) /\ \A i \in DOMAIN txs : txs[i].seq = seq + i - 1
      BY <2>5 DEF InStep, Consecutive
    <3>3. Len(d.pending.txs) = Len(txs) + 1 /\ DOMAIN d.pending.txs = 1 .. Len(txs) + 1
      <4>1. txs \in Seq(Transaction) /\ tx \in Transaction /\ d.pending.txs = Append(txs, tx)
        BY <1>1, <1>2, <1>4, <1>6
      <4> HIDE DEF txs
      <4> QED  BY <4>1
    <3>4. ASSUME NEW i \in 1 .. Len(txs) + 1 PROVE d.pending.txs[i].seq = seq + i - 1
      <4>1. CASE i = Len(txs) + 1
        <5>1. d.pending.txs[i] = tx
          BY <4>1, <1>1, <1>2, <1>4, <1>6
        <5> HIDE DEF txs, seq
        <5> QED  BY <5>1, <4>1, <3>2, <1>1, <1>2 DEF seq
      <4>2. CASE i # Len(txs) + 1
        <5>1. i \in DOMAIN txs
          BY <4>2, <1>1
        <5>2. d.pending.txs[i] = txs[i]
          BY <5>1, <1>1, <1>2, <1>4, <1>6
        <5> QED  BY <5>1, <5>2, <3>2
      <4> QED  BY <4>1, <4>2
    <3>5. d.pending.ledger.seq = seq + d.pending.done
      BY <2>5, <1>4, <1>6 DEF InStep, Consecutive
    <3>6. Consecutive(d)
      BY <3>1, <3>3, <3>4, <3>5 DEF Consecutive
    <3> QED  BY <2>3, <3>2, <3>3, <3>6 DEF InStep
  <2> QED  BY <2>1, <2>3, <2>4, <2>5, <1>4, <1>6 DEF OutcomeFits
<1> QED  BY <1>4, <1>5, <1>6

(* ExecuteNextTransaction.                                                 *)
LEMMA ExecuteNextFits ==
  ASSUME NEW b, BackendFits(b), NEW r, r = ExecuteNextTransaction(b)
  PROVE  /\ OutcomeFits(b, r) /\ r.result \in {"exhausted", "sequence", "failed", "ok"}
         /\ r.backend.offset = b.offset
         /\ r.backend.chain.pending.txs = b.chain.pending.txs
         /\ InStep(b) => InStep(r.backend) /\ r.result # "sequence"
<1> DEFINE a == ChainExecute(b.chain, Fork(b))
           d == a.chain
           e == With(b, d, b.offset)
<1>1. b \in Backend /\ ChainFits(b.chain, Fork(b)) /\ b.offset \in Nat
  BY BackendFields
<1>2. r.result = a.result /\ r.backend = [b EXCEPT !.chain = d]
  BY DEF ExecuteNextTransaction, Outcome
<1> HIDE DEF a
<1>3. /\ ChainFits(d, Fork(b)) /\ d.base = b.chain.base /\ d.blocks = b.chain.blocks
      /\ d.pending.txs = b.chain.pending.txs
      /\ a.result \in {"exhausted", "sequence", "failed", "ok"}
      /\ Consecutive(b.chain) => Consecutive(d) /\ a.result # "sequence"
  BY <1>1, ChainExecuteFits DEF a
<1> HIDE DEF d
<1>4. [b EXCEPT !.chain = d] = e
  BY <1>1 DEF Backend, With
<1> HIDE DEF e
<1>5. /\ BackendFits(e) /\ e.chain = d /\ e.offset = b.offset
      /\ e.label = b.label /\ e.host = b.host
  BY <1>1, <1>3, WithFits DEF e
<1> QED  BY <1>2, <1>3, <1>4, <1>5 DEF OutcomeFits, InStep

(* CommitBlock: offset and block agree unless the commit was refused.      *)
LEMMA CommitBlockFits ==
  ASSUME NEW b, BackendFits(b), NEW r, r = CommitBlock(b)
  PROVE  /\ OutcomeFits(b, r) /\ r.result \in {"ok", "error"}
         /\ r.backend.offset = 0
         /\ r.result = "ok" => InStep(r.backend)
         /\ r.result = "error" => r.backend.chain.pending.txs # << >>
<1> DEFINE a == ChainCommit(b.chain)
           d == a.chain
           e == With(b, d, 0)
<1>1. /\ ChainFits(b.chain, Fork(b)) /\ b.chain.pending.txs \in Seq(Transaction)
      /\ b.chain \in Chain
  BY BackendFields
<1>2. r.result = a.result /\ r.backend = e
  BY DEF CommitBlock, Outcome, With
<1> HIDE DEF a
<1>3. /\ ChainFits(d, Fork(b)) /\ d.base = b.chain.base
      /\ IF b.chain.pending.done < Len(b.chain.pending.txs)
         THEN a.result = "error" /\ d = b.chain
         ELSE a.result = "ok" /\ Consecutive(d) /\ d.pending.txs = << >>
  BY <1>1, ChainCommitFits DEF a
<1> HIDE DEF d, e
<1>4. /\ BackendFits(e) /\ e.chain = d /\ e.offset = 0
      /\ e.label = b.label /\ e.host = b.host
  BY <1>3, WithFits DEF e
<1>5. b.chain.pending.done < Len(b.chain.pending.txs) => b.chain.pending.txs # << >>
  <2>1. b.chain.pending.done \in Nat
    BY <1>1, ChainFields
  <2> QED  BY <2>1, <1>1
<1> QED  BY <1>2, <1>3, <1>4, <1>5 DEF OutcomeFits, InStep

(* CreateAccount: in an empty block that agrees with the offset it goes    *)
(* well and leaves them in agreement.                                      *)
LEMMA CreateAccountFits ==
  ASSUME NEW b, BackendFits(b), NEW r, r = CreateAccount(b)
  PROVE  /\ OutcomeFits(b, r) /\ r.result \in Answers
         /\ InStep(b) /\ b.chain.pending.txs = << >> =>
              InStep(r.backend) /\ r.result # "sequence"
<1> DEFINE a == ChainCreateAccount(b.chain, Fork(b))
           d == a.chain
           e == With(b, d, b.offset)
           known == IF a.result # "ok" THEN e.known
                    ELSE e.known \cup {Latest(d).ledger.accounts}
           g == [e EXCEPT !.known = known]
<1>1. b \in Backend /\ ChainFits(b.chain, Fork(b)) /\ b.offset \in Nat
  BY BackendFields
<1>2. [b EXCEPT !.chain = d] = e
  BY <1>1 DEF Backend, With
<1>3. /\ r.result = a.result
      /\ r.backend = IF a.result # "ok" THEN e
                     ELSE [e EXCEPT !.known = @ \cup {Latest(d).ledger.accounts}]
  BY <1>2 DEF CreateAccount, Outcome
<1> HIDE DEF a
<1>4. /\ ChainFits(d, Fork(b)) /\ d.base = b.chain.base
      /\ a.result \in {"error", "exhausted", "sequence", "failed", "ok"}
      /\ Consecutive(b.chain) /\ b.chain.pending.txs = << >> =>
           Consecutive(d) /\ d.pending.txs = << >> /\ a.result # "sequence"
  BY <1>1, ChainCreateAccountFits DEF a
<1> HIDE DEF d, e
<1>5. /\ BackendFits(e) /\ e.chain = d /\ e.offset = b.offset
      /\ e.label = b.label /\ e.host = b.host
  BY <1>1, <1>4, WithFits DEF e
<1>6. e \in Backend /\ e.known \in SUBSET Nat
  BY <1>5, BackendFields
<1>7. Latest(d).ledger.accounts \in Nat
  <2>1. d \in Chain
    BY <1>4 DEF ChainFits
  <2>2. Latest(d).ledger \in Ledger
    BY <2>1, ChainFields
  <2> QED  BY <2>2 DEF Ledger
<1>8. known \in SUBSET Nat
  BY <1>6, <1>7
<1>9. r.backend = g
  <2>1. CASE a.result # "ok"
    BY <2>1, <1>3, <1>6 DEF Backend
  <2>2. CASE a.result = "ok"
    BY <2>2, <1>3
  <2> QED  BY <2>1, <2>2
<1> HIDE DEF known
<1>10. /\ g \in Backend /\ g.chain = e.chain /\ g.offset = e.offset /\ g.label = e.label
       /\ g.host = e.host /\ g.forkStart = e.forkStart
  BY <1>6, <1>8 DEF Backend
<1> HIDE DEF g
<1>11. BackendFits(g)
  BY <1>5, <1>10 DEF BackendFits, Fork
<1> QED  BY <1>3, <1>4, <1>5, <1>9, <1>10, <1>11 DEF OutcomeFits, InStep, Answers

(* DeployContract: after a success offset and block agree; an error leaves *)
(* them as they were, or the offset tells that they no longer do.          *)
LEMMA DeployContractFits ==
  ASSUME NEW b, BackendFits(b), NEW name \in Contract, NEW r, r = DeployContract(b, name)
  PROVE  /\ OutcomeFits(b, r) /\ r.result \in {"ok", "error"}
         /\ r.result = "ok" => InStep(r.backend)
         /\ InStep(b) /\ r.backend.offset = Len(r.backend.chain.pending.txs) =>
              InStep(r.backend)
<1> DEFINE added == AddTransaction(b, name)
           run == ExecuteNextTransaction(added.backend)
           done == CommitBlock(run.backend)
<1>1. r = IF ~Resolves(b, name) \/ ~GetAccount(b, OwnerOf[name]) THEN Outcome("error", b)
          ELSE IF added.result # "ok" THEN added
          ELSE IF run.result \notin {"ok", "exhausted"} THEN Outcome("error", run.backend)
          ELSE done
  BY DEF DeployContract
<1>2. name \in EventName
  BY DEF EventName
<1> HIDE DEF added
<1>3. /\ OutcomeFits(b, added) /\ added.result \in {"ok", "error"}
      /\ added.result = "error" => added.backend = b
      /\ InStep(b) => InStep(added.backend)
  BY <1>2, AddTransactionFits DEF added
<1> HIDE DEF run
<1>4. /\ OutcomeFits(added.backend, run)
      /\ InStep(added.backend) => InStep(run.backend)
  <2>1. BackendFits(added.backend)
    BY <1>3 DEF OutcomeFits
  <2> QED  BY <2>1, ExecuteNextFits DEF run
<1> HIDE DEF done
<1>5. /\ OutcomeFits(run.backend, done) /\ done.result \in {"ok", "error"}
      /\ done.backend.offset = 0
      /\ done.result = "ok" => InStep(done.backend)
      /\ done.result = "error" => done.backend.chain.pending.txs # << >>
  <2>1. BackendFits(run.backend)
    BY <1>4 DEF OutcomeFits
  <2> QED  BY <2>1, CommitBlockFits DEF done
<1>6. OutcomeFits(b, run) /\ OutcomeFits(b, done)
  BY <1>3, <1>4, <1>5 DEF OutcomeFits
<1>7. done.result = "error" => done.backend.offset # Len(done.backend.chain.pending.txs)
  <2>1. done.backend.chain.pending.txs \in Seq(Transaction)
    BY <1>6, BackendFields DEF OutcomeFits
  <2> QED  BY <1>5, <2>1
<1>8. CASE ~Resolves(b, name) \/ ~GetAccount(b, OwnerOf[name])
  <2>1. r.result = "error" /\ r.backend = b
    BY <1>1, <1>8 DEF Outcome
  <2> QED  BY <2>1 DEF OutcomeFits
<1>9. CASE ~(~Resolves(b, name) \/ ~GetAccount(b, OwnerOf[name])) /\ added.result # "ok"
  <2>1. r = added
    BY <1>1, <1>9
  <2> QED  BY <2>1, <1>3, <1>9
<1>10. CASE /\ ~(~Resolves(b, name) \/ ~GetAccount(b, OwnerOf[name])) /\ added.result = "ok"
            /\ run.result \notin {"ok", "exhausted"}
  <2>1. r.result = "error" /\ r.backend = run.backend
    BY <1>1, <1>10 DEF Outcome
  <2> QED  BY <2>1, <1>3, <1>4, <1>6 DEF OutcomeFits
<1>11. CASE /\ ~(~Resolves(b, name) \/ ~GetAccount(b, OwnerOf[name])) /\ added.result = "ok"
            /\ run.result \in {"ok", "exhausted"}
  <2>1. r = done
    BY <1>1, <1>11
  <2> QED  BY <2>1, <1>5, <1>6, <1>7
<1> QED  BY <1>8, <1>9, <1>10, <1>11

(* Reset: the blocks up to the height, and an empty one.                   *)
LEMMA ResetFits ==
  ASSUME NEW b, BackendFits(b), NEW height \in Nat, NEW r, r = Reset(b, height)
  PROVE  /\ OutcomeFits(b, r) /\ r.result \in {"ok", "panic"}
         /\ r.result = "ok" => InStep(r.backend)
         /\ r.result = "panic" => r.backend = b
<1> DEFINE n == height - b.chain.base + 1
           blocks == SubSeq(b.chain.blocks, 1, n)
           d == Restart(b.chain, blocks)
           e == With(b, d, 0)
<1>1. b.chain \in Chain /\ ChainFits(b.chain, Fork(b))
  BY BackendFields
<1>2. /\ b.chain.base \in Nat /\ b.chain.blocks \in Seq(BlockRecord)
      /\ Len(b.chain.blocks) \in Nat \ {0}
  BY <1>1, ChainFields
<1>3. CASE height > Height(b.chain) \/ height < b.chain.base
  <2>1. r.result = "panic" /\ r.backend = b
    BY <1>3 DEF Reset, Outcome
  <2> QED  BY <2>1 DEF OutcomeFits
<1>4. CASE ~(height > Height(b.chain) \/ height < b.chain.base)
  <2>1. r.result = "ok" /\ r.backend = e
    BY <1>4 DEF Reset, Outcome, With
  <2>2. n \in 1 .. Len(b.chain.blocks)
    BY <1>2, <1>4 DEF Height
  <2> HIDE DEF n
  <2>3. /\ blocks \in Seq(BlockRecord) /\ Len(blocks) = n /\ DOMAIN blocks = 1 .. n
        /\ \A i \in 1 .. n : blocks[i] = b.chain.blocks[i]
    <3>1. n \in Nat /\ n <= Len(b.chain.blocks) /\ 1 <= n
      BY <2>2, <1>2
    <3>2. \A i \in 1 .. n : i \in DOMAIN b.chain.blocks
      BY <3>1, <1>2
    <3>3. blocks = [i \in 1 .. n |-> b.chain.blocks[i]]
      BY <3>1, <1>2
    <3>4. blocks \in Seq(BlockRecord)
      BY <3>1, <1>2
    <3> HIDE DEF blocks
    <3>5. DOMAIN blocks = 1 .. n
      BY <3>3
    <3>6. Len(blocks) = n
      BY <3>1, <3>4, <3>5
    <3> QED  BY <3>3, <3>4, <3>5, <3>6
  <2> HIDE DEF blocks
  <2>4. blocks # << >>
    BY <2>2, <2>3
  <2>5. LocalBlocks(blocks, Fork(b))
    <3>1. LocalBlocks(b.chain.blocks, Fork(b))
      BY <1>1 DEF ChainFits
    <3>2. \A i \in 1 .. n : i \in DOMAIN b.chain.blocks
      BY <2>2, <1>2
    <3> QED  BY <3>1, <3>2, <2>3 DEF LocalBlocks
  <2> HIDE DEF d
  <2>6. /\ ChainFits(d, Fork(b)) /\ Consecutive(d) /\ d.pending.txs = << >>
        /\ d.base = b.chain.base
    BY <2>3, <2>4, <2>5, <1>1, RestartFits DEF d
  <2> HIDE DEF e
  <2>7. /\ BackendFits(e) /\ e.chain = d /\ e.offset = 0
        /\ e.label = b.label /\ e.host = b.host
    BY <2>6, WithFits DEF e
  <2> QED  BY <2>1, <2>6, <2>7 DEF OutcomeFits, InStep
<1> QED  BY <1>3, <1>4

(* MoveTime.                                                               *)
LEMMA MoveTimeFits ==
  ASSUME NEW b, BackendFits(b), NEW r, r = MoveTime(b)
  PROVE  /\ OutcomeFits(b, r) /\ r.result \in {"ok", "panic"}
         /\ r.result = "ok" => InStep(r.backend)
<1> DEFINE later == [b EXCEPT !.time = @ + 1]
           a == CommitBlock(later)
<1>1. b \in Backend /\ b.time + 1 \in Nat
  BY BackendFields
<1>2. /\ later \in Backend /\ later.chain = b.chain /\ later.label = b.label
      /\ later.host = b.host /\ later.forkStart = b.forkStart
  BY <1>1 DEF Backend
<1>3. r.result = (IF a.result = "ok" THEN "ok" ELSE "panic") /\ r.backend = a.backend
  BY DEF MoveTime, Outcome
<1> HIDE DEF later
<1>4. BackendFits(later)
  BY <1>2 DEF BackendFits, Fork
<1> HIDE DEF a
<1>5. OutcomeFits(later, a) /\ (a.result = "ok" => InStep(a.backend))
  BY <1>4, CommitBlockFits DEF a
<1> QED  BY <1>2, <1>3, <1>5 DEF OutcomeFits

(* Snapshots: the pending block is emptied, the offset stays.              *)
LEMMA CreateSnapshotFits ==
  ASSUME NEW b, BackendFits(b), NEW n \in Snapshot, NEW r, r = CreateSnapshot(b, n)
  PROVE  /\ OutcomeFits(b, r) /\ r.result = "ok"
         /\ InStep(b) /\ b.chain.pending.txs = << >> => InStep(r.backend)
<1> DEFINE c == Restart(b.chain, b.chain.blocks)
           snaps == [c.snaps EXCEPT ![n] = b.chain.blocks]
           d == [c EXCEPT !.snaps[n] = b.chain.blocks]
           e == With(b, d, b.offset)
<1>1. b \in Backend /\ b.chain \in Chain /\ ChainFits(b.chain, Fork(b)) /\ b.offset \in Nat
  BY BackendFields
<1>2. /\ b.chain.blocks \in Seq(BlockRecord) /\ b.chain.blocks # << >>
      /\ LocalBlocks(b.chain.blocks, Fork(b))
  BY <1>1, ChainFields DEF ChainFits
<1>3. r.result = "ok" /\ r.backend = [b EXCEPT !.chain = d]
  BY DEF CreateSnapshot, Outcome
<1> HIDE DEF c
<1>4. /\ ChainFits(c, Fork(b)) /\ Consecutive(c) /\ c.pending.txs = << >>
      /\ c.base = b.chain.base /\ c.blocks = b.chain.blocks
  BY <1>1, <1>2, RestartFits DEF c
<1>5. c \in Chain
  BY <1>4 DEF ChainFits
<1>6. c.snaps \in [Snapshot -> Seq(BlockRecord)]
  BY <1>5, ChainFields
<1>7. snaps \in [Snapshot -> Seq(BlockRecord)]
  BY <1>2, <1>6
<1>8. /\ d \in Chain /\ d.snaps = snaps /\ d.base = c.base /\ d.blocks = c.blocks
      /\ d.pending = c.pending
  <2>1. d = [c EXCEPT !.snaps = snaps]
    BY <1>5 DEF Chain
  <2> HIDE DEF d, snaps
  <2> QED  BY <2>1, <1>5, <1>7 DEF Chain
<1>9. \A m \in Snapshot : LocalBlocks(snaps[m], Fork(b))
  <2>1. \A m \in Snapshot : LocalBlocks(c.snaps[m], Fork(b))
    BY <1>4 DEF ChainFits
  <2> QED  BY <2>1, <1>2, <1>6
<1> HIDE DEF d, snaps
<1>10. Latest(d) = Latest(c)
  BY <1>8 DEF Latest
<1>11. ChainFits(d, Fork(b)) /\ Consecutive(d)
  BY <1>4, <1>8, <1>9, <1>10 DEF ChainFits, Consecutive
<1>12. [b EXCEPT !.chain = d] = e
  BY <1>1 DEF Backend, With
<1> HIDE DEF e
<1>13. /\ BackendFits(e) /\ e.chain = d /\ e.offset = b.offset
       /\ e.label = b.label /\ e.host = b.host
  BY <1>1, <1>4, <1>8, <1>11, WithFits DEF e
<1> QED  BY <1>3, <1>4, <1>8, <1>11, <1>12, <1>13 DEF OutcomeFits, InStep

(* LoadSnapshot: a snapshot's blocks, or an error and nothing changed.     *)
LEMMA LoadSnapshotFits ==
  ASSUME NEW b, BackendFits(b), NEW n \in Snapshot, NEW r, r = LoadSnapshot(b, n)
  PROVE  /\ OutcomeFits(b, r) /\ r.result \in {"ok", "error"}
         /\ r.result = "error" => r.backend = b
         /\ InStep(b) /\ b.chain.pending.txs = << >> => InStep(r.backend)
<1> DEFINE s == b.chain.snaps[n]
           d == Restart(b.chain, s)
           e == With(b, d, b.offset)
<1>1. b \in Backend /\ b.chain \in Chain /\ ChainFits(b.chain, Fork(b)) /\ b.offset \in Nat
  BY BackendFields
<1>2. s \in Seq(BlockRecord) /\ LocalBlocks(s, Fork(b))
  BY <1>1, ChainFields DEF ChainFits
<1>3. CASE s = << >>
  <2>1. r.result = "error" /\ r.backend = b
    BY <1>3 DEF LoadSnapshot, Outcome
  <2> QED  BY <2>1 DEF OutcomeFits
<1>4. CASE s # << >>
  <2>1. r.result = "ok" /\ r.backend = [b EXCEPT !.chain = d]
    BY <1>4 DEF LoadSnapshot, Outcome
  <2> HIDE DEF s, d
  <2>2. /\ ChainFits(d, Fork(b)) /\ Consecutive(d) /\ d.pending.txs = << >>
        /\ d.base = b.chain.base
    BY <1>1, <1>2, <1>4, RestartFits DEF d
  <2>3. [b EXCEPT !.chain = d] = e
    BY <1>1 DEF Backend, With
  <2> HIDE DEF e
  <2>4. /\ BackendFits(e) /\ e.chain = d /\ e.offset = b.offset
        /\ e.label = b.label /\ e.host = b.host
    BY <1>1, <2>2, WithFits DEF e
  <2> QED  BY <2>1, <2>2, <2>3, <2>4 DEF OutcomeFits, InStep
<1> QED  BY <1>3, <1>4

(* NewEmulatorBackend: a fork is of its host, and its first block is the   *)
(* network's.                                                              *)
LEMMA NewBackendFits ==
  ASSUME NEW label \in Network, NEW fork,
         fork # None => fork.host \in Network /\ fork.host # None /\ fork.height \in Nat,
         NEW b, b = NewBackend(label, fork)
  PROVE  /\ BackendFits(b) /\ InStep(b) /\ b.label = label
         /\ b.host = IF fork = None THEN None ELSE fork.host
<1> DEFINE base   == IF fork = None THEN 0
                     ELSE IF fork.height = 0 THEN RemoteHeight ELSE fork.height
           first  == IF fork = None THEN BootstrapAccounts ELSE Block(Genesis, <<"remote">>, FALSE)
           blocks == IF fork = None THEN <<first>> ELSE <<first, Block(Genesis, << >>, TRUE)>>
           pending == EmptyBlock(Last(blocks).ledger)
           snaps == [n \in Snapshot |-> << >>]
           c == [base |-> base, blocks |-> blocks, pending |-> pending, snaps |-> snaps]
           host == IF fork = None THEN None ELSE fork.host
           known == IF fork = None THEN 1 .. InitialAccounts ELSE {}
           start == IF fork = None THEN 0 ELSE base
<1>1. b = [label |-> label, host |-> host, offset |-> 0, known |-> known, time |-> 0,
           forkStart |-> start, chain |-> c]
  BY DEF NewBackend
<1>2. base \in Nat /\ start \in Nat /\ known \in SUBSET Nat /\ host \in Network \cup {None}
  BY BackendAssumption
<1>3. Genesis \in Ledger
  BY DEF Genesis, Ledger
<1>4. BootstrapAccounts \in BlockRecord /\ BootstrapAccounts.local = TRUE
  <2> DEFINE ledger == [seq |-> InitialAccounts, accounts |-> InitialAccounts, deployed |-> {}]
  <2>1. ledger \in Ledger
    BY BackendAssumption DEF Ledger
  <2> HIDE DEF ledger
  <2>2. BootstrapAccounts = Block(ledger, << >>, TRUE)
    BY DEF BootstrapAccounts, ledger
  <2> QED  BY <2>1, <2>2 DEF Block, BlockRecord
<1>5. /\ Block(Genesis, << >>, TRUE) \in BlockRecord
      /\ Block(Genesis, << >>, TRUE).local = TRUE
  BY <1>3 DEF Block, BlockRecord
<1>6. /\ Block(Genesis, <<"remote">>, FALSE) \in BlockRecord
      /\ Block(Genesis, <<"remote">>, FALSE).local = FALSE
  <2>1. <<"remote">> \in Seq(EventName)
    BY DEF EventName
  <2> QED  BY <2>1, <1>3 DEF Block, BlockRecord
<1>7. first \in BlockRecord /\ first.local = (fork = None)
  BY <1>4, <1>6
<1> HIDE DEF first
<1>8. /\ blocks \in Seq(BlockRecord) /\ blocks # << >>
      /\ LocalBlocks(blocks, fork # None)
  <2>1. CASE fork = None
    BY <2>1, <1>7 DEF LocalBlocks
  <2>2. CASE fork # None
    <3> DEFINE second == Block(Genesis, << >>, TRUE)
    <3>1. second \in BlockRecord /\ second.local = TRUE
      BY <1>5
    <3> HIDE DEF second
    <3>2. blocks = <<first, second>>
      BY <2>2 DEF second
    <3>3. first.local = FALSE
      BY <2>2, <1>7
    <3>4. <<first, second>> \in Seq(BlockRecord) /\ <<first, second>> # << >>
      BY <3>1, <1>7
    <3>5. ASSUME NEW i \in {1, 2}
          PROVE  <<first, second>>[i].local = (~(fork # None) \/ i > 1)
      <4>1. CASE i = 1
        <5>1. <<first, second>>[i] = first /\ (~(fork # None) \/ i > 1) = FALSE
          BY <4>1, <2>2
        <5> QED  BY <5>1, <3>3
      <4>2. CASE i = 2
        <5>1. <<first, second>>[i] = second /\ (~(fork # None) \/ i > 1) = TRUE
          BY <4>2
        <5> QED  BY <5>1, <3>1
      <4> QED  BY <4>1, <4>2
    <3>6. DOMAIN <<first, second>> = {1, 2}
      OBVIOUS
    <3>7. LocalBlocks(<<first, second>>, fork # None)
      BY <3>5, <3>6, Zenon DEF LocalBlocks
    <3> HIDE DEF blocks
    <3> QED  BY <3>2, <3>4, <3>7
  <2> QED  BY <2>1, <2>2
<1> HIDE DEF blocks
<1>9. Len(blocks) \in Nat \ {0} /\ Last(blocks) = blocks[Len(blocks)]
  BY <1>8 DEF Last
<1>10. Last(blocks) \in BlockRecord
  BY <1>8, <1>9
<1>11. Last(blocks).ledger \in Ledger
  BY <1>10 DEF BlockRecord
<1>12. /\ pending.txs = << >> /\ pending.done = 0 /\ pending.ledger = Last(blocks).ledger
       /\ pending \in PendingRecord
  BY <1>11 DEF EmptyBlock, PendingRecord
<1> HIDE DEF pending, base, start, host, known
<1>13. snaps \in [Snapshot -> Seq(BlockRecord)] /\ \A n \in Snapshot : snaps[n] = << >>
  OBVIOUS
<1> HIDE DEF snaps
<1>14. c \in Chain
  BY <1>2, <1>8, <1>12, <1>13 DEF Chain
<1>15. c.pending = pending /\ c.blocks = blocks /\ c.snaps = snaps /\ c.base = base
  OBVIOUS
<1> HIDE DEF c
<1>16. Latest(c) = Last(blocks)
  BY <1>15 DEF Latest
<1>17. ChainFits(c, fork # None)
  <2>1. \A n \in Snapshot : LocalBlocks(c.snaps[n], fork # None)
    BY <1>13, <1>15 DEF LocalBlocks
  <2> QED  BY <2>1, <1>8, <1>12, <1>14, <1>15, <1>16 DEF ChainFits
<1>18. Consecutive(c)
  <2>1. Last(blocks).ledger.seq \in Nat
    BY <1>11 DEF Ledger
  <2> QED  BY <2>1, <1>12, <1>15, <1>16 DEF Consecutive
<1>19. /\ b \in Backend /\ b.chain = c /\ b.host = host /\ b.label = label /\ b.offset = 0
       /\ b.forkStart = start
  BY <1>1, <1>2, <1>14 DEF Backend
<1>20. Fork(b) = (fork # None)
  BY <1>19 DEF Fork, host
<1>21. start = base /\ (fork = None => start = 0)
  BY DEF start, base
<1>22. BackendFits(b)
  BY <1>15, <1>17, <1>19, <1>20, <1>21 DEF BackendFits
<1> QED  BY <1>12, <1>15, <1>18, <1>19, <1>22 DEF InStep, host

-----------------------------------------------------------------------------
(* FlattenSeq                                                              *)

(* An empty first member adds nothing.                                     *)
LEMMA FlattenSkipsEmpty ==
  ASSUME NEW E, NEW s \in Seq(Seq(E)), Len(s) # 0, s[1] = << >>,
         NEW t \in Seq(Seq(E)), Len(t) = Len(s) - 1,
         \A i \in 1 .. Len(t) : t[i] = s[i + 1]
  PROVE  FlattenSeq(t) = FlattenSeq(s)
<1> DEFINE N == Len(t)
<1>1. N \in Nat /\ Len(s) = N + 1
  OBVIOUS
<1>2. PICK f : Flattens(f, s) /\ FlattenSeq(s) = f[N + 1]
  BY <1>1, FlattenSeqFacts
<1>3. f[1] = << >> /\ \A i \in 1 .. N : f[i + 1] = f[i] \o s[i + 1]
  <2>1. f[1] = s[1] /\ \A i \in 1 .. Len(s) - 1 : f[i + 1] = f[i] \o s[i + 1]
    BY <1>2, FlattensAt
  <2> QED  BY <2>1, <1>1
<1>4. CASE N = 0
  <2>1. FlattenSeq(t) = t
    BY <1>4 DEF FlattenSeq
  <2>2. t = << >>
    BY <1>4
  <2> QED  BY <2>1, <2>2, <1>2, <1>3, <1>4
<1>5. CASE N # 0
  <2>1. PICK g : Flattens(g, t) /\ FlattenSeq(t) = g[N]
    BY <1>5, FlattenSeqFacts
  <2>2. g[1] = t[1] /\ \A i \in 1 .. N - 1 : g[i + 1] = g[i] \o t[i + 1]
    BY <2>1, <1>5, FlattensAt
  <2>3. g[1] = f[2]
    <3>1. 1 \in 1 .. N /\ t[1] = s[2] /\ t[1] \in Seq(E)
      <4>1. 1 \in 1 .. N /\ 1 + 1 = 2
        BY <1>1, <1>5
      <4>2. t[1] = s[1 + 1]
        BY <4>1
      <4>3. t[1] \in Seq(E)
        BY <4>1
      <4> QED  BY <4>1, <4>2, <4>3
    <3>2. f[1 + 1] = f[1] \o s[1 + 1]
      BY <1>3, <3>1
    <3>3. << >> \o t[1] = t[1]
      BY <3>1
    <3> QED  BY <3>1, <3>2, <3>3, <2>2, <1>3
  <2> DEFINE S == {i \in Nat : i + 1 <= N => g[i + 1] = f[i + 2]}
  <2>4. 0 \in S
    BY <2>3
  <2>5. ASSUME NEW i \in 0 .. (N - 1) - 1, i \in S PROVE i + 1 \in S
    <3>1. i + 1 \in 1 .. N - 1 /\ i + 2 \in 1 .. N /\ i + 1 <= N /\ i \in Nat
      BY <1>1
    <3>2. g[i + 1] = f[i + 2]
      BY <2>5, <3>1
    <3>3. g[(i + 1) + 1] = g[i + 1] \o t[(i + 1) + 1]
      BY <2>2, <3>1
    <3>4. f[(i + 2) + 1] = f[i + 2] \o s[(i + 2) + 1]
      BY <1>3, <3>1
    <3>5. t[i + 2] = s[(i + 2) + 1]
      BY <3>1
    <3>6. (i + 1) + 1 = i + 2 /\ (i + 1) + 2 = (i + 2) + 1
      BY <3>1
    <3>7. g[(i + 1) + 1] = f[(i + 1) + 2]
      BY <3>2, <3>3, <3>4, <3>5, <3>6
    <3> QED  BY <3>1, <3>7
  <2> HIDE DEF S
  <2>6. 0 .. N - 1 \subseteq S
    <3>1. N - 1 \in Nat
      BY <1>1, <1>5
    <3> HIDE DEF N
    <3> QED  BY <3>1, <2>4, <2>5, Induction
  <2> HIDE DEF N
  <2>7. N - 1 \in S /\ (N - 1) + 1 = N /\ (N - 1) + 2 = N + 1
    <3>1. N - 1 \in 0 .. N - 1
      BY <1>1, <1>5
    <3> QED  BY <1>1, <2>6, <3>1
  <2>8. g[N] = f[N + 1]
    BY <2>7, <1>1 DEF S
  <2> QED  BY <2>1, <2>8, <1>2
<1> QED  BY <1>4, <1>5

(* Events gives those of the local blocks.                                 *)
LEMMA EventsFacts ==
  ASSUME NEW b, BackendFits(b)
  PROVE  Events(b) = FlattenSeq([i \in DOMAIN b.chain.blocks |->
                       IF b.chain.blocks[i].local THEN b.chain.blocks[i].events ELSE << >>])
<1> DEFINE blocks == b.chain.blocks
           n == Len(blocks)
           base == b.chain.base
           s == [i \in DOMAIN blocks |-> IF blocks[i].local THEN blocks[i].events ELSE << >>]
           start == IF Fork(b) THEN b.forkStart + 1 ELSE 0
           count == IF Height(b.chain) < start THEN 0 ELSE Height(b.chain) + 1 - start
           t == [i \in 1 .. count |-> BlockAt(b.chain, start + i - 1).events]
<1>1. b.chain \in Chain /\ ChainFits(b.chain, Fork(b)) /\ base = b.forkStart
  BY BackendFields DEF BackendFits
<1>2. /\ base \in Nat /\ blocks \in Seq(BlockRecord) /\ n \in Nat \ {0}
      /\ DOMAIN blocks = 1 .. n /\ \A i \in 1 .. n : blocks[i] \in BlockRecord
  BY <1>1, ChainFields
<1>3. Events(b) = FlattenSeq(t)
  BY DEF Events
<1>4. ASSUME NEW i \in 1 .. n
      PROVE  blocks[i].local = (~Fork(b) \/ i > 1) /\ blocks[i].events \in Seq(EventName)
  <2>1. LocalBlocks(blocks, Fork(b))
    BY <1>1 DEF ChainFits
  <2> QED  BY <2>1, <1>2 DEF LocalBlocks, BlockRecord
<1> HIDE DEF blocks, n, base
<1>5. \A i \in 1 .. n : s[i] \in Seq(EventName)
  BY <1>2, <1>4
<1>6. s \in Seq(Seq(EventName)) /\ Len(s) = n
  <2>1. s \in [1 .. n -> Seq(EventName)]
    BY <1>2, <1>5
  <2> HIDE DEF s
  <2>2. s \in Seq(Seq(EventName)) /\ DOMAIN s = 1 .. n
    BY <2>1, <1>2
  <2> QED  BY <2>2, <1>2
<1>7. CASE ~Fork(b)
  <2>1. start = 0 /\ base = 0
    BY <1>7, <1>1 DEF BackendFits
  <2>2. Height(b.chain) = n - 1
    BY <2>1, <1>2 DEF Height, n, blocks, base
  <2>3. count = n
    BY <2>1, <2>2, <1>2
  <2>4. ASSUME NEW i \in 1 .. n PROVE BlockAt(b.chain, start + i - 1).events = s[i]
    <3>1. BlockAt(b.chain, start + i - 1) = blocks[((start + i - 1) - base) + 1]
      BY DEF BlockAt, blocks, base
    <3>2. ((start + i - 1) - base) + 1 = i
      BY <2>1
    <3>3. blocks[i].local
      BY <1>4, <1>7
    <3> QED  BY <3>1, <3>2, <3>3, <1>2
  <2> HIDE DEF count, start
  <2>5. t = s
    BY <2>3, <2>4, <1>2
  <2> HIDE DEF t
  <2> QED  BY <2>5, <1>3 DEF blocks
<1>8. CASE Fork(b)
  <2>1. start = base + 1
    BY <1>1, <1>8
  <2>2. Height(b.chain) = base + n - 1
    BY DEF Height, n, blocks, base
  <2>3. count = n - 1
    BY <2>1, <2>2, <1>2
  <2> HIDE DEF start, count
  <2>4. s[1] = << >>
    <3>1. 1 \in 1 .. n /\ ~(1 > 1)
      BY <1>2
    <3>2. blocks[1].local = FALSE
      BY <3>1, <1>4, <1>8
    <3> QED  BY <3>1, <3>2, <1>2
  <2>5. ASSUME NEW i \in 1 .. n - 1 PROVE t[i] = s[i + 1] /\ t[i] \in Seq(EventName)
    <3>1. i + 1 \in 1 .. n /\ i + 1 > 1 /\ i \in 1 .. count
      BY <1>2, <2>3
    <3>2. BlockAt(b.chain, start + i - 1) = blocks[((start + i - 1) - base) + 1]
      BY DEF BlockAt, blocks, base
    <3>3. ((start + i - 1) - base) + 1 = i + 1
      BY <2>1, <1>2
    <3>4. blocks[i + 1].local = TRUE /\ blocks[i + 1].events \in Seq(EventName)
      BY <3>1, <1>4
    <3> QED  BY <3>1, <3>2, <3>3, <3>4, <1>2
  <2>6. t \in Seq(Seq(EventName)) /\ Len(t) = n - 1
    <3>1. DOMAIN t = 1 .. n - 1
      BY <2>3
    <3>2. t \in [1 .. n - 1 -> Seq(EventName)]
      BY <2>3, <2>5
    <3> HIDE DEF t
    <3>3. t \in Seq(Seq(EventName))
      BY <3>2, <1>2
    <3>4. n - 1 \in Nat
      BY <1>2
    <3> QED  BY <3>1, <3>3, <3>4
  <2>7. FlattenSeq(t) = FlattenSeq(s)
    <3> HIDE DEF s, t
    <3>1. Len(s) # 0 /\ Len(t) = Len(s) - 1
      BY <1>2, <1>6, <2>6
    <3>2. \A i \in 1 .. Len(t) : t[i] = s[i + 1]
      BY <2>5, <2>6
    <3> QED  BY <3>1, <3>2, <1>6, <2>4, <2>6, FlattenSkipsEmpty
  <2> HIDE DEF t
  <2> QED  BY <2>7, <1>3 DEF blocks
<1> QED  BY <1>7, <1>8

-----------------------------------------------------------------------------
(* The environment of the scripts: settings, backend and replies.          *)

(* Label and fork of a runner agree: without a fork the label names no     *)
(* network of the resolver, and a fork is of the network it names.         *)
Agree(c) ==
  /\ c.fork = None => c.label \notin Hosts
  /\ c.fork # None => c.fork.host = c.label

SettingsFit(c) ==
  /\ c.label \in Network
  /\ c.fork # None => c.fork.host \in Network /\ c.fork.host # None /\ c.fork.height \in Nat
  /\ Agree(config) => Agree(c)

(* Backend b fits the settings r; if those of the user agreed, it is a     *)
(* fork of the network it is named for, or of none.                        *)
BackendOf(b, r) ==
  /\ BackendFits(b)
  /\ b.label = r.label
  /\ Agree(config) => (~Fork(b) => b.label \notin Hosts) /\ (Fork(b) => b.host = b.label)

EnvInv ==
  /\ config \in Configurations
  /\ skewed \in BOOLEAN
  /\ SettingsFit(runner)
  /\ backend # None => BackendOf(backend, runner)
  /\ backend # None /\ ~skewed => InStep(backend) /\ reply.kind # "sequence"
  /\ Running => /\ backend # None /\ script \in Scripts
                /\ script.pragma # None =>
                     script.pragma.network \in Hosts /\ backend.label = script.pragma.network
  /\ reply.kind = "events" => Running /\ reply.value = Events(backend)

(* A backend is not None.                                                  *)
LEMMA BackendIsSome ==
  ASSUME NEW b, BackendFits(b)
  PROVE  b # None
BY RunnerAssumption DEF BackendFits

(* initializeEnvironment: every outcome fits its settings.                 *)
LEMMA EnvironmentsFit ==
  ASSUME EnvInv, NEW s \in Scripts, NEW e \in Environments(s)
  PROVE  /\ SettingsFit(e.runner) /\ e.fresh \in BOOLEAN
         /\ e.backend # None => /\ BackendOf(e.backend, e.runner)
                                /\ e.fresh \/ ~skewed => InStep(e.backend)
         /\ e.ok => /\ e.backend # None
                    /\ s.pragma # None => /\ s.pragma.network \in Hosts
                                          /\ e.backend.label = s.pragma.network
<1> DEFINE pr   == [label |-> s.pragma.network,
                    fork  |-> [host |-> s.pragma.network, height |-> s.pragma.height]]
           bad  == [ok |-> FALSE, fresh |-> FALSE, runner |-> runner, backend |-> backend]
           r    == IF s.pragma = None THEN runner ELSE pr
           kb   == [backend EXCEPT !.label = r.label]
           nb   == NewBackend(r.label, r.fork)
           kept == [ok |-> TRUE, fresh |-> FALSE, runner |-> r, backend |-> kb]
           new  == [ok |-> TRUE, fresh |-> TRUE, runner |-> r, backend |-> nb]
           lost == [ok |-> FALSE, fresh |-> TRUE, runner |-> r, backend |-> None]
<1>1. \/ ~PragmaFits(s) /\ e = bad
      \/ PragmaFits(s) /\ KeepsBackend(s) /\ e = kept
      \/ PragmaFits(s) /\ e = new
      \/ PragmaFits(s) /\ e = lost
  BY DEF Environments
<1>2. SettingsFit(runner) /\ (backend # None => BackendOf(backend, runner))
  BY DEF EnvInv
<1>3. ASSUME PragmaFits(s) PROVE SettingsFit(r) /\ (s.pragma # None =>
                                   s.pragma.network \in Hosts /\ r.label = s.pragma.network)
  <2>1. CASE s.pragma = None
    BY <2>1, <1>2
  <2>2. CASE s.pragma # None
    <3>1. /\ s.pragma.network \in Hosts /\ s.pragma.network # None
          /\ s.pragma.height \in Nat
      BY <2>2, <1>3, RunnerAssumption DEF PragmaFits
    <3>2. s.pragma.network \in Network
      BY <3>1 DEF Network
    <3> DEFINE fk == [host |-> s.pragma.network, height |-> s.pragma.height]
    <3>3. fk.host = s.pragma.network /\ fk.height = s.pragma.height
      OBVIOUS
    <3>4. pr.label = s.pragma.network /\ pr.fork = fk
      OBVIOUS
    <3>5. fk # None
      <4>1. fk \in [host : Hosts, height : Nat]
        BY <3>1
      <4> QED  BY <4>1, RunnerAssumption
    <3> HIDE DEF pr, fk
    <3>6. SettingsFit(pr)
      BY <3>1, <3>2, <3>3, <3>4, <3>5 DEF SettingsFit, Agree
    <3> QED  BY <2>2, <3>1, <3>4, <3>6
  <2> QED  BY <2>1, <2>2
<1> HIDE DEF r
<1>4. CASE ~PragmaFits(s) /\ e = bad
  <2>1. e.ok = FALSE /\ e.fresh = FALSE /\ e.runner = runner /\ e.backend = backend
    BY <1>4
  <2> QED  BY <2>1, <1>2 DEF EnvInv
<1>5. CASE PragmaFits(s) /\ KeepsBackend(s) /\ e = kept
  <2>1. e.ok = TRUE /\ e.fresh = FALSE /\ e.runner = r /\ e.backend = kb
    BY <1>5
  <2>2. backend # None /\ (s.pragma = None \/ backend.label = s.pragma.network)
    BY <1>5 DEF KeepsBackend
  <2>3. BackendOf(backend, runner)
    BY <2>2, <1>2
  <2>4. r.label = backend.label
    <3>1. CASE s.pragma = None
      BY <3>1, <2>3 DEF BackendOf, r
    <3>2. CASE s.pragma # None
      BY <3>2, <2>2, <1>3, <1>5
    <3> QED  BY <3>1, <3>2
  <2>5. backend \in Backend
    BY <2>3 DEF BackendOf, BackendFits
  <2>6. kb = backend
    BY <2>4, <2>5 DEF Backend
  <2> HIDE DEF kb
  <2>7. BackendOf(backend, r)
    BY <2>3, <2>4 DEF BackendOf
  <2>8. ~skewed => InStep(backend)
    BY <2>2 DEF EnvInv
  <2> QED  BY <2>1, <2>2, <2>4, <2>6, <2>7, <2>8, <1>3, <1>5
<1>6. CASE PragmaFits(s) /\ e = new
  <2>1. e.ok = TRUE /\ e.fresh = TRUE /\ e.runner = r /\ e.backend = nb
    BY <1>6
  <2>2. SettingsFit(r)
    BY <1>3, <1>6
  <2> HIDE DEF nb
  <2>3. /\ BackendFits(nb) /\ InStep(nb) /\ nb.label = r.label
        /\ nb.host = IF r.fork = None THEN None ELSE r.fork.host
    BY <2>2, NewBackendFits DEF nb, SettingsFit
  <2>4. BackendOf(nb, r)
    BY <2>2, <2>3 DEF BackendOf, SettingsFit, Agree, Fork
  <2>5. nb # None
    BY <2>3, BackendIsSome
  <2> QED  BY <2>1, <2>2, <2>3, <2>4, <2>5, <1>3, <1>6
<1>7. CASE PragmaFits(s) /\ e = lost
  <2>1. e.ok = FALSE /\ e.fresh = TRUE /\ e.runner = r /\ e.backend = None
    BY <1>7
  <2> QED  BY <2>1, <1>3, <1>7
<1> QED  BY <1>1, <1>4, <1>5, <1>6, <1>7

(* What GetTests, RunTests and RunTest do to the environment.              *)
PreparesEnv(s) ==
  /\ config' = config
  /\ \/ /\ script' = None /\ reply'.kind = "error"
        /\ UNCHANGED <<runner, backend, skewed>>
     \/ \E e \in Environments(s) :
          /\ runner' = e.runner /\ backend' = e.backend /\ skewed' = (skewed /\ ~e.fresh)
          /\ reply'.kind \in {"error", "tests", "none"}
          /\ script' = None \/ (script' = s /\ e.ok)

(* Each of the three does this.                                            *)
LEMMA PrepareSteps ==
  ASSUME NEW s, GetTests(s) \/ RunTests(s) \/ RunTest(s)
  PROVE  PreparesEnv(s)
<1>1. ASSUME GetTests(s) PROVE PreparesEnv(s)
  <2>1. CASE /\ script = None /\ reply' = [NoReply EXCEPT !.kind = "error"] /\ config' = config
             /\ UNCHANGED <<runner, backend, runVars, skewed>>
    BY <2>1 DEF PreparesEnv, NoReply, runVars
  <2>2. CASE \E e \in Environments(s) :
               /\ script = None /\ UNCHANGED runVars /\ config' = config
               /\ runner' = e.runner /\ backend' = e.backend /\ skewed' = (skewed /\ ~e.fresh)
               /\ \/ reply' = [NoReply EXCEPT !.kind = "error"]
                  \/ reply' = [kind |-> "tests", value |-> s.tests]
    <3>1. PICK e \in Environments(s) :
               /\ script = None /\ UNCHANGED runVars /\ config' = config
               /\ runner' = e.runner /\ backend' = e.backend /\ skewed' = (skewed /\ ~e.fresh)
               /\ \/ reply' = [NoReply EXCEPT !.kind = "error"]
                  \/ reply' = [kind |-> "tests", value |-> s.tests]
      BY <2>2
    <3>2. reply'.kind \in {"error", "tests", "none"}
      BY <3>1 DEF NoReply
    <3>3. script' = None
      BY <3>1 DEF runVars
    <3> QED  BY <3>1, <3>2, <3>3 DEF PreparesEnv
  <2> QED  BY <1>1, <2>1, <2>2 DEF GetTests, Prepare
<1>2. ASSUME RunTests(s) \/ RunTest(s) PROVE PreparesEnv(s)
  <2>1. CASE /\ script = None /\ reply' = [NoReply EXCEPT !.kind = "error"] /\ config' = config
             /\ UNCHANGED <<runner, backend, runVars, skewed>>
    BY <2>1 DEF PreparesEnv, NoReply, runVars
  <2>2. CASE \E e \in Environments(s) :
               /\ script = None /\ config' = config
               /\ runner' = e.runner /\ backend' = e.backend /\ skewed' = (skewed /\ ~e.fresh)
               /\ \/ reply' = [NoReply EXCEPT !.kind = "error"] /\ UNCHANGED runVars
                  \/ e.ok /\ reply' = NoReply /\ script' = s
    <3>1. PICK e \in Environments(s) :
               /\ script = None /\ config' = config
               /\ runner' = e.runner /\ backend' = e.backend /\ skewed' = (skewed /\ ~e.fresh)
               /\ \/ reply' = [NoReply EXCEPT !.kind = "error"] /\ UNCHANGED runVars
                  \/ e.ok /\ reply' = NoReply /\ script' = s
      BY <2>2
    <3>2. reply'.kind \in {"error", "tests", "none"}
      BY <3>1 DEF NoReply
    <3>3. script' = None \/ (script' = s /\ e.ok)
      BY <3>1 DEF runVars
    <3> QED  BY <3>1, <3>2, <3>3 DEF PreparesEnv
  <2> QED  BY <1>2, <2>1, <2>2 DEF RunTests, RunTest, Prepare, Begin, Usable
<1> QED  BY <1>1, <1>2

(* A script is prepared.                                                   *)
LEMMA EnvPrepare ==
  ASSUME EnvInv, NEW s \in Scripts, PreparesEnv(s)
  PROVE  EnvInv'
<1>1. config' = config /\ config' \in Configurations
  BY DEF EnvInv, PreparesEnv
<1>2. CASE script' = None /\ reply'.kind = "error" /\ UNCHANGED <<runner, backend, skewed>>
  BY <1>1, <1>2 DEF EnvInv, Running, SettingsFit, BackendOf, Agree
<1>3. ASSUME NEW e \in Environments(s),
             runner' = e.runner, backend' = e.backend, skewed' = (skewed /\ ~e.fresh),
             reply'.kind \in {"error", "tests", "none"},
             script' = None \/ (script' = s /\ e.ok)
      PROVE  EnvInv'
  <2>1. /\ SettingsFit(e.runner) /\ e.fresh \in BOOLEAN
        /\ e.backend # None => /\ BackendOf(e.backend, e.runner)
                               /\ e.fresh \/ ~skewed => InStep(e.backend)
        /\ e.ok => /\ e.backend # None
                   /\ s.pragma # None => /\ s.pragma.network \in Hosts
                                         /\ e.backend.label = s.pragma.network
    BY EnvironmentsFit
  <2>2. SettingsFit(runner)' /\ (backend' # None => BackendOf(backend, runner)')
    BY <1>1, <1>3, <2>1 DEF SettingsFit, BackendOf, Agree
  <2>3. skewed' \in BOOLEAN /\ (~skewed' => e.fresh \/ ~skewed)
    BY <1>3
  <2>4. backend' # None /\ ~skewed' => InStep(backend)' /\ reply'.kind # "sequence"
    BY <1>3, <2>1, <2>3 DEF InStep
  <2>5. Running' => /\ backend' # None /\ script' \in Scripts
                    /\ script'.pragma # None => /\ script'.pragma.network \in Hosts
                                                /\ backend'.label = script'.pragma.network
    BY <1>3, <2>1 DEF Running
  <2>6. reply'.kind # "events"
    BY <1>3
  <2> QED  BY <1>1, <2>2, <2>3, <2>4, <2>5, <2>6 DEF EnvInv
<1> QED  BY <1>2, <1>3 DEF PreparesEnv

(* A call of the backend keeps the environment, and the run where it is.   *)
CallKeeps == EnvInv' /\ reply'.kind # "results" /\ UNCHANGED runVars

(* A function of the script calls the backend, with outcome r.             *)
LEMMA EnvCalled ==
  ASSUME EnvInv, Running, NEW r, NEW skew \in BOOLEAN, Called(r, skew),
         OutcomeFits(backend, r), r.result \notin {"events", "results"},
         ~skew => InStep(r.backend) /\ r.result # "sequence"
  PROVE  CallKeeps
<1>1. /\ backend' = r.backend /\ reply'.kind = r.result /\ skewed' = skew
      /\ UNCHANGED <<config, runner, script>>
  BY DEF Called, NoReply, runVars
<1>2. BackendFits(r.backend) /\ r.backend.label = backend.label /\ r.backend.host = backend.host
  BY DEF OutcomeFits
<1>3. backend # None /\ BackendOf(backend, runner)
  BY DEF EnvInv
<1>4. backend' # None
  BY <1>1, <1>2, BackendIsSome
<1>5. BackendOf(backend, runner)'
  BY <1>1, <1>2, <1>3 DEF BackendOf, Fork, Agree
<1>6. SettingsFit(runner)'
  BY <1>1 DEF EnvInv, SettingsFit, Agree
<1>7. ~skewed' => InStep(backend)' /\ reply'.kind # "sequence"
  BY <1>1 DEF InStep
<1>8. Running' => /\ backend' # None /\ script' \in Scripts
                  /\ script'.pragma # None => /\ script'.pragma.network \in Hosts
                                              /\ backend'.label = script'.pragma.network
  BY <1>1, <1>2, <1>4 DEF EnvInv, Running
<1>9. EnvInv'
  BY <1>1, <1>4, <1>5, <1>6, <1>7, <1>8 DEF EnvInv
<1> QED  BY <1>1, <1>9 DEF CallKeeps, Called

(* A function of the script ends, or is skipped: the backend stays.        *)
LEMMA EnvStays ==
  ASSUME EnvInv, UNCHANGED <<config, runner, backend, skewed>>,
         reply'.kind \in {"error", "results", "none"}, script' \in {script, None}
  PROVE  EnvInv'
<1>1. SettingsFit(runner)' /\ (backend' # None => BackendOf(backend, runner)')
  BY DEF EnvInv, SettingsFit, BackendOf, Agree
<1>2. backend' # None /\ ~skewed' => InStep(backend)' /\ reply'.kind # "sequence"
  BY DEF EnvInv, InStep
<1>3. Running' => Running /\ script' = script
  BY DEF Running
<1> QED  BY <1>1, <1>2, <1>3 DEF EnvInv

(* The calls of the backend, one after the other.                          *)
LEMMA EnvCalls ==
  ASSUME EnvInv, Transactions
  PROVE  CallKeeps
<1> DEFINE b == backend
<1>1. Running
  BY DEF Transactions, AddTransactionCall, ExecuteNextCall, CommitBlockCall, CreateAccountCall,
         MoveTimeCall, DeployContractCall, ContractValueCall, CreateSnapshotCall,
         LoadSnapshotCall, ResetCall, RunScriptCall, EventsCall, GetAccountCall, Calling
<1>2. /\ backend # None /\ BackendFits(b) /\ skewed \in BOOLEAN
      /\ ~skewed => InStep(b) /\ reply.kind # "sequence"
  BY <1>1 DEF EnvInv, BackendOf
<1>3. ASSUME NEW k, k \notin {"events", "sequence", "results"}, Called(Outcome(k, backend), skewed)
      PROVE  CallKeeps
  <2> DEFINE r == Outcome(k, backend)
  <2>1. r.result = k /\ r.backend = backend
    BY DEF Outcome
  <2>2. Called(r, skewed)
    BY <1>3
  <2> HIDE DEF r
  <2>3. OutcomeFits(backend, r) /\ r.result \notin {"events", "results"}
    BY <2>1, <1>2, <1>3 DEF OutcomeFits
  <2>4. ~skewed => InStep(r.backend) /\ r.result # "sequence"
    BY <2>1, <1>2, <1>3
  <2> QED  BY <2>2, <2>3, <2>4, <1>1, <1>2, EnvCalled
<1>4. ASSUME NEW code \in Code, AddTransactionCall(code) PROVE CallKeeps
  <2> DEFINE r == AddTransaction(backend, code)
  <2>1. Called(r, skewed) \/ Called(Outcome("error", backend), skewed)
    BY <1>4 DEF AddTransactionCall
  <2>2. ASSUME Called(r, skewed) PROVE CallKeeps
    <3>1. code \in EventName
      BY DEF EventName
    <3> HIDE DEF r
    <3>2. /\ OutcomeFits(backend, r) /\ r.result \in {"ok", "error"}
          /\ InStep(backend) => InStep(r.backend)
      BY <3>1, <1>2, AddTransactionFits DEF r
    <3> QED  BY <2>2, <3>2, <1>1, <1>2, EnvCalled
  <2> QED  BY <2>1, <2>2, <1>3
<1>5. ASSUME ExecuteNextCall PROVE CallKeeps
  <2> DEFINE r == ExecuteNextTransaction(backend)
  <2>1. Called(r, skewed)
    BY <1>5 DEF ExecuteNextCall
  <2> HIDE DEF r
  <2>2. /\ OutcomeFits(backend, r) /\ r.result \in {"exhausted", "sequence", "failed", "ok"}
        /\ InStep(backend) => InStep(r.backend) /\ r.result # "sequence"
    BY <1>2, ExecuteNextFits DEF r
  <2> QED  BY <2>1, <2>2, <1>1, <1>2, EnvCalled
<1>6. ASSUME CommitBlockCall PROVE CallKeeps
  <2> DEFINE r == CommitBlock(backend)
             skew == r.result # "ok"
  <2>1. Called(r, skew)
    BY <1>6 DEF CommitBlockCall
  <2> HIDE DEF r
  <2>2. /\ OutcomeFits(backend, r) /\ r.result \in {"ok", "error"}
        /\ r.result = "ok" => InStep(r.backend)
    BY <1>2, CommitBlockFits DEF r
  <2>3. skew \in BOOLEAN /\ (~skew => r.result = "ok")
    OBVIOUS
  <2> HIDE DEF skew
  <2> QED  BY <2>1, <2>2, <2>3, <1>1, EnvCalled
<1>7. ASSUME NEW name \in Contract, DeployContractCall(name) PROVE CallKeeps
  <2> DEFINE r == DeployContract(backend, name)
             skew == IF r.result = "ok" THEN FALSE
                     ELSE skewed \/ r.backend.offset # Len(r.backend.chain.pending.txs)
  <2>1. Called(r, skew)
    BY <1>7 DEF DeployContractCall
  <2> HIDE DEF r
  <2>2. /\ OutcomeFits(backend, r) /\ r.result \in {"ok", "error"}
        /\ r.result = "ok" => InStep(r.backend)
        /\ InStep(backend) /\ r.backend.offset = Len(r.backend.chain.pending.txs) =>
             InStep(r.backend)
    BY <1>2, DeployContractFits DEF r
  <2>3. skew \in BOOLEAN /\ (~skew => InStep(r.backend))
    BY <2>2, <1>2
  <2> HIDE DEF skew
  <2> QED  BY <2>1, <2>2, <2>3, <1>1, EnvCalled
<1>8. ASSUME CreateAccountCall PROVE CallKeeps
  <2> DEFINE r == CreateAccount(backend)
             skew == skewed \/ Pending
  <2>1. Called(r, skew)
    BY <1>8 DEF CreateAccountCall
  <2> HIDE DEF r
  <2>2. /\ OutcomeFits(backend, r) /\ r.result \in Answers
        /\ InStep(backend) /\ backend.chain.pending.txs = << >> =>
             InStep(r.backend) /\ r.result # "sequence"
    BY <1>2, CreateAccountFits DEF r
  <2>3. skew \in BOOLEAN /\ (~skew => InStep(r.backend) /\ r.result # "sequence")
    BY <2>2, <1>2 DEF Pending
  <2> HIDE DEF skew
  <2> QED  BY <2>1, <2>2, <2>3, <1>1, EnvCalled DEF Answers
<1>9. ASSUME NEW n \in Snapshot, CreateSnapshotCall(n) PROVE CallKeeps
  <2> DEFINE r == CreateSnapshot(backend, n)
             skew == skewed \/ Pending
  <2>1. Called(r, skew)
    BY <1>9 DEF CreateSnapshotCall
  <2> HIDE DEF r
  <2>2. /\ OutcomeFits(backend, r) /\ r.result = "ok"
        /\ InStep(backend) /\ backend.chain.pending.txs = << >> => InStep(r.backend)
    BY <1>2, CreateSnapshotFits DEF r
  <2>3. skew \in BOOLEAN /\ (~skew => InStep(r.backend))
    BY <2>2, <1>2 DEF Pending
  <2> HIDE DEF skew
  <2> QED  BY <2>1, <2>2, <2>3, <1>1, EnvCalled
<1>10. ASSUME NEW n \in Snapshot, LoadSnapshotCall(n) PROVE CallKeeps
  <2> DEFINE r == LoadSnapshot(backend, n)
             skew == skewed \/ (r.result = "ok" /\ Pending)
  <2>1. Called(r, skew)
    BY <1>10 DEF LoadSnapshotCall
  <2> HIDE DEF r
  <2>2. /\ OutcomeFits(backend, r) /\ r.result \in {"ok", "error"}
        /\ r.result = "error" => r.backend = backend
        /\ InStep(backend) /\ backend.chain.pending.txs = << >> => InStep(r.backend)
    BY <1>2, LoadSnapshotFits DEF r
  <2>3. skew \in BOOLEAN /\ (~skew => InStep(r.backend))
    BY <2>2, <1>2 DEF Pending
  <2> HIDE DEF skew
  <2> QED  BY <2>1, <2>2, <2>3, <1>1, EnvCalled
<1>11. ASSUME NEW height \in 0 .. RemoteHeight + 1, ResetCall(height) PROVE CallKeeps
  <2> DEFINE r == Reset(backend, height)
             skew == IF r.result = "ok" THEN FALSE ELSE skewed
  <2>1. Called(r, skew)
    BY <1>11 DEF ResetCall
  <2> HIDE DEF r
  <2>2. /\ OutcomeFits(backend, r) /\ r.result \in {"ok", "panic"}
        /\ r.result = "ok" => InStep(r.backend)
        /\ r.result = "panic" => r.backend = backend
    <3>1. height \in Nat
      BY BackendAssumption
    <3> QED  BY <3>1, <1>2, ResetFits DEF r
  <2>3. skew \in BOOLEAN /\ (~skew => InStep(r.backend))
    BY <2>2, <1>2
  <2> HIDE DEF skew
  <2> QED  BY <2>1, <2>2, <2>3, <1>1, EnvCalled
<1>12. ASSUME MoveTimeCall PROVE CallKeeps
  <2> DEFINE r == MoveTime(backend)
             skew == r.result # "ok"
  <2>1. Called(r, skew)
    BY <1>12 DEF MoveTimeCall
  <2> HIDE DEF r
  <2>2. /\ OutcomeFits(backend, r) /\ r.result \in {"ok", "panic"}
        /\ r.result = "ok" => InStep(r.backend)
    BY <1>2, MoveTimeFits DEF r
  <2>3. skew \in BOOLEAN /\ (~skew => r.result = "ok")
    OBVIOUS
  <2> HIDE DEF skew
  <2> QED  BY <2>1, <2>2, <2>3, <1>1, EnvCalled
<1>13. ASSUME RunScriptCall PROVE CallKeeps
  BY <1>3, <1>13 DEF RunScriptCall
<1>14. ASSUME NEW a, GetAccountCall(a) PROVE CallKeeps
  <2> DEFINE k == IF GetAccount(backend, a) THEN "ok" ELSE "error"
  <2>1. Called(Outcome(k, backend), skewed)
    BY <1>14 DEF GetAccountCall
  <2>2. k \notin {"events", "sequence", "results"}
    OBVIOUS
  <2> HIDE DEF k
  <2> QED  BY <2>1, <2>2, <1>3
<1>15. ASSUME NEW name \in Contract, ContractValueCall(name) PROVE CallKeeps
  <2> DEFINE k == IF name \in Latest(backend.chain).ledger.deployed THEN "value" ELSE "panic"
  <2>1. Called(Outcome(k, backend), skewed)
    BY <1>15 DEF ContractValueCall
  <2>2. k \notin {"events", "sequence", "results"}
    OBVIOUS
  <2> HIDE DEF k
  <2> QED  BY <2>1, <2>2, <1>3
<1>16. ASSUME EventsCall PROVE CallKeeps
  <2>1. /\ reply'.kind = "events" /\ reply'.value = Events(backend)
        /\ UNCHANGED <<config, runner, backend, script, skewed>>
    BY <1>16 DEF EventsCall, runVars
  <2>2. SettingsFit(runner)' /\ BackendOf(backend, runner)'
    BY <1>2, <2>1 DEF EnvInv, SettingsFit, BackendOf, Agree
  <2>3. ~skewed' => InStep(backend)' /\ reply'.kind # "sequence"
    BY <1>2, <2>1 DEF InStep
  <2>4. Running'
    BY <1>1, <2>1 DEF Running
  <2>5. reply'.value = Events(backend)'
    BY <2>1
  <2>6. EnvInv'
    BY <2>1, <2>2, <2>3, <2>4, <2>5, <1>1 DEF EnvInv
  <2> QED  BY <1>16, <2>1, <2>6 DEF CallKeeps, EventsCall
<1> QED
  BY <1>4, <1>5, <1>6, <1>7, <1>8, <1>9, <1>10, <1>11, <1>12, <1>13, <1>14, <1>15, <1>16
  DEF Transactions

-----------------------------------------------------------------------------
(* The functions of a script: what was invoked, and the results.           *)

(* A new last member comes at the end of what FlattenSeq gives.            *)
LEMMA FlattenAppend ==
  ASSUME NEW E, NEW s \in Seq(Seq(E)), NEW x \in Seq(E)
  PROVE  FlattenSeq(Append(s, x)) = FlattenSeq(s) \o x
<1> DEFINE N == Len(s)
           u == Append(s, x)
<1>1. /\ N \in Nat /\ u \in Seq(Seq(E)) /\ Len(u) = N + 1 /\ u[N + 1] = x
      /\ \A i \in 1 .. N : u[i] = s[i]
  BY AppendProperties
<1> HIDE DEF N, u
<1>2. PICK f : Flattens(f, u) /\ FlattenSeq(u) = f[N + 1]
  BY <1>1, FlattenSeqFacts
<1>3. f[1] = u[1] /\ \A i \in 1 .. N : f[i + 1] = f[i] \o u[i + 1]
  <2>1. Len(u) # 0 /\ Len(u) - 1 = N
    BY <1>1
  <2>2. f[1] = u[1] /\ \A i \in 1 .. Len(u) - 1 : f[i + 1] = f[i] \o u[i + 1]
    <3>1. u \in Seq(Seq(E)) /\ Flattens(f, u)
      BY <1>1, <1>2
    <3> QED  BY <3>1, <2>1, FlattensAt
  <2> QED  BY <2>1, <2>2
<1>4. CASE N = 0
  <2>1. FlattenSeq(s) = s
    BY <1>4 DEF FlattenSeq, N
  <2>2. s = << >>
    BY <1>4 DEF N
  <2>3. << >> \o x = x
    BY ConcatEmptySeq
  <2>4. FlattenSeq(u) = x
    BY <1>1, <1>2, <1>3, <1>4
  <2> QED  BY <2>1, <2>2, <2>3, <2>4 DEF u
<1>5. CASE N # 0
  <2>1. PICK g : Flattens(g, s) /\ FlattenSeq(s) = g[N]
    BY <1>5, FlattenSeqFacts DEF N
  <2>2. g[1] = s[1] /\ \A i \in 1 .. N - 1 : g[i + 1] = g[i] \o s[i + 1]
    BY <2>1, <1>5, FlattensAt DEF N
  <2> DEFINE S == {i \in Nat : i + 1 <= N => g[i + 1] = f[i + 1]}
  <2>3. 0 \in S
    BY <1>1, <1>3, <1>5, <2>2
  <2>4. ASSUME NEW i \in 0 .. (N - 1) - 1, i \in S PROVE i + 1 \in S
    <3>1. i + 1 \in 1 .. N - 1 /\ i + 1 \in 1 .. N /\ (i + 1) + 1 \in 1 .. N
          /\ i + 1 <= N /\ i \in Nat
      BY <1>1
    <3>2. g[i + 1] = f[i + 1] /\ s[(i + 1) + 1] = u[(i + 1) + 1]
      BY <2>4, <3>1, <1>1
    <3>3. g[(i + 1) + 1] = g[i + 1] \o s[(i + 1) + 1]
      BY <2>2, <3>1
    <3>4. f[(i + 1) + 1] = f[i + 1] \o u[(i + 1) + 1]
      BY <1>3, <3>1
    <3>5. g[(i + 1) + 1] = f[(i + 1) + 1] /\ i + 1 \in Nat
      BY <3>1, <3>2, <3>3, <3>4
    <3> QED  BY <3>5
  <2> HIDE DEF S
  <2>5. 0 .. N - 1 \subseteq S
    <3>1. N - 1 \in Nat
      BY <1>1, <1>5
    <3> QED  BY <3>1, <2>3, <2>4, Induction
  <2>6. N - 1 \in S /\ (N - 1) + 1 = N
    <3>1. N - 1 \in 0 .. N - 1
      BY <1>1, <1>5
    <3> QED  BY <1>1, <2>5, <3>1
  <2>7. g[N] = f[N]
    BY <2>6, <1>1 DEF S
  <2>8. f[N + 1] = f[N] \o x
    <3>1. N \in 1 .. N
      BY <1>1, <1>5
    <3> QED  BY <3>1, <1>1, <1>3
  <2> QED  BY <2>1, <2>7, <2>8, <1>2 DEF u
<1> QED  BY <1>4, <1>5

(* A shuffled list has all members of the set.                             *)
LEMMA ShuffleFacts ==
  ASSUME NEW S, IsFiniteSet(S), NEW order \in SetToSeqs(S)
  PROVE  order \in Seq(S) /\ ToSet(order) = S
<1> DEFINE D == 1 .. Cardinality(S)
<1>1. Cardinality(S) \in Nat
  BY FS_CardinalityType
<1>2. order \in [D -> S] /\ \A i, j \in D : i # j => order[i] # order[j]
  BY DEF SetToSeqs
<1>3. order \in Injection(D, S)
  BY <1>2 DEF Injection, IsInjective
<1>4. Cardinality(D) = Cardinality(S)
  BY <1>1, FS_Interval
<1>5. order \in Surjection(D, S)
  BY <1>3, <1>4, FS_Injection
<1>6. ToSet(order) = S
  BY <1>2, <1>5 DEF ToSet, Surjection
<1>7. order \in Seq(S)
  BY <1>1, <1>2
<1> QED  BY <1>6, <1>7

(* The test functions of a script are finitely many.                       *)
LEMMA TestsFinite ==
  ASSUME NEW s \in Scripts
  PROVE  IsFiniteSet(ToSet(s.tests)) /\ s.tests \in Seq(ToSet(s.tests))
<1> DEFINE S == ToSet(s.tests)
           n == Len(s.tests)
<1>1. s.tests \in Seq(S)
  BY RunnerAssumption
<1>2. n \in Nat /\ DOMAIN s.tests = 1 .. n /\ s.tests \in [1 .. n -> S]
  <2> HIDE DEF S
  <2> QED  BY <1>1
<1>3. s.tests \in Surjection(1 .. n, S)
  BY <1>2 DEF Surjection, ToSet
<1>4. IsFiniteSet(1 .. n)
  BY <1>2, FS_Interval
<1>5. IsFiniteSet(S)
  <2> HIDE DEF S
  <2> QED  BY <1>3, <1>4, FS_Surjection
<1> QED  BY <1>1, <1>5

NameSet(s) == ToSet(s.tests) \cup {"setup", "beforeEach", "afterEach", "tearDown"}
Invocation(s) == [name : NameSet(s), ok : BOOLEAN]
ResultRecord(s) == [test : ToSet(s.tests), ok : BOOLEAN]
NamesOf(t) == [i \in DOMAIN t |-> t[i].name]
TestsOf(r) == {r[i].test : i \in DOMAIN r}

(* What is invoked for test function t, and for the results so far.        *)
Round(s, t) == Hook(s, "beforeEach") \o <<t>> \o Hook(s, "afterEach")
Rounds(s, r) == FlattenSeq([i \in DOMAIN r |-> Round(s, r[i].test)])
Before(s, r) == Hook(s, "setup") \o Rounds(s, r)

(* What was invoked when the run comes to the function of phase p.         *)
Progress(p, s, r, left) ==
  CASE p = "setup" -> << >>
    [] p \in {"beforeEach", "tearDown"} -> Before(s, r)
    [] p = "test" -> Before(s, r) \o Hook(s, "beforeEach")
    [] p = "afterEach" -> (Before(s, r) \o Hook(s, "beforeEach")) \o <<Head(left)>>

Phases == {"setup", "beforeEach", "test", "afterEach", "tearDown"}

(* The part of the invariant about a running script: it has invoked what   *)
(* its phase and results tell, each result is that of an invocation, and   *)
(* the results and the tests that are left make up the tests.              *)
RunFits ==
  /\ script \in Scripts
  /\ phase \in [name : Phases, single : BOOLEAN]
  /\ todo \in Seq(ToSet(script.tests))
  /\ testErr \in BOOLEAN
  /\ results \in Seq(ResultRecord(script))
  /\ trace \in Seq(Invocation(script))
  /\ phase.name \in {"beforeEach", "test", "afterEach"} => todo # << >>
  /\ phase.name = "tearDown" => todo = << >>
  /\ phase.name = "setup" => results = << >>
  /\ phase.single \/ TestsOf(results) \cup ToSet(todo) = ToSet(script.tests)
  /\ \A i \in DOMAIN results : \E j \in DOMAIN trace :
       trace[j] = [name |-> results[i].test, ok |-> results[i].ok]
  /\ phase.name = "afterEach" => \E j \in DOMAIN trace :
       trace[j] = [name |-> Head(todo), ok |-> ~testErr]
  /\ NamesOf(trace) = Progress(phase.name, script, results, todo)

RunInv ==
  /\ ~Running => phase = NoPhase
  /\ Running => RunFits

(* What a run with results has to show, at its last step.                  *)
ResultsStep ==
  reply'.kind = "results" =>
    /\ [i \in DOMAIN trace' |-> trace'[i].name] = Expected(script, results)
    /\ phase.single \/ {results[i].test : i \in DOMAIN results} = ToSet(script.tests)
    /\ \A i \in DOMAIN results : \E j \in DOMAIN trace' :
         trace'[j] = [name |-> results[i].test, ok |-> results[i].ok]

(* Types of the sequences of names.                                        *)
LEMMA NameTypes ==
  ASSUME NEW s \in Scripts, NEW r \in Seq(ResultRecord(s))
  PROVE  /\ \A h \in {"setup", "beforeEach", "afterEach", "tearDown"} :
              Hook(s, h) \in Seq(NameSet(s))
         /\ \A t \in ToSet(s.tests) :
              <<t>> \in Seq(NameSet(s)) /\ Round(s, t) \in Seq(NameSet(s))
         /\ [i \in DOMAIN r |-> Round(s, r[i].test)] \in Seq(Seq(NameSet(s)))
         /\ Rounds(s, r) \in Seq(NameSet(s)) /\ Before(s, r) \in Seq(NameSet(s))
<1> DEFINE E == NameSet(s)
           rs == [i \in DOMAIN r |-> Round(s, r[i].test)]
<1>1. ASSUME NEW h \in {"setup", "beforeEach", "afterEach", "tearDown"}
      PROVE  Hook(s, h) \in Seq(E)
  <2>1. h \in E
    BY DEF NameSet
  <2> HIDE DEF E
  <2> QED  BY <2>1 DEF Hook
<1>2. ASSUME NEW t \in ToSet(s.tests) PROVE <<t>> \in Seq(E) /\ Round(s, t) \in Seq(E)
  <2>1. t \in E
    BY DEF NameSet
  <2> HIDE DEF E
  <2>2. <<t>> \in Seq(E)
    BY <2>1
  <2>3. Hook(s, "beforeEach") \in Seq(E) /\ Hook(s, "afterEach") \in Seq(E)
    BY <1>1
  <2>4. Hook(s, "beforeEach") \o <<t>> \in Seq(E)
    BY <2>2, <2>3, ConcatProperties
  <2> QED  BY <2>2, <2>3, <2>4, ConcatProperties DEF Round
<1>3. Len(r) \in Nat /\ DOMAIN r = 1 .. Len(r) /\ \A i \in DOMAIN r : r[i].test \in ToSet(s.tests)
  <2>1. Len(r) \in Nat /\ DOMAIN r = 1 .. Len(r) /\ \A i \in DOMAIN r : r[i] \in ResultRecord(s)
    OBVIOUS
  <2> QED  BY <2>1 DEF ResultRecord
<1> HIDE DEF E
<1>4. rs \in Seq(Seq(E))
  <2>1. rs \in [1 .. Len(r) -> Seq(E)]
    BY <1>2, <1>3
  <2> HIDE DEF rs
  <2> QED  BY <2>1, <1>3
<1>5. Rounds(s, r) \in Seq(E)
  BY <1>4, FlattenType DEF Rounds
<1>6. Before(s, r) \in Seq(E)
  BY <1>1, <1>5, ConcatProperties DEF Before
<1> QED  BY <1>1, <1>2, <1>4, <1>5, <1>6 DEF E

(* One more result is one more round.                                      *)
LEMMA RoundsAppend ==
  ASSUME NEW s \in Scripts, NEW r \in Seq(ResultRecord(s)), NEW x \in ResultRecord(s)
  PROVE  Rounds(s, Append(r, x)) = Rounds(s, r) \o Round(s, x.test)
<1> DEFINE E == NameSet(s)
           rs == [i \in DOMAIN r |-> Round(s, r[i].test)]
           q == Append(r, x)
           qs == [i \in DOMAIN q |-> Round(s, q[i].test)]
<1>1. x.test \in ToSet(s.tests)
  BY DEF ResultRecord
<1>2. rs \in Seq(Seq(E)) /\ Round(s, x.test) \in Seq(E)
  BY <1>1, NameTypes
<1>3. /\ Len(r) \in Nat /\ DOMAIN r = 1 .. Len(r) /\ DOMAIN q = 1 .. Len(r) + 1
      /\ q[Len(r) + 1] = x /\ \A i \in 1 .. Len(r) : q[i] = r[i]
  OBVIOUS
<1>4. DOMAIN rs = 1 .. Len(r) /\ Len(rs) = Len(r)
  <2>1. DOMAIN rs = 1 .. Len(r)
    BY <1>3
  <2> HIDE DEF rs
  <2> QED  BY <2>1, <1>2, <1>3
<1> HIDE DEF q
<1>5. qs = Append(rs, Round(s, x.test))
  <2> DEFINE a == Append(rs, Round(s, x.test))
  <2>1. /\ DOMAIN a = 1 .. Len(r) + 1 /\ a[Len(r) + 1] = Round(s, x.test)
        /\ \A i \in 1 .. Len(r) : a[i] = rs[i]
    <3> HIDE DEF rs, E
    <3> QED  BY <1>2, <1>3, <1>4
  <2>2. a \in Seq(Seq(E))
    <3> HIDE DEF rs, E
    <3> QED  BY <1>2
  <2> HIDE DEF a
  <2>3. ASSUME NEW i \in 1 .. Len(r) + 1 PROVE qs[i] = a[i]
    <3>1. CASE i = Len(r) + 1
      BY <3>1, <1>3, <2>1
    <3>2. CASE i # Len(r) + 1
      <4>1. i \in 1 .. Len(r)
        BY <3>2, <1>3
      <4> QED  BY <4>1, <1>3, <2>1
    <3> QED  BY <3>1, <3>2
  <2>4. DOMAIN qs = 1 .. Len(r) + 1
    BY <1>3
  <2>5. qs = [i \in 1 .. Len(r) + 1 |-> qs[i]]
    BY <1>3
  <2>6. a = [i \in 1 .. Len(r) + 1 |-> a[i]]
    BY <2>1, <2>2
  <2> HIDE DEF qs
  <2> QED  BY <2>3, <2>5, <2>6 DEF a
<1>6. FlattenSeq(qs) = FlattenSeq(rs) \o Round(s, x.test)
  <2> HIDE DEF rs, qs, E
  <2> QED  BY <1>2, <1>5, FlattenAppend
<1> QED  BY <1>6 DEF Rounds, q

(* The names of one more invocation.                                       *)
LEMMA NamesAppend ==
  ASSUME NEW s \in Scripts, NEW t \in Seq(Invocation(s)), NEW x \in Invocation(s)
  PROVE  NamesOf(Append(t, x)) = NamesOf(t) \o <<x.name>> /\ NamesOf(t) \in Seq(NameSet(s))
<1> DEFINE E == NameSet(s)
           n == Len(t)
           q == Append(t, x)
           ns == NamesOf(t)
<1>1. /\ n \in Nat /\ DOMAIN t = 1 .. n /\ DOMAIN q = 1 .. n + 1 /\ q[n + 1] = x
      /\ \A i \in 1 .. n : q[i] = t[i] /\ t[i] \in Invocation(s)
  OBVIOUS
<1>2. x.name \in E /\ \A i \in 1 .. n : t[i].name \in E
  BY <1>1 DEF Invocation
<1> HIDE DEF q, E, n
<1>3. ns = [i \in 1 .. n |-> t[i].name]
  BY <1>1 DEF NamesOf
<1>4. ns \in [1 .. n -> E]
  BY <1>2, <1>3
<1> HIDE DEF ns
<1>5. ns \in Seq(E) /\ Len(ns) = n
  <2>1. ns \in Seq(E) /\ DOMAIN ns = 1 .. n
    BY <1>1, <1>4
  <2> QED  BY <2>1, <1>1
<1> DEFINE c == ns \o <<x.name>>
<1>6. <<x.name>> \in Seq(E) /\ Len(<<x.name>>) = 1 /\ <<x.name>>[1] = x.name
  BY <1>2
<1>7. /\ c \in Seq(E) /\ Len(c) = n + 1 /\ c[n + 1] = x.name
      /\ \A i \in 1 .. n : c[i] = ns[i]
  <2> DEFINE v == <<x.name>>
  <2>1. v \in Seq(E) /\ Len(v) = 1 /\ v[1] = x.name
    BY <1>6
  <2> HIDE DEF v
  <2>2. /\ ns \o v \in Seq(E) /\ Len(ns \o v) = Len(ns) + Len(v)
        /\ \A i \in 1 .. Len(ns) + Len(v) : (ns \o v)[i] =
             IF i <= Len(ns) THEN ns[i] ELSE v[i - Len(ns)]
    BY <1>5, <2>1, ConcatProperties
  <2>3. /\ ns \o v \in Seq(E) /\ Len(ns \o v) = n + 1 /\ (ns \o v)[n + 1] = x.name
        /\ \A i \in 1 .. n : (ns \o v)[i] = ns[i]
    BY <2>1, <2>2, <1>1, <1>5
  <2> QED  BY <2>3 DEF v
<1> HIDE DEF c
<1>8. NamesOf(q) = [i \in 1 .. n + 1 |-> c[i]]
  <2>1. ASSUME NEW i \in 1 .. n + 1 PROVE q[i].name = c[i]
    <3>1. CASE i = n + 1
      BY <3>1, <1>1, <1>7
    <3>2. CASE i # n + 1
      <4>1. i \in 1 .. n
        BY <3>2, <1>1
      <4> QED  BY <4>1, <1>1, <1>3, <1>7
    <3> QED  BY <3>1, <3>2
  <2> QED  BY <2>1, <1>1 DEF NamesOf
<1>9. c = [i \in 1 .. n + 1 |-> c[i]]
  BY <1>1, <1>7
<1> QED  BY <1>5, <1>8, <1>9 DEF q, c, ns, E

(* What the function of the current phase adds, if it is declared.         *)
Invoked == IF phase.name = "test" THEN <<Head(todo)>> ELSE Hook(script, phase.name)

Advances(ok) ==
  /\ trace' \in Seq(Invocation(script))
  /\ NamesOf(trace') = NamesOf(trace) \o Invoked
  /\ \A j \in DOMAIN trace : j \in DOMAIN trace' /\ trace'[j] = trace[j]
  /\ phase.name = "test" =>
       \E j \in DOMAIN trace' : trace'[j] = [name |-> Head(todo), ok |-> ok]

(* A function that returns is one more invocation.                         *)
LEMMA ReturnAdvances ==
  ASSUME RunFits, NEW ok \in BOOLEAN, Declared,
         trace' = Append(trace, [name |-> Name, ok |-> ok])
  PROVE  Advances(ok)
<1> DEFINE x == [name |-> Name, ok |-> ok]
<1>1. script \in Scripts /\ trace \in Seq(Invocation(script))
  BY DEF RunFits
<1>2. Name \in NameSet(script)
  <2>1. CASE phase.name = "test"
    <3>1. todo \in Seq(ToSet(script.tests)) /\ todo # << >>
      BY <2>1 DEF RunFits
    <3>2. Head(todo) \in ToSet(script.tests)
      BY <3>1
    <3> QED  BY <2>1, <3>2 DEF Name, NameSet
  <2>2. CASE phase.name # "test"
    BY <2>2 DEF RunFits, Phases, Name, NameSet
  <2> QED  BY <2>1, <2>2
<1>3. x \in Invocation(script) /\ x.name = Name
  BY <1>2 DEF Invocation
<1>4. Invoked = <<Name>>
  BY DEF Invoked, Name, Declared, Hook
<1> HIDE DEF x
<1>5. trace' = Append(trace, x)
  BY DEF x
<1>6. NamesOf(trace') = NamesOf(trace) \o Invoked
  BY <1>1, <1>3, <1>4, <1>5, NamesAppend
<1>7. /\ trace' \in Seq(Invocation(script))
      /\ \A j \in DOMAIN trace : j \in DOMAIN trace' /\ trace'[j] = trace[j]
      /\ \E j \in DOMAIN trace' : trace'[j] = x
  <2>1. /\ trace' \in Seq(Invocation(script)) /\ Len(trace) \in Nat
        /\ DOMAIN trace = 1 .. Len(trace) /\ DOMAIN trace' = 1 .. Len(trace) + 1
        /\ trace'[Len(trace) + 1] = x /\ \A j \in 1 .. Len(trace) : trace'[j] = trace[j]
    BY <1>1, <1>3, <1>5
  <2>2. Len(trace) + 1 \in DOMAIN trace'
    BY <2>1
  <2> QED  BY <2>1, <2>2
<1>8. phase.name = "test" => x = [name |-> Head(todo), ok |-> ok]
  BY DEF x, Name
<1> QED  BY <1>6, <1>7, <1>8 DEF Advances

(* A hook that is not declared is none.                                    *)
LEMMA SkipAdvances ==
  ASSUME RunFits, ~Declared, trace' = trace
  PROVE  Advances(TRUE)
<1>1. script \in Scripts /\ trace \in Seq(Invocation(script)) /\ phase.name # "test"
  BY DEF RunFits, Declared
<1>2. Invoked = << >>
  BY <1>1 DEF Invoked, Hook, Declared
<1>3. NamesOf(trace) \in Seq(NameSet(script))
  <2>1. NamesOf(trace) = Progress(phase.name, script, results, todo)
    BY DEF RunFits
  <2>2. /\ Before(script, results) \in Seq(NameSet(script))
        /\ Hook(script, "beforeEach") \in Seq(NameSet(script))
        /\ results \in Seq(ResultRecord(script))
    BY <1>1, NameTypes DEF RunFits
  <2>3. CASE phase.name = "setup"
    BY <2>1, <2>3 DEF Progress
  <2>4. CASE phase.name \in {"beforeEach", "tearDown"}
    BY <2>1, <2>2, <2>4 DEF Progress
  <2>5. CASE phase.name = "afterEach"
    <3>1. todo \in Seq(ToSet(script.tests)) /\ todo # << >>
      BY <2>5 DEF RunFits
    <3>2. Head(todo) \in ToSet(script.tests)
      BY <3>1
    <3>3. <<Head(todo)>> \in Seq(NameSet(script))
      BY <1>1, <2>2, <3>2, NameTypes
    <3>4. Before(script, results) \o Hook(script, "beforeEach") \in Seq(NameSet(script))
      BY <2>2, ConcatProperties
    <3>5. (Before(script, results) \o Hook(script, "beforeEach")) \o <<Head(todo)>>
            \in Seq(NameSet(script))
      BY <3>3, <3>4, ConcatProperties
    <3> QED  BY <2>1, <2>5, <3>5 DEF Progress
  <2> QED  BY <1>1, <2>3, <2>4, <2>5 DEF RunFits, Phases
<1>4. NamesOf(trace) \o << >> = NamesOf(trace)
  BY <1>3, ConcatEmptySeq
<1> QED  BY <1>1, <1>2, <1>4 DEF Advances

(* What RunFits asks of phase p, with tests left and results r: the part   *)
(* of it that a step to another phase has to establish.                    *)
PhaseFits(p, left, err, r, t) ==
  /\ p \in {"beforeEach", "test", "afterEach"} => left # << >>
  /\ p = "tearDown" => left = << >>
  /\ p = "setup" => r = << >>
  /\ phase.single \/ TestsOf(r) \cup ToSet(left) = ToSet(script.tests)
  /\ \A i \in DOMAIN r : \E j \in DOMAIN t : t[j] = [name |-> r[i].test, ok |-> r[i].ok]
  /\ p = "afterEach" => \E j \in DOMAIN t : t[j] = [name |-> Head(left), ok |-> ~err]
  /\ NamesOf(t) = Progress(p, script, r, left)

(* The run goes to phase p.                                                *)
LEMMA GotoFits ==
  ASSUME RunFits, NEW p \in Phases, NEW left \in Seq(ToSet(script.tests)), Goto(p, left),
         testErr' \in BOOLEAN, results' \in Seq(ResultRecord(script)),
         trace' \in Seq(Invocation(script)),
         PhaseFits(p, left, testErr', results', trace')
  PROVE  RunInv' /\ reply'.kind = "none" /\ script' = script
<1>1. /\ script' = script /\ script \in Scripts /\ todo' = left
      /\ phase' \in [name : Phases, single : BOOLEAN]
      /\ phase'.name = p /\ phase'.single = phase.single
  BY DEF RunFits, Goto
<1>2. reply'.kind = "none"
  BY DEF Goto, NoReply
<1>3. RunFits'
  BY <1>1 DEF RunFits, PhaseFits, TestsOf, NamesOf, Progress, Before, Rounds, Round, Hook
<1>4. Running'
  BY <1>1, RunnerAssumption DEF Running
<1> QED  BY <1>1, <1>2, <1>3, <1>4 DEF RunInv

(* The run is over.                                                        *)
LEMMA DoneFits ==
  ASSUME NEW kind, NEW value, Done(kind, value)
  PROVE  RunInv' /\ reply'.kind = kind /\ script' = None
BY DEF Done, RunInv, Running

(* Before the first result there is only setup.                            *)
LEMMA BeforeFirst ==
  ASSUME NEW s \in Scripts
  PROVE  Before(s, << >>) = Hook(s, "setup")
<1> DEFINE rs == [i \in DOMAIN << >> |-> Round(s, << >>[i].test)]
<1>1. << >> \in Seq(ResultRecord(s)) /\ << >> \in Seq(Seq(NameSet(s)))
  OBVIOUS
<1>2. rs = << >>
  OBVIOUS
<1>3. FlattenSeq(<< >>) = << >>
  BY DEF FlattenSeq
<1>4. Rounds(s, << >>) = << >>
  BY <1>2, <1>3 DEF Rounds
<1>5. Hook(s, "setup") \in Seq(NameSet(s))
  BY <1>1, NameTypes
<1> QED  BY <1>4, <1>5, ConcatEmptySeq DEF Before

(* Concatenation, as a symbol that the provers do not look into.           *)
Then(u, v) == u \o v
(* It is associative.                                                      *)
LEMMA ThenFacts ==
  ASSUME NEW E, NEW u \in Seq(E), NEW v \in Seq(E), NEW w \in Seq(E)
  PROVE  Then(u, v) \in Seq(E) /\ Then(Then(u, v), w) = Then(u, Then(v, w))
<1>1. (u \o v) \o w = u \o (v \o w)
  BY ConcatAssociative
<1>2. u \o v \in Seq(E)
  BY ConcatProperties
<1> QED  BY <1>1, <1>2 DEF Then

(* A round's names, put together one after the other.                      *)
LEMMA RoundTogether ==
  ASSUME NEW s \in Scripts, NEW r \in Seq(ResultRecord(s)), NEW x \in ResultRecord(s)
  PROVE  Before(s, Append(r, x)) =
           ((Before(s, r) \o Hook(s, "beforeEach")) \o <<x.test>>) \o Hook(s, "afterEach")
<1> DEFINE E == NameSet(s)
           a == Hook(s, "setup")
           m == Rounds(s, r)
           b == Hook(s, "beforeEach")
           t == <<x.test>>
           c == Hook(s, "afterEach")
<1>1. x.test \in ToSet(s.tests)
  BY DEF ResultRecord
<1>2. a \in Seq(E) /\ m \in Seq(E) /\ b \in Seq(E) /\ t \in Seq(E) /\ c \in Seq(E)
  BY <1>1, NameTypes
<1>3. Rounds(s, Append(r, x)) = m \o ((b \o t) \o c)
  BY RoundsAppend DEF Round
<1>4. Before(s, Append(r, x)) = a \o (m \o ((b \o t) \o c)) /\ Before(s, r) = a \o m
  BY <1>3 DEF Before
<1> HIDE DEF E, a, m, b, t, c
<1>5. a \o (m \o ((b \o t) \o c)) = (((a \o m) \o b) \o t) \o c
  <2>1. Then(a, Then(m, Then(Then(b, t), c))) = Then(Then(Then(Then(a, m), b), t), c)
    BY <1>2, ThenFacts
  <2> QED  BY <2>1 DEF Then
<1>6. Before(s, Append(r, x)) = (((a \o m) \o b) \o t) \o c
  BY <1>4, <1>5
<1> QED  BY <1>4, <1>6 DEF b, t, c

(* What follows a function, in each phase: the invariant is kept, and a    *)
(* run that ends with results has invoked what it has to.                  *)
LEMMA RunAfterwards ==
  ASSUME RunFits, NEW ok \in BOOLEAN, Advances(ok), Afterwards(ok)
  PROVE  /\ RunInv' /\ ResultsStep
         /\ reply'.kind \in {"error", "results", "none"} /\ script' \in {script, None}
<1> DEFINE s == script
           T == ToSet(script.tests)
           before == Before(s, results)
           Shows(r) == \A i \in DOMAIN r : \E j \in DOMAIN trace' :
                         trace'[j] = [name |-> r[i].test, ok |-> r[i].ok]
           GoesOn == RunInv' /\ reply'.kind = "none" /\ script' = script
<1>1. /\ script \in Scripts /\ phase \in [name : Phases, single : BOOLEAN]
      /\ todo \in Seq(T) /\ testErr \in BOOLEAN /\ results \in Seq(ResultRecord(script))
      /\ phase.single \/ TestsOf(results) \cup ToSet(todo) = T
      /\ NamesOf(trace) = Progress(phase.name, script, results, todo)
  BY DEF RunFits
<1>2. /\ trace' \in Seq(Invocation(script))
      /\ NamesOf(trace') = Progress(phase.name, script, results, todo) \o Invoked
  BY <1>1 DEF Advances
<1>3. Shows(results)
  <2>1. ASSUME NEW i \in DOMAIN results
        PROVE  \E j \in DOMAIN trace' :
                 trace'[j] = [name |-> results[i].test, ok |-> results[i].ok]
    <3>1. PICK j \in DOMAIN trace :
            trace[j] = [name |-> results[i].test, ok |-> results[i].ok]
      BY DEF RunFits
    <3>2. j \in DOMAIN trace' /\ trace'[j] = trace[j]
      BY DEF Advances
    <3> QED  BY <3>1, <3>2
  <2> QED  BY <2>1
<1>4. /\ before \in Seq(NameSet(s))
      /\ \A h \in {"setup", "beforeEach", "afterEach", "tearDown"} :
           Hook(s, h) \in Seq(NameSet(s))
  BY <1>1, NameTypes
<1>5. SUFFICES \/ GoesOn
               \/ Done("error", << >>)
               \/ Done("results", results) /\ ResultsStep
  <2>1. CASE GoesOn
    BY <2>1 DEF ResultsStep
  <2>2. CASE Done("error", << >>)
    <3>1. RunInv' /\ reply'.kind = "error" /\ script' = None
      BY <2>2, DoneFits
    <3> QED  BY <3>1 DEF ResultsStep
  <2>3. CASE Done("results", results) /\ ResultsStep
    <3>1. RunInv' /\ reply'.kind = "results" /\ script' = None
      BY <2>3, DoneFits
    <3> QED  BY <2>3, <3>1
  <2> QED  BY <1>5, <2>1, <2>2, <2>3
<1>6. CASE ~ok /\ phase.name \notin {"test", "tearDown"}
  BY <1>6 DEF Afterwards
<1>7. CASE ok /\ phase.name = "setup"
  <2>1. results = << >> /\ Goto(NextTest(todo), todo) /\ testErr' = testErr /\ results' = results
    BY <1>7 DEF RunFits, Afterwards
  <2>2. NamesOf(trace') = before
    <3>1. NamesOf(trace') = << >> \o Hook(s, "setup")
      BY <1>2, <1>7 DEF Progress, Invoked
    <3>2. before = Hook(s, "setup")
      BY <1>1, <2>1, BeforeFirst
    <3> QED  BY <1>4, <3>1, <3>2, ConcatEmptySeq
  <2>3. /\ NextTest(todo) \in {"tearDown", "beforeEach"}
        /\ NextTest(todo) = "tearDown" <=> todo = << >>
    BY DEF NextTest
  <2>4. PhaseFits(NextTest(todo), todo, testErr', results', trace')
    BY <1>1, <1>3, <2>1, <2>2, <2>3 DEF PhaseFits, Progress
  <2> QED  BY <1>1, <1>2, <2>1, <2>3, <2>4, GotoFits DEF Phases
<1>8. CASE ok /\ phase.name = "beforeEach"
  <2>1. todo # << >> /\ Goto("test", todo) /\ testErr' = testErr /\ results' = results
    BY <1>8 DEF RunFits, Afterwards
  <2>2. NamesOf(trace') = before \o Hook(s, "beforeEach")
    BY <1>2, <1>8 DEF Progress, Invoked
  <2>3. PhaseFits("test", todo, testErr', results', trace')
    BY <1>1, <1>3, <2>1, <2>2 DEF PhaseFits, Progress
  <2> QED  BY <1>1, <1>2, <2>1, <2>3, GotoFits DEF Phases
<1>9. CASE phase.name = "test"
  <2>1. todo # << >> /\ Goto("afterEach", todo) /\ testErr' = ~ok /\ results' = results
    BY <1>9 DEF RunFits, Afterwards
  <2>2. NamesOf(trace') = (before \o Hook(s, "beforeEach")) \o <<Head(todo)>>
    BY <1>2, <1>9 DEF Progress, Invoked
  <2>3. \E j \in DOMAIN trace' : trace'[j] = [name |-> Head(todo), ok |-> ~testErr']
    <3>1. ok = ~testErr'
      BY <2>1
    <3> QED  BY <1>9, <3>1 DEF Advances
  <2>4. PhaseFits("afterEach", todo, testErr', results', trace')
    BY <1>1, <1>3, <2>1, <2>2, <2>3 DEF PhaseFits, Progress
  <2>5. testErr' \in BOOLEAN
    BY <2>1
  <2> QED  BY <1>1, <1>2, <2>1, <2>4, <2>5, GotoFits DEF Phases
<1>10. CASE ok /\ phase.name = "afterEach"
  <2> DEFINE x == [test |-> Head(todo), ok |-> ~testErr]
             left == Tail(todo)
             q == Append(results, x)
  <2>1. /\ todo # << >> /\ Goto(NextTest(left), left) /\ testErr' = testErr
        /\ results' = q
    BY <1>10 DEF RunFits, Afterwards
  <2>2. Head(todo) \in T /\ left \in Seq(T) /\ ToSet(todo) = {Head(todo)} \cup ToSet(left)
    <3>1. /\ Len(todo) \in Nat \ {0} /\ DOMAIN todo = 1 .. Len(todo) /\ Head(todo) = todo[1]
          /\ DOMAIN left = 1 .. Len(todo) - 1 /\ left \in Seq(T) /\ todo[1] \in T
          /\ \A i \in 1 .. Len(todo) - 1 : left[i] = todo[i + 1]
      BY <1>1, <2>1
    <3>2. ToSet(todo) = {todo[1]} \cup ToSet(left)
      <4>1. ToSet(todo) = {todo[i] : i \in 1 .. Len(todo)}
        BY <3>1 DEF ToSet
      <4>2. ToSet(left) = {left[i] : i \in 1 .. Len(todo) - 1}
        BY <3>1 DEF ToSet
      <4>3. ASSUME NEW i \in 1 .. Len(todo), i # 1
            PROVE  todo[i] = left[i - 1] /\ i - 1 \in 1 .. Len(todo) - 1
        BY <3>1, <4>3
      <4>4. ASSUME NEW i \in 1 .. Len(todo) - 1
            PROVE  left[i] = todo[i + 1] /\ i + 1 \in 1 .. Len(todo)
        BY <3>1
      <4>5. 1 \in 1 .. Len(todo)
        BY <3>1
      <4> HIDE DEF left
      <4> QED  BY <4>1, <4>2, <4>3, <4>4, <4>5
    <3> QED  BY <3>1, <3>2
  <2>3. x \in ResultRecord(s) /\ x.test = Head(todo) /\ x.ok = ~testErr
    BY <1>1, <2>2 DEF ResultRecord
  <2>4. PICK k \in DOMAIN trace' : trace'[k] = [name |-> x.test, ok |-> x.ok]
    <3>1. PICK j \in DOMAIN trace : trace[j] = [name |-> Head(todo), ok |-> ~testErr]
      BY <1>10 DEF RunFits
    <3>2. j \in DOMAIN trace' /\ trace'[j] = trace[j]
      BY DEF Advances
    <3> QED  BY <3>1, <3>2, <2>3
  <2>5. NamesOf(trace') = Before(s, q)
    <3>1. NamesOf(trace') =
            ((before \o Hook(s, "beforeEach")) \o <<x.test>>) \o Hook(s, "afterEach")
      BY <1>2, <1>10, <2>3 DEF Progress, Invoked
    <3> HIDE DEF x
    <3> QED  BY <1>1, <2>3, <3>1, RoundTogether
  <2> HIDE DEF x
  <2>6. /\ q \in Seq(ResultRecord(s)) /\ DOMAIN q = DOMAIN results \cup {Len(results) + 1}
        /\ q[Len(results) + 1] = x /\ \A i \in DOMAIN results : q[i] = results[i]
    BY <1>1, <2>3
  <2> HIDE DEF q, left
  <2>7. Shows(q)
    BY <1>3, <2>4, <2>6
  <2>8. TestsOf(q) = TestsOf(results) \cup {Head(todo)}
    BY <2>3, <2>6 DEF TestsOf
  <2>9. phase.single \/ TestsOf(q) \cup ToSet(left) = T
    BY <1>1, <2>2, <2>8
  <2>10. /\ NextTest(left) \in {"tearDown", "beforeEach"}
         /\ NextTest(left) = "tearDown" <=> left = << >>
    BY DEF NextTest
  <2>11. PhaseFits(NextTest(left), left, testErr', results', trace')
    BY <2>1, <2>5, <2>7, <2>9, <2>10 DEF PhaseFits, Progress
  <2> QED  BY <1>1, <1>2, <2>1, <2>2, <2>6, <2>10, <2>11, GotoFits DEF Phases
<1>11. CASE phase.name = "tearDown"
  <2>1. todo = << >> /\ Done("results", results)
    BY <1>11 DEF RunFits, Afterwards
  <2>2. NamesOf(trace') = Expected(s, results)
    BY <1>2, <1>11 DEF Progress, Invoked, Expected, Before, Rounds, Round
  <2>3. phase.single \/ TestsOf(results) = T
    <3>1. ToSet(todo) = {}
      BY <2>1 DEF ToSet
    <3> QED  BY <1>1, <3>1
  <2>4. ResultsStep
    BY <1>3, <2>2, <2>3 DEF ResultsStep, NamesOf, TestsOf
  <2> QED  BY <2>1, <2>4
<1> QED  BY <1>1, <1>6, <1>7, <1>8, <1>9, <1>10, <1>11 DEF Phases

(* A script begins, with all its test functions or with one.               *)
LEMMA BeginFits ==
  ASSUME NEW s \in Scripts, NEW tests \in Seq(ToSet(s.tests)), NEW single \in BOOLEAN,
         single \/ ToSet(tests) = ToSet(s.tests), Begin(s, tests, single)
  PROVE  RunInv'
<1>1. /\ script' = s /\ phase' = [name |-> "setup", single |-> single] /\ todo' = tests
      /\ testErr' = FALSE /\ results' = << >> /\ trace' = << >>
  BY DEF Begin
<1>2. /\ phase' \in [name : Phases, single : BOOLEAN] /\ phase'.name = "setup"
      /\ phase'.single = single
  BY <1>1 DEF Phases
<1>3. results' \in Seq(ResultRecord(s)) /\ trace' \in Seq(Invocation(s))
  BY <1>1
<1>4. TestsOf(results') = {} /\ NamesOf(trace') = << >>
  BY <1>1 DEF TestsOf, NamesOf
<1>5. NamesOf(trace') = Progress("setup", s, results', todo')
  BY <1>4 DEF Progress
<1>6. \A i \in DOMAIN results' : \E j \in DOMAIN trace' :
        trace'[j] = [name |-> results'[i].test, ok |-> results'[i].ok]
  BY <1>1
<1>7. single \/ TestsOf(results') \cup ToSet(tests) = ToSet(s.tests)
  BY <1>4
<1>8. RunFits'
  <2>1. /\ script' \in Scripts /\ todo' \in Seq(ToSet(script'.tests)) /\ testErr' \in BOOLEAN
        /\ results' \in Seq(ResultRecord(script')) /\ trace' \in Seq(Invocation(script'))
        /\ phase'.single \/ TestsOf(results') \cup ToSet(todo') = ToSet(script'.tests)
        /\ NamesOf(trace') = Progress(phase'.name, script', results', todo')
    BY <1>1, <1>2, <1>3, <1>5, <1>7
  <2> QED  BY <1>1, <1>2, <1>6, <2>1 DEF RunFits
<1> QED  BY <1>1, <1>8, RunnerAssumption DEF RunInv, Running

(* A script is prepared: it does not begin, or it begins.                  *)
LEMMA RunPrepare ==
  ASSUME RunInv, NEW s \in Scripts, GetTests(s) \/ RunTests(s) \/ RunTest(s)
  PROVE  RunInv'
<1>1. CASE script = None /\ UNCHANGED runVars
  BY <1>1 DEF RunInv, Running, runVars
<1>2. CASE \E shuffle \in Shuffled :
             \E order \in IF shuffle THEN SetToSeqs(ToSet(s.tests)) ELSE {s.tests} :
               Begin(s, order, FALSE)
  <2>1. PICK order : /\ order = s.tests \/ order \in SetToSeqs(ToSet(s.tests))
                     /\ Begin(s, order, FALSE)
    BY <1>2
  <2>2. IsFiniteSet(ToSet(s.tests)) /\ s.tests \in Seq(ToSet(s.tests))
    BY TestsFinite
  <2>3. order \in Seq(ToSet(s.tests)) /\ ToSet(order) = ToSet(s.tests)
    BY <2>1, <2>2, ShuffleFacts
  <2> QED  BY <2>1, <2>3, BeginFits
<1>3. CASE \E t \in ToSet(s.tests) : Begin(s, <<t>>, TRUE)
  <2>1. PICK t \in ToSet(s.tests) : Begin(s, <<t>>, TRUE)
    BY <1>3
  <2>2. <<t>> \in Seq(ToSet(s.tests))
    OBVIOUS
  <2> QED  BY <2>1, <2>2, BeginFits
<1>4. GetTests(s) => script = None /\ UNCHANGED runVars
  BY DEF GetTests, Prepare
<1>5. RunTests(s) => \/ script = None /\ UNCHANGED runVars
                     \/ \E shuffle \in Shuffled :
                          \E order \in IF shuffle THEN SetToSeqs(ToSet(s.tests)) ELSE {s.tests} :
                            Begin(s, order, FALSE)
  BY DEF RunTests, Prepare
<1>6. RunTest(s) => \/ script = None /\ UNCHANGED runVars
                    \/ \E t \in ToSet(s.tests) : Begin(s, <<t>>, TRUE)
  BY DEF RunTest, Prepare
<1> QED  BY <1>1, <1>2, <1>3, <1>4, <1>5, <1>6

-----------------------------------------------------------------------------
(* The inductive invariant.                                                *)
RunnerInv == EnvInv /\ RunInv

(* It holds for a new runner.                                              *)
LEMMA RunnerStarts ==
  ASSUME RunnerInit
  PROVE  RunnerInv
<1>1. config \in Configurations /\ runner = config
  BY DEF RunnerInit
<1>2. SettingsFit(runner)
  BY <1>1, RunnerAssumption DEF SettingsFit, Network
<1>3. backend = None /\ script = None /\ skewed = FALSE /\ reply.kind = "none" /\ phase = NoPhase
  BY DEF RunnerInit, NoReply
<1>4. EnvInv
  BY <1>1, <1>2, <1>3 DEF EnvInv, Running
<1>5. RunInv
  BY <1>3 DEF RunInv, Running
<1> QED  BY <1>4, <1>5 DEF RunnerInv

(* Every step keeps the invariant, and only the end of a complete run      *)
(* gives results.                                                          *)
LEMMA RunnerStep ==
  ASSUME RunnerInv, RunnerNext
  PROVE  RunnerInv' /\ ResultsStep
<1>1. EnvInv /\ RunInv
  BY DEF RunnerInv
<1>2. ASSUME NEW s \in Scripts, GetTests(s) \/ RunTests(s) \/ RunTest(s)
      PROVE  RunnerInv' /\ ResultsStep
  <2>1. PreparesEnv(s)
    BY <1>2, PrepareSteps
  <2>2. EnvInv'
    BY <1>1, <2>1, EnvPrepare
  <2>3. RunInv'
    BY <1>1, <1>2, RunPrepare
  <2>4. reply'.kind # "results"
    BY <2>1 DEF PreparesEnv
  <2> QED  BY <2>2, <2>3, <2>4 DEF RunnerInv, ResultsStep
<1>3. ASSUME NEW ok \in BOOLEAN, Running, Advances(ok), Afterwards(ok),
             UNCHANGED <<config, runner, backend, skewed>>
      PROVE  RunnerInv' /\ ResultsStep
  <2>1. RunFits
    BY <1>1, <1>3 DEF RunInv
  <2>2. /\ RunInv' /\ ResultsStep
        /\ reply'.kind \in {"error", "results", "none"} /\ script' \in {script, None}
    BY <1>3, <2>1, RunAfterwards
  <2>3. EnvInv'
    BY <1>1, <1>3, <2>2, EnvStays
  <2> QED  BY <2>2, <2>3 DEF RunnerInv
<1>4. ASSUME NEW ok \in BOOLEAN, Return(ok) PROVE RunnerInv' /\ ResultsStep
  <2>1. /\ Running /\ Declared /\ Afterwards(ok)
        /\ trace' = Append(trace, [name |-> Name, ok |-> ok])
        /\ UNCHANGED <<config, runner, backend, skewed>>
    BY <1>4 DEF Return
  <2>2. RunFits
    BY <1>1, <2>1 DEF RunInv
  <2>3. Advances(ok)
    BY <2>1, <2>2, ReturnAdvances
  <2> QED  BY <1>3, <2>1, <2>3
<1>5. ASSUME SkipHook PROVE RunnerInv' /\ ResultsStep
  <2>1. /\ Running /\ ~Declared /\ Afterwards(TRUE) /\ trace' = trace
        /\ UNCHANGED <<config, runner, backend, skewed>>
    BY <1>5 DEF SkipHook
  <2>2. RunFits
    BY <1>1, <2>1 DEF RunInv
  <2>3. Advances(TRUE)
    BY <2>1, <2>2, SkipAdvances
  <2> QED  BY <1>3, <2>1, <2>3
<1>6. ASSUME SingleTestPanics PROVE RunnerInv' /\ ResultsStep
  <2>1. Done("error", << >>) /\ UNCHANGED <<config, runner, backend, skewed>>
    BY <1>6 DEF SingleTestPanics
  <2>2. RunInv' /\ reply'.kind = "error" /\ script' = None
    BY <2>1, DoneFits
  <2>3. EnvInv'
    BY <1>1, <2>1, <2>2, EnvStays
  <2> QED  BY <2>2, <2>3 DEF RunnerInv, ResultsStep
<1>7. ASSUME Transactions PROVE RunnerInv' /\ ResultsStep
  <2>1. EnvInv' /\ reply'.kind # "results" /\ UNCHANGED runVars
    BY <1>1, <1>7, EnvCalls DEF CallKeeps
  <2>2. RunInv'
    BY <1>1, <2>1 DEF RunInv, RunFits, runVars, Running
  <2> QED  BY <2>1, <2>2 DEF RunnerInv, ResultsStep
<1> QED  BY <1>2, <1>4, <1>5, <1>6, <1>7 DEF RunnerNext

(* A step that changes nothing keeps it.                                   *)
LEMMA RunnerStutters ==
  ASSUME RunnerInv, UNCHANGED runnerVars
  PROVE  RunnerInv'
<1>1. UNCHANGED <<config, runner, backend, script, phase, todo, testErr, results, trace, reply,
                  skewed>>
  BY DEF runnerVars, runVars
<1>2. EnvInv'
  BY <1>1 DEF RunnerInv, EnvInv, SettingsFit, BackendOf, Agree, InStep, Running
<1>3. RunInv'
  BY <1>1 DEF RunnerInv, RunInv, RunFits, Running
<1> QED  BY <1>2, <1>3 DEF RunnerInv

-----------------------------------------------------------------------------
(* The invariant holds in every state of every session.                    *)
THEOREM RunnerInvariant == RunnerSpec => []RunnerInv
<1>1. RunnerInit => RunnerInv
  BY RunnerStarts
<1>2. RunnerInv /\ [RunnerNext]_runnerVars => RunnerInv'
  BY RunnerStep, RunnerStutters
<1> QED  BY <1>1, <1>2, PTL DEF RunnerSpec

(* Type correctness: a script runs on a backend whose pending block goes   *)
(* on from its last block.                                                 *)
THEOREM RunnerTypeCorrect == RunnerSpec => []RunnerTypeOK
<1>1. ASSUME RunnerInv PROVE RunnerTypeOK
  <2>1. EnvInv /\ RunInv
    BY <1>1 DEF RunnerInv
  <2>2. Running => backend # None /\ script \in Scripts
    BY <2>1 DEF EnvInv
  <2>3. /\ phase.name \in {"idle", "setup", "beforeEach", "test", "afterEach", "tearDown"}
        /\ phase.name = "test" => todo # << >>
    <3>1. CASE Running
      BY <2>1, <3>1 DEF RunInv, RunFits, Phases
    <3>2. CASE ~Running
      BY <2>1, <3>2 DEF RunInv, NoPhase
    <3> QED  BY <3>1, <3>2
  <2>4. ASSUME backend # None
        PROVE  /\ backend \in Backend
               /\ backend.chain.pending.done <= Len(backend.chain.pending.txs)
               /\ backend.label = runner.label
               /\ backend.chain.pending.done = 0 =>
                    backend.chain.pending.ledger = Latest(backend.chain).ledger
    BY <2>1, <2>4 DEF EnvInv, BackendOf, BackendFits, ChainFits
  <2> QED  BY <2>2, <2>3, <2>4 DEF RunnerTypeOK
<1> QED  BY <1>1, RunnerInvariant, PTL

(* blockOffset is the number of transactions in the pending block, whose   *)
(* sequence numbers are consecutive, so that none is refused for its       *)
(* number, whatever tests and scripts did before.                          *)
THEOREM OffsetTracks == RunnerSpec => []OffsetTracksBlock
<1>1. ASSUME RunnerInv PROVE OffsetTracksBlock
  BY <1>1 DEF RunnerInv, EnvInv, OffsetTracksBlock, InStep, Consecutive
<1> QED  BY <1>1, RunnerInvariant, PTL

(* initializeEnvironment: a script with a test_fork pragma runs on a fork  *)
(* of the network that it names.                                           *)
THEOREM RunnerForkFits == RunnerSpec => []ForkFits
<1>1. ASSUME RunnerInv PROVE ForkFits
  <2>1. SUFFICES ASSUME Running, script.pragma # None, Agree(config)
                 PROVE  backend.host = script.pragma.network
    BY DEF ForkFits, Agree
  <2>2. /\ backend # None /\ BackendOf(backend, runner)
        /\ script.pragma.network \in Hosts /\ backend.label = script.pragma.network
    BY <1>1, <2>1 DEF RunnerInv, EnvInv
  <2> QED  BY <2>1, <2>2 DEF BackendOf
<1> QED  BY <1>1, RunnerInvariant, PTL

(* Events: the events of all blocks made here, in order, and none of the   *)
(* forked network's.                                                       *)
THEOREM RunnerEventsLocal == RunnerSpec => []EventsLocal
<1>1. ASSUME RunnerInv PROVE EventsLocal
  <2>1. SUFFICES ASSUME reply.kind = "events" PROVE EventsLocal
    BY DEF EventsLocal
  <2>2. Running /\ reply.value = Events(backend) /\ BackendFits(backend)
    BY <1>1, <2>1 DEF RunnerInv, EnvInv, BackendOf
  <2> QED  BY <2>2, EventsFacts DEF EventsLocal
<1> QED  BY <1>1, RunnerInvariant, PTL

(* RunTests and RunTest: a run that gives results has invoked setup, each  *)
(* test function between its hooks, and tearDown, in order, and has the    *)
(* result of each test function's own invocation.                          *)
THEOREM RunnerResultsComplete == RunnerSpec => ResultsComplete
<1>1. RunnerInv /\ [RunnerNext]_runnerVars => [ResultsStep]_runnerVars
  BY RunnerStep
<1> QED  BY <1>1, RunnerInvariant, PTL DEF RunnerSpec, ResultsComplete, ResultsStep
=============================================================================
