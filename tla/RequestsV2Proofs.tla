------------------------- MODULE RequestsV2Proofs -------------------------
(***************************************************************************)
(* Proofs about the requests of the v2 server and its import resolvers,    *)
(* for any locations, documents, import declarations and flow.json, any    *)
(* cache capacity and bound on sessions, and any number of edits and       *)
(* requests.                                                               *)
(*                                                                         *)
(* ReqInv is the inductive invariant.  Its parts beside typing:            *)
(*                                                                         *)
(*  - ResolverFits, FilesSeen: what the resolver keeps of a flow.json      *)
(*    whose modification time it has is that file, and what a job between  *)
(*    its two looks would find is what a flow.json it could have seen says;*)
(*  - SessionsFit: the sessions are the last ones offered, in order, and   *)
(*    their ids grow, so that the one that is dropped is the oldest only;  *)
(*  - JobEdges, CacheEdges, GotEdges: whatever was checked against the     *)
(*    current text of a document, on its way to the cache, in it, or in    *)
(*    the hands of a handler, has an edge for every import it got.         *)
(***************************************************************************)
EXTENDS RequestsV2, ValueLemmas, FiniteSetTheorems

(* The values of the variables.                                            *)
ResolverRecord ==
  [nil : BOOLEAN, paths : [Name -> {"none", "manual", "installed"}],
   loadErr : {"none", "notFound", "error"}, lastMod : Nat]
FrameRecord == [loc : Loc, src : Nat, todo : Seq(Loc), deps : SUBSET (Loc \X Nat)]
JobPc == {"idle", "run", "read", "edge", "put"}
JobRecord ==
  [pc : JobPc, root : Doc \cup {None}, stack : Seq(FrameRecord), cancelled : BOOLEAN,
   edge : Loc \cup {None}, files : SUBSET FlowJsonFile, fits : BOOLEAN]
MainRecord ==
  [pc : {"idle", "check", "wait", "reply"}, kind : {"none", "check", "request", "workspace"},
   uri : Doc \cup {None}, todo : SUBSET Doc, acc : SUBSET Loc, got : Checker]
Session == [id : Nat, kind : {"member", "range"}]

FileTyped == flowJson \in FlowJsonFile /\ writes \in Nat /\ resolver \in ResolverRecord
HostTyped ==
  /\ docs \in [Doc -> Nat] /\ revision \in Nat
  /\ \A u \in Doc : docs[u] <= revision
  /\ edges \in SUBSET (Doc \X Loc) /\ IsFiniteSet(edges)
  /\ pending \in SUBSET Doc /\ made \in Nat
CacheTyped ==
  /\ Coherent(Loc, Checker, cache)
  /\ \A x \in Contents(cache.order) : x.entry.loc = x.key
JobsTyped == jobs \in [Goroutine -> JobRecord]
MainTyped == main \in MainRecord
SessionsTyped ==
  /\ sessions \in SUBSET Session /\ order \in Seq(Nat) /\ offered \in Seq(Session)
  /\ requests \in Nat

(* A resolver that has the modification time of a file has that file.      *)
Follows(r, file) ==
  /\ r.lastMod <= file.mtime
  /\ ~r.nil /\ r.lastMod = file.mtime =>
       /\ file.state = "good" => r.paths = PathsOf(file) /\ r.loadErr = "none"
       /\ file.state = "broken" => r.loadErr # "none"
ResolverFits == flowJson.mtime = writes + 1 /\ Follows(resolver, flowJson)

(* A job between its two looks could have seen the file as it is, and      *)
(* finds what one of those it could have seen says.                        *)
FilesSeen ==
  \A g \in Goroutine : jobs[g].pc = "read" =>
    /\ flowJson \in jobs[g].files
    /\ \E f \in jobs[g].files : \A l \in Name : LookupContract(resolver, l) = ResolveAfresh(f, l)

(* What a job is about.                                                    *)
JobFits(j) ==
  j.pc # "idle" =>
    /\ j.root \in Doc /\ j.stack # << >> /\ j.stack[1].loc = j.root
    /\ j.stack[1].src \in 1 .. revision
    /\ \A i \in 1 .. Len(j.stack) - 1 : j.stack[i].todo # << >>
    /\ j.pc = "read" => Last(j.stack).todo # << >> /\ Head(Last(j.stack).todo) \in Name
    /\ j.pc = "edge" => j.edge \in Loc
    /\ j.pc = "put" => Len(j.stack) = 1
JobsFit == \A g \in Goroutine : JobFits(jobs[g])

(* What the handler is about.                                              *)
MainFits ==
  /\ main.pc # "idle" => main.uri \in Doc
  /\ main.pc # "idle" /\ main.got # NoChecker => main.got.loc = main.uri
  /\ jobs["main"].pc # "idle" => main.pc = "wait" /\ jobs["main"].root = main.uri

-----------------------------------------------------------------------------
(* The completion sessions: the last ones offered, with growing ids.       *)
First == Len(offered) - Len(order) + 1
SessionsFit ==
  /\ Len(order) = IF Len(offered) <= MaxSessions THEN Len(offered) ELSE MaxSessions
  /\ \A i \in DOMAIN order : order[i] = offered[(First - 1) + i].id
  /\ sessions = {offered[i] : i \in First .. Len(offered)}
  /\ \A i, j \in DOMAIN offered : i < j => offered[i].id < offered[j].id
  /\ \A i \in DOMAIN offered : offered[i].id <= requests
  /\ main.pc # "idle" /\ main.kind = "request" =>
       \A i \in DOMAIN offered : offered[i].id < requests

-----------------------------------------------------------------------------
(* Imports leave their edges.                                              *)
Linked(w, deps) == \A d \in deps : <<w, d[1]>> \in edges

JobLinked(j) ==
  j.pc # "idle" /\ j.stack[1].src = docs[j.root] =>
    \A d \in j.stack[1].deps : \/ <<j.root, d[1]>> \in edges
                               \/ j.pc = "edge" /\ j.edge = d[1]
JobEdges == \A g \in Goroutine : JobLinked(jobs[g])
CacheEdges ==
  \A x \in Contents(cache.order) :
    x.key \in Doc /\ CurrentCheck(x.entry, x.key) => Linked(x.key, x.entry.deps)
GotEdges ==
  main.pc # "idle" /\ CurrentCheck(main.got, main.uri) => Linked(main.uri, main.got.deps)

ReqTyped ==
  /\ FileTyped /\ HostTyped /\ CacheTyped /\ JobsTyped /\ MainTyped /\ SessionsTyped
ReqFits == ResolverFits /\ FilesSeen /\ ResolvesFromFile /\ JobsFit /\ MainFits
ReqInv == ReqTyped /\ ReqFits /\ SessionsFit /\ JobEdges /\ CacheEdges /\ GotEdges

-----------------------------------------------------------------------------
(* Facts about the constants and the constant records.                     *)
LEMMA Constants ==
  /\ Doc \subseteq Loc /\ None \notin Loc /\ None \notin Doc /\ Name \subseteq Loc
  /\ MaxSessions \in Nat \ {0}
  /\ MaxWrites \in Nat /\ CacheCapacity \in Int
BY RequestsAssumption, ResolverAssumption DEF Name

LEMMA ConstantRecords ==
  /\ NoChecker \in Checker /\ Idle \in MainRecord /\ NoJob \in JobRecord
  /\ Idle.pc = "idle" /\ NoJob.pc = "idle" /\ NoJob.fits /\ ~NoChecker.own
<1>1. NoChecker \in Checker /\ ~NoChecker.own
  BY DEF NoChecker, Checker
<1>2. Idle \in MainRecord /\ Idle.pc = "idle"
  BY <1>1 DEF Idle, MainRecord
<1>3. << >> \in Seq(FrameRecord)
  OBVIOUS
<1>4. NoJob \in JobRecord /\ NoJob.pc = "idle" /\ NoJob.fits
  BY <1>3 DEF NoJob, JobRecord, JobPc
<1> QED  BY <1>1, <1>2, <1>4

(* What an import declaration needs is a list of locations.                *)
LEMMA ImportsOfType ==
  ASSUME NEW l \in Loc
  PROVE  ImportsOf(l) \in Seq(Loc)
<1> DEFINE D == [from : Loc, ids : Seq(Loc)]
           ds == Declared[l]
           s == [i \in DOMAIN ds |-> ResolvedLocations(ds[i])]
<1>1. ds \in Seq(D)
  BY RequestsAssumption
<1>2. ASSUME NEW i \in DOMAIN ds PROVE ResolvedLocations(ds[i]) \in Seq(Loc)
  <2>1. ds[i] \in D
    <3> HIDE DEF ds, D
    <3> QED  BY <1>1, <1>2
  <2>2. ds[i].from \in Loc /\ ds[i].ids \in Seq(Loc)
    <3> HIDE DEF ds
    <3> QED  BY <2>1
  <2>3. <<ds[i].from>> \in Seq(Loc)
    BY <2>2
  <2> QED  BY <2>2, <2>3 DEF ResolvedLocations
<1>3. s \in Seq(Seq(Loc))
  <2>1. DOMAIN ds = 1 .. Len(ds) /\ Len(ds) \in Nat
    BY <1>1
  <2> HIDE DEF ds
  <2>2. s \in [1 .. Len(ds) -> Seq(Loc)]
    BY <1>2, <2>1
  <2> HIDE DEF s
  <2> QED  BY <2>1, <2>2
<1>4. FlattenSeq(s) \in Seq(Loc)
  <2> HIDE DEF s
  <2> QED  BY <1>3, FlattenType
<1> QED  BY <1>4 DEF ImportsOf

LEMMA FrameType ==
  ASSUME NEW l \in Loc, NEW v \in Nat
  PROVE  /\ Frame(l, v) \in FrameRecord
         /\ Frame(l, v).loc = l /\ Frame(l, v).src = v /\ Frame(l, v).deps = {}
BY ImportsOfType DEF Frame, FrameRecord

(* The import in hand is done: only the top of the stack changes, and it   *)
(* gets at most that import.                                               *)
LEMMA ImportedFacts ==
  ASSUME NEW stack \in Seq(FrameRecord), stack # << >>, Last(stack).todo # << >>,
         NEW l \in Loc, NEW id \in Nat
  PROVE  /\ Imported(stack, l, id) \in Seq(FrameRecord)
         /\ Len(Imported(stack, l, id)) = Len(stack)
         /\ \A i \in 1 .. Len(stack) - 1 : Imported(stack, l, id)[i] = stack[i]
         /\ \A i \in 1 .. Len(stack) :
              /\ Imported(stack, l, id)[i].loc = stack[i].loc
              /\ Imported(stack, l, id)[i].src = stack[i].src
              /\ Imported(stack, l, id)[i].deps
                   \subseteq stack[i].deps \cup (IF id = 0 THEN {} ELSE {<<l, id>>})
<1> DEFINE n == Len(stack)
           f == Last(stack)
           more == IF id = 0 THEN f.deps ELSE f.deps \cup {<<l, id>>}
<1>1. n \in Nat \ {0} /\ f \in FrameRecord /\ f = stack[n]
  BY DEF Last
<1>2. PICK r : r = [f EXCEPT !.todo = Tail(f.todo), !.deps = more]
  OBVIOUS
<1>3. /\ r.loc = f.loc /\ r.src = f.src /\ r.deps = more
      /\ r = [loc |-> f.loc, src |-> f.src, todo |-> Tail(f.todo), deps |-> more]
  BY <1>1, <1>2 DEF FrameRecord
<1>4. Tail(f.todo) \in Seq(Loc) /\ f.deps \in SUBSET (Loc \X Nat) /\ f.loc \in Loc /\ f.src \in Nat
  BY <1>1 DEF FrameRecord
<1>5. more \in SUBSET (Loc \X Nat)
  BY <1>4
<1>6. r \in FrameRecord
  <2> HIDE DEF f, more
  <2> QED  BY <1>3, <1>4, <1>5 DEF FrameRecord
<1>7. Imported(stack, l, id) = Append(SubSeq(stack, 1, n - 1), r)
  BY <1>2 DEF Imported, Front
<1> DEFINE h == SubSeq(stack, 1, n - 1)
<1>8. h \in Seq(FrameRecord) /\ Len(h) = n - 1 /\ \A i \in 1 .. n - 1 : h[i] = stack[i]
  <2>1. 1 \in Int /\ n - 1 \in Int /\ n \in Nat \ {0} /\ \A i \in 1 .. n - 1 : i \in 1 .. n
    BY <1>1
  <2>2. \A i \in 1 .. n - 1 : stack[i] \in FrameRecord
    BY <2>1
  <2>3. h \in Seq(FrameRecord) /\ Len(h) = (IF 1 <= n - 1 THEN (n - 1) - 1 + 1 ELSE 0)
        /\ \A i \in 1 .. n - 1 : h[i] = stack[1 + i - 1]
    <3> HIDE DEF f, more, n
    <3> QED  BY <2>1, <2>2, SubSeqProperties
  <2> HIDE DEF f, more, n, h
  <2> QED  BY <2>3, <1>1
<1> HIDE DEF h
<1> DEFINE t == Append(h, r)
<1>9. t \in Seq(FrameRecord) /\ Len(t) = n /\ t[n] = r /\ \A i \in 1 .. n - 1 : t[i] = stack[i]
  <2> HIDE DEF f, more, n
  <2> QED  BY <1>1, <1>6, <1>8
<1> HIDE DEF t
<1>10. ASSUME NEW i \in 1 .. n
       PROVE  /\ t[i].loc = stack[i].loc /\ t[i].src = stack[i].src
              /\ t[i].deps \subseteq stack[i].deps \cup (IF id = 0 THEN {} ELSE {<<l, id>>})
  <2>1. CASE i = n
    BY <2>1, <1>1, <1>3, <1>9
  <2>2. CASE i # n
    <3>1. i \in 1 .. n - 1
      BY <2>2, <1>1
    <3> QED  BY <3>1, <1>9
  <2> QED  BY <2>1, <2>2
<1>11. Imported(stack, l, id) = t
  BY <1>7 DEF t, h
<1> QED  BY <1>9, <1>10, <1>11

(* Invalidate reaches the document itself and its direct importers.        *)
LEMMA DependentsFacts ==
  ASSUME NEW u \in Loc
  PROVE  /\ u \in Dependents(u)
         /\ \A w \in Loc, l \in Dependents(u) : <<w, l>> \in edges => w \in Dependents(u)
<1> DEFINE Closed(S) == \A e \in edges : e[2] \in S => e[1] \in S
<1>1. u \in Dependents(u)
  BY DEF Dependents
<1>2. ASSUME NEW w \in Loc, NEW l \in Dependents(u), <<w, l>> \in edges,
             NEW S \in SUBSET Loc, u \in S, Closed(S)
      PROVE  w \in S
  <2>1. <<w, l>>[2] \in S => <<w, l>>[1] \in S
    BY <1>2
  <2>2. l \in S
    BY <1>2 DEF Dependents
  <2> QED  BY <2>1, <2>2
<1> QED  BY <1>1, <1>2 DEF Dependents

(* Gets change neither the keys of the cache nor what it holds for them.   *)
LEMMA AfterGetsFacts ==
  ASSUME NEW K, NEW E, NEW c, Coherent(K, E, c), NEW P, NEW path \in Seq(P)
  PROVE  /\ Coherent(K, E, AfterGets(c, path))
         /\ AfterGets(c, path).items = c.items
         /\ Contents(AfterGets(c, path).order) = Contents(c.order)
<1> DEFINE N == Len(path)
           Same(d) == Coherent(K, E, d) /\ d.items = c.items
                        /\ Contents(d.order) = Contents(c.order)
           V == {d \in CacheOf(K, E) : Same(d)}
           step == [i \in Nat |-> [v \in V |-> AfterGet(v, path[i + 1])]]
           Eq(f) == f = [n \in 0 .. N |-> IF n = 0 THEN c ELSE AfterGet(f[n-1], path[n])]
           run == CHOOSE f : Eq(f)
<1>1. N \in Nat /\ c \in V
  BY DEF Coherent
<1>2. ASSUME NEW d \in V, NEW k PROVE AfterGet(d, k) \in V
  <2>1. Coherent(K, E, d) /\ d.items = c.items /\ Contents(d.order) = Contents(c.order)
    OBVIOUS
  <2>2. Coherent(K, E, AfterGet(d, k)) /\ AfterGet(d, k).items = d.items
    BY <2>1, AfterGetCoherent
  <2>3. Contents(AfterGet(d, k).order) = Contents(d.order)
    BY <2>1, AfterGetContents
  <2>4. AfterGet(d, k) \in CacheOf(K, E)
    BY <2>2 DEF Coherent
  <2> QED  BY <2>1, <2>2, <2>3, <2>4
<1> HIDE DEF V
<1>3. step \in [Nat -> [V -> V]]
  BY <1>2
<1>4. \E f : Eq(f)
  <2>1. PICK f \in [0 .. N -> V] : f[0] = c /\ \A i \in 0 .. N - 1 : f[i + 1] = step[i][f[i]]
    <3> HIDE DEF step, N
    <3>1. PICK f : Iterates(f, V, c, step, N)
      BY <1>1, <1>3, Iteration
    <3> QED  BY <3>1 DEF Iterates
  <2>2. ASSUME NEW i \in 0 .. N, i # 0 PROVE f[i] = AfterGet(f[i-1], path[i])
    <3>1. i - 1 \in 0 .. N - 1 /\ i - 1 \in Nat /\ i - 1 \in 0 .. N /\ (i - 1) + 1 = i
      BY <1>1, <2>2
    <3>2. f[i-1] \in V /\ f[i] = step[i-1][f[i-1]]
      BY <2>1, <3>1
    <3>3. step[i-1][f[i-1]] = AfterGet(f[i-1], path[(i-1) + 1])
      BY <3>1, <3>2
    <3> QED  BY <3>1, <3>2, <3>3
  <2>3. Eq(f)
    BY <2>1, <2>2
  <2> QED  BY <2>3
<1>5. Eq(run)
  <2> HIDE DEF Eq
  <2> QED  BY <1>4
<1>6. AfterGets(c, path) = run[N]
  BY DEF AfterGets
<1> HIDE DEF run
<1>7. run[0] = c /\ \A i \in 0 .. N - 1 : run[i + 1] = AfterGet(run[i], path[i + 1])
  <2> DEFINE F == [n \in 0 .. N |-> IF n = 0 THEN c ELSE AfterGet(run[n-1], path[n])]
  <2>1. F[0] = c
    BY <1>1
  <2>2. ASSUME NEW i \in 0 .. N - 1 PROVE F[i + 1] = AfterGet(run[i], path[i + 1])
    <3>1. i + 1 \in 0 .. N /\ i + 1 # 0 /\ (i + 1) - 1 = i
      BY <1>1
    <3>2. F[i + 1] = AfterGet(run[(i + 1) - 1], path[i + 1])
      BY <3>1
    <3> QED  BY <3>1, <3>2
  <2>3. run = F
    BY <1>5
  <2> HIDE DEF F
  <2> QED  BY <2>1, <2>2, <2>3
<1> DEFINE S == {n \in 0 .. N : run[n] \in V}
<1>8. 0 \in S
  BY <1>1, <1>7
<1>9. ASSUME NEW i \in 0 .. N - 1, i \in S PROVE i + 1 \in S
  <2>1. run[i] \in V /\ i + 1 \in 0 .. N
    BY <1>1, <1>9
  <2>2. run[i + 1] = AfterGet(run[i], path[i + 1])
    BY <1>7
  <2>3. run[i + 1] \in V
    BY <2>1, <2>2, <1>2
  <2> QED  BY <2>1, <2>3
<1> HIDE DEF S
<1>10. 0 .. N \subseteq S
  <2> HIDE DEF N, Eq
  <2> QED  BY <1>1, <1>8, <1>9, Induction
<1>11. run[N] \in V
  BY <1>1, <1>10 DEF S
<1> HIDE DEF Eq, N
<1> QED  BY <1>6, <1>11 DEF V

(* What is left of a list.                                                 *)
LEMMA KeptFacts ==
  ASSUME NEW K, NEW E, NEW list \in Seq(Items(K, E)), Distinct(list), NEW D
  PROVE  /\ Kept(list, D) \in Seq(Items(K, E))
         /\ Len(Kept(list, D)) <= Len(list)
         /\ Distinct(Kept(list, D))
         /\ Contents(Kept(list, D)) = {x \in Contents(list) : x.key \notin D}
<1> DEFINE N == Len(list)
           V == Seq(Items(K, E))
           Next1(v, n) == IF list[n].key \in D THEN v ELSE Append(v, list[n])
           step == [i \in Nat |-> [v \in V |-> IF i + 1 \in 1 .. N THEN Next1(v, i + 1) ELSE v]]
           Eq(f) == f = [n \in 0 .. N |-> IF n = 0 THEN << >>
                                          ELSE IF list[n].key \in D THEN f[n-1]
                                          ELSE Append(f[n-1], list[n])]
           run == CHOOSE f : Eq(f)
<1>1. N \in Nat /\ << >> \in V /\ DOMAIN list = 1 .. N /\ \A i \in 1 .. N : list[i] \in Items(K, E)
  OBVIOUS
<1>2. ASSUME NEW v \in V, NEW i \in 1 .. N PROVE Next1(v, i) \in V
  BY <1>1
<1> HIDE DEF V
<1>3. step \in [Nat -> [V -> V]]
  <2> HIDE DEF Next1
  <2> QED  BY <1>2
<1>4. \E f : Eq(f)
  <2>1. PICK f \in [0 .. N -> V] : f[0] = << >> /\ \A i \in 0 .. N - 1 : f[i + 1] = step[i][f[i]]
    <3> HIDE DEF step, N
    <3>1. PICK f : Iterates(f, V, << >>, step, N)
      BY <1>1, <1>3, Iteration
    <3> QED  BY <3>1 DEF Iterates
  <2>2. ASSUME NEW i \in 0 .. N, i # 0 PROVE f[i] = Next1(f[i-1], i)
    <3>1. i - 1 \in 0 .. N - 1 /\ i - 1 \in Nat /\ i - 1 \in 0 .. N /\ (i - 1) + 1 = i /\ i \in 1 .. N
      BY <1>1, <2>2
    <3>2. f[i-1] \in V /\ f[i] = step[i-1][f[i-1]]
      BY <2>1, <3>1
    <3> HIDE DEF Next1
    <3>3. step[i-1][f[i-1]] = Next1(f[i-1], (i-1) + 1)
      BY <3>1, <3>2
    <3> QED  BY <3>1, <3>2, <3>3
  <2>3. Eq(f)
    BY <2>1, <2>2
  <2> QED  BY <2>3
<1>5. Eq(run)
  <2> HIDE DEF Eq
  <2> QED  BY <1>4
<1>6. Kept(list, D) = run[N]
  BY DEF Kept
<1> HIDE DEF run
<1>7. run[0] = << >> /\ \A i \in 0 .. N - 1 : run[i + 1] = Next1(run[i], i + 1)
  <2> DEFINE F == [n \in 0 .. N |-> IF n = 0 THEN << >>
                                    ELSE IF list[n].key \in D THEN run[n-1]
                                    ELSE Append(run[n-1], list[n])]
  <2>1. F[0] = << >>
    BY <1>1
  <2>2. ASSUME NEW i \in 0 .. N - 1 PROVE F[i + 1] = Next1(run[i], i + 1)
    <3>1. i + 1 \in 0 .. N /\ i + 1 # 0 /\ (i + 1) - 1 = i
      BY <1>1
    <3>2. F[i + 1] = Next1(run[(i + 1) - 1], i + 1)
      BY <3>1
    <3> QED  BY <3>1, <3>2
  <2>3. run = F
    BY <1>5
  <2> HIDE DEF F, Next1
  <2> QED  BY <2>1, <2>2, <2>3
<1> HIDE DEF Eq
<1> DEFINE Before(n) == {list[i] : i \in {i \in 1 .. n : list[i].key \notin D}}
           Good(n) == /\ run[n] \in V /\ Len(run[n]) <= n /\ Distinct(run[n])
                      /\ Contents(run[n]) = Before(n)
           S == {n \in 0 .. N : Good(n)}
<1>8. 0 \in S
  <2>1. DOMAIN << >> = {} /\ Len(<< >>) = 0
    OBVIOUS
  <2>2. Distinct(run[0]) /\ Contents(run[0]) = {} /\ Before(0) = {}
    BY <1>7, <2>1 DEF Distinct, Contents
  <2> QED  BY <1>1, <1>7, <2>1, <2>2
<1>9. ASSUME NEW i \in 0 .. N - 1, i \in S PROVE i + 1 \in S
  <2> DEFINE r == run[i]
             x == list[i + 1]
  <2>1. /\ i + 1 \in 0 .. N /\ i + 1 \in 1 .. N /\ i \in Nat
        /\ \A j \in 1 .. i : j \in 1 .. N /\ j # i + 1 /\ j \in 1 .. i + 1
        /\ \A j \in 1 .. i + 1 : j \in 1 .. i \/ j = i + 1
    BY <1>1
  <2>2. r \in V /\ Len(r) <= i /\ Distinct(r) /\ Contents(r) = Before(i)
    BY <1>9
  <2>3. run[i + 1] = IF x.key \in D THEN r ELSE Append(r, x)
    BY <1>7
  <2>4. x \in Items(K, E)
    BY <1>1, <2>1
  <2>5. CASE x.key \in D
    <3>1. Before(i + 1) = Before(i)
      BY <2>1, <2>5
    <3> QED  BY <3>1, <2>1, <2>2, <2>3, <2>5
  <2>6. CASE x.key \notin D
    <3>1. Before(i + 1) = Before(i) \cup {x}
      BY <2>1, <2>6
    <3>2. \A y \in Before(i) : y.key # x.key
      BY <2>1, <1>1 DEF Distinct
    <3> HIDE DEF x, r, Before
    <3> DEFINE t == Append(r, x)
               m == Len(r)
    <3>3. /\ t \in V /\ m \in Nat /\ Len(t) = m + 1 /\ t[m + 1] = x /\ DOMAIN r = 1 .. m
          /\ DOMAIN t = 1 .. m + 1 /\ \A j \in 1 .. m : t[j] = r[j] /\ j # m + 1
      BY <2>2, <2>4 DEF V
    <3> HIDE DEF t, m
    <3>4. \A j \in 1 .. m + 1 : j \in 1 .. m \/ j = m + 1
      BY <3>3
    <3>5. \A j \in 1 .. m : j \in 1 .. m + 1 /\ r[j] \in Before(i)
      BY <3>3, <2>2 DEF Contents
    <3>6. Contents(t) = Contents(r) \cup {x}
      <4>1. ASSUME NEW y \in Contents(t) PROVE y \in Contents(r) \cup {x}
        BY <4>1, <3>3, <3>4 DEF Contents
      <4>2. ASSUME NEW y \in Contents(r) \cup {x} PROVE y \in Contents(t)
        <5>1. m + 1 \in 1 .. m + 1
          BY <3>3
        <5> QED  BY <5>1, <4>2, <3>3, <3>5 DEF Contents
      <4> QED  BY <4>1, <4>2
    <3>7. Distinct(t)
      <4>1. ASSUME NEW j \in 1 .. m + 1, NEW k \in 1 .. m + 1, t[j].key = t[k].key PROVE j = k
        <5>1. CASE j \in 1 .. m /\ k \in 1 .. m
          BY <5>1, <4>1, <3>3, <2>2 DEF Distinct
        <5>2. CASE j \in 1 .. m /\ k = m + 1
          BY <5>2, <4>1, <3>2, <3>3, <3>5
        <5>3. CASE j = m + 1 /\ k \in 1 .. m
          BY <5>3, <4>1, <3>2, <3>3, <3>5
        <5> QED  BY <5>1, <5>2, <5>3, <3>4
      <4> QED  BY <4>1, <3>3 DEF Distinct
    <3>8. run[i + 1] = t /\ m <= i
      BY <2>2, <2>3, <2>6 DEF t, m
    <3>9. Len(t) <= i + 1
      BY <3>3, <3>8, <2>1
    <3> QED  BY <3>1, <3>3, <3>6, <3>7, <3>8, <3>9, <2>1, <2>2
  <2> QED  BY <2>5, <2>6
<1> HIDE DEF S
<1>10. 0 .. N \subseteq S
  <2> HIDE DEF N, Good
  <2> QED  BY <1>1, <1>8, <1>9, Induction
<1>11. Good(N)
  BY <1>1, <1>10 DEF S
<1>12. Before(N) = {x \in Contents(list) : x.key \notin D}
  BY <1>1 DEF Contents
<1> HIDE DEF Before, N
<1> QED  BY <1>6, <1>11, <1>12 DEF V, N

(* The deletions of UpdateDocument and RemoveDocument.                     *)
LEMMA WithoutFacts ==
  ASSUME NEW K, NEW E, NEW c, Coherent(K, E, c), NEW D
  PROVE  /\ Coherent(K, E, Without(c, D))
         /\ Contents(Without(c, D).order) = {x \in Contents(c.order) : x.key \notin D}
<1> DEFINE k == Kept(c.order, D)
<1>1. /\ c \in CacheOf(K, E) /\ c.order \in Seq(Items(K, E)) /\ Distinct(c.order)
      /\ c.items = ListKeys(c.order) /\ Len(c.order) <= c.capacity /\ c.items \in SUBSET K
      /\ c.capacity \in Nat \ {0} /\ Len(c.order) \in Nat
  BY DEF Coherent, CacheOf
<1>2. /\ k \in Seq(Items(K, E)) /\ Len(k) <= Len(c.order) /\ Distinct(k)
      /\ Contents(k) = {x \in Contents(c.order) : x.key \notin D}
  BY <1>1, KeptFacts
<1> DEFINE d == [c EXCEPT !.items = c.items \ D, !.order = k]
<1>4. Without(c, D) = d
  BY DEF Without
<1> HIDE DEF k
<1>5. d.items = c.items \ D /\ d.order = k /\ d.capacity = c.capacity /\ Len(k) \in Nat
  BY <1>1, <1>2 DEF CacheOf
<1>6. d \in CacheOf(K, E)
  BY <1>1, <1>2 DEF CacheOf
<1> HIDE DEF d
<1>7. d.items = ListKeys(d.order)
  <2>1. \A o : ListKeys(o) = {x.key : x \in Contents(o)}
    BY DEF ListKeys, Contents
  <2>2. ListKeys(k) = ListKeys(c.order) \ D
    BY <2>1, <1>2
  <2> QED  BY <2>2, <1>1, <1>5
<1>8. Len(d.order) <= d.capacity
  BY <1>1, <1>2, <1>5
<1> QED  BY <1>2, <1>4, <1>5, <1>6, <1>7, <1>8 DEF Coherent

-----------------------------------------------------------------------------
(* The import resolver                                                     *)

(* What a good file gives, read afresh.                                    *)
LEMMA AfreshFacts ==
  ASSUME NEW file \in FlowJsonFile, NEW l \in Name
  PROVE  ResolveAfresh(file, l) <=> file.state = "good" /\ <<l, PathsOf(file)[l]>> \in Existing
<1>1. KindOf[l] = "name"
  BY DEF Name
<1>2. CASE file.state = "good"
  <2> DEFINE r == EnsureLoaded(NewFlowJSONResolver, file)
  <2>1. NewFlowJSONResolver.nil
    BY DEF NewFlowJSONResolver
  <2>2. r = [nil |-> FALSE, paths |-> PathsOf(file), loadErr |-> "none", lastMod |-> file.mtime]
    BY <1>2, <2>1 DEF EnsureLoaded
  <2>3. ~r.nil /\ r.paths = PathsOf(file)
    BY <2>2
  <2> HIDE DEF r
  <2>4. ResolveAfresh(file, l) <=> LookupContract(r, l)
    BY <1>1, <1>2 DEF ResolveAfresh, r
  <2>5. LookupContract(r, l) <=> <<l, PathsOf(file)[l]>> \in Existing
    BY <2>3 DEF LookupContract
  <2> QED  BY <1>2, <2>4, <2>5
<1>3. CASE file.state # "good"
  BY <1>1, <1>3 DEF ResolveAfresh
<1> QED  BY <1>2, <1>3

(* ensureLoaded leaves a resolver that follows the file.  Without an error *)
(* the file is good and looked up as if read afresh; with or without, a    *)
(* lookup finds what it found before or what the file says.                *)
LEMMA EnsureLoadedFacts ==
  ASSUME NEW r \in ResolverRecord, NEW file \in FlowJsonFile, Follows(r, file)
  PROVE  LET e == EnsureLoaded(r, file)
         IN  /\ e \in ResolverRecord /\ Follows(e, file)
             /\ EnsureLoadedErr(r, file) # "none" => file.state # "good"
             /\ EnsureLoadedErr(r, file) = "none" =>
                  \A l \in Name : LookupContract(e, l) = ResolveAfresh(file, l)
             /\ \/ \A l \in Name : LookupContract(e, l) = LookupContract(r, l)
                \/ \A l \in Name : LookupContract(e, l) = ResolveAfresh(file, l)
<1> DEFINE e == EnsureLoaded(r, file)
           paths == PathsOf(file)
<1>1. /\ file.mtime \in Nat /\ file.state \in {"missing", "denied", "broken", "good"}
      /\ r.lastMod \in Nat /\ r.lastMod <= file.mtime /\ r.nil \in BOOLEAN
      /\ r.paths \in [Name -> {"none", "manual", "installed"}]
      /\ r.loadErr \in {"none", "notFound", "error"}
  BY Constants DEF FlowJsonFile, FileState, ResolverRecord, Follows
<1>2. paths \in [Name -> {"none", "manual", "installed"}] /\ NoPaths \in [Name -> {"none", "manual", "installed"}]
  BY DEF PathsOf, NoPaths
<1>3. CASE file.state = "missing"
  <2>1. e = [nil |-> TRUE, paths |-> NoPaths, loadErr |-> "notFound", lastMod |-> 0]
    BY <1>3 DEF EnsureLoaded
  <2>2. e \in ResolverRecord /\ e.nil /\ e.loadErr = "notFound" /\ e.lastMod = 0
    BY <1>2, <2>1 DEF ResolverRecord
  <2> HIDE DEF e
  <2>3. Follows(e, file)
    BY <1>1, <2>2 DEF Follows
  <2>4. \A l \in Name : LookupContract(e, l) = FALSE /\ ResolveAfresh(file, l) = FALSE
    BY <1>3, <2>2, AfreshFacts DEF LookupContract, ResolveAfresh, Name
  <2>5. EnsureLoadedErr(r, file) = "notFound"
    BY <1>3, <2>2 DEF EnsureLoadedErr, e
  <2> QED  BY <1>3, <2>2, <2>3, <2>4, <2>5 DEF e
<1>4. CASE file.state = "denied"
  <2>1. e = r
    BY <1>4 DEF EnsureLoaded
  <2>2. EnsureLoadedErr(r, file) = "error"
    BY <1>4 DEF EnsureLoadedErr
  <2> HIDE DEF e
  <2> QED  BY <1>4, <2>1, <2>2 DEF e
<1>5. CASE file.state \notin {"missing", "denied"} /\ file.mtime = r.lastMod /\ ~r.nil
  <2>1. e = r
    BY <1>5 DEF EnsureLoaded
  <2>2. EnsureLoadedErr(r, file) = r.loadErr
    BY <1>5, <2>1 DEF EnsureLoadedErr
  <2> HIDE DEF e
  <2>3. CASE file.state = "good"
    <3>1. r.paths = paths /\ r.loadErr = "none"
      BY <2>3, <1>5 DEF Follows
    <3>2. \A l \in Name : LookupContract(r, l) = ResolveAfresh(file, l)
      BY <3>1, <2>3, <1>5, AfreshFacts DEF LookupContract, ResolveAfresh, Name
    <3> QED  BY <2>1, <2>2, <3>1, <3>2 DEF e
  <2>4. CASE file.state = "broken"
    <3>1. r.loadErr # "none"
      BY <2>4, <1>5 DEF Follows
    <3> QED  BY <2>1, <2>2, <2>4, <3>1 DEF e
  <2> QED  BY <2>3, <2>4, <1>1, <1>5
<1>6. CASE file.state = "broken" /\ ~(file.mtime = r.lastMod /\ ~r.nil)
  <2>1. e = [r EXCEPT !.loadErr = "error", !.lastMod = file.mtime]
    BY <1>6 DEF EnsureLoaded
  <2>2. /\ e \in ResolverRecord /\ e.nil = r.nil /\ e.paths = r.paths /\ e.loadErr = "error"
        /\ e.lastMod = file.mtime
    BY <1>1, <2>1 DEF ResolverRecord
  <2> HIDE DEF e
  <2>3. Follows(e, file)
    BY <1>1, <1>6, <2>2 DEF Follows
  <2>4. \A l \in Name : LookupContract(e, l) = LookupContract(r, l)
    BY <2>2 DEF LookupContract
  <2>5. EnsureLoadedErr(r, file) = "error"
    BY <1>6, <2>2 DEF EnsureLoadedErr, e
  <2> QED  BY <1>6, <2>2, <2>3, <2>4, <2>5 DEF e
<1>7. CASE file.state = "good" /\ ~(file.mtime = r.lastMod /\ ~r.nil)
  <2>1. e = [nil |-> FALSE, paths |-> paths, loadErr |-> "none", lastMod |-> file.mtime]
    BY <1>7 DEF EnsureLoaded
  <2> HIDE DEF paths
  <2>2. /\ e \in ResolverRecord /\ ~e.nil /\ e.paths = paths /\ e.loadErr = "none"
        /\ e.lastMod = file.mtime
    BY <1>1, <1>2, <2>1 DEF ResolverRecord
  <2> HIDE DEF e
  <2>3. Follows(e, file)
    BY <1>1, <1>7, <2>2 DEF Follows, paths
  <2>4. \A l \in Name : LookupContract(e, l) = ResolveAfresh(file, l)
    BY <1>7, <2>2, AfreshFacts DEF LookupContract, ResolveAfresh, Name, paths
  <2>5. EnsureLoadedErr(r, file) = "none"
    BY <1>7, <2>2 DEF EnsureLoadedErr, e
  <2> QED  BY <1>7, <2>2, <2>3, <2>4, <2>5 DEF e
<1> QED  BY <1>1, <1>3, <1>4, <1>5, <1>6, <1>7

-----------------------------------------------------------------------------
(* What steps leave alone                                                  *)

LEMMA ResolverKept ==
  ASSUME FileTyped, ResolverFits, UNCHANGED resolverVars
  PROVE  FileTyped' /\ ResolverFits'
BY DEF FileTyped, ResolverFits, Follows, resolverVars, fileVars

(* The sessions, when no new request is read, ...                          *)
LEMMA SessionsKept ==
  ASSUME SessionsTyped, SessionsFit, UNCHANGED sessionVars, requests' = requests,
         main'.pc # "idle" /\ main'.kind = "request" => main.pc # "idle" /\ main.kind = "request"
  PROVE  SessionsTyped' /\ SessionsFit'
BY DEF SessionsTyped, SessionsFit, sessionVars, First

(* ... and when one is.                                                    *)
LEMMA SessionsAsked ==
  ASSUME SessionsTyped, SessionsFit, UNCHANGED sessionVars, requests' = requests + 1
  PROVE  SessionsTyped' /\ SessionsFit'
<1>1. requests' \in Nat /\ requests \in Nat /\ requests < requests'
  BY DEF SessionsTyped
<1>2. \A i \in DOMAIN offered : offered[i].id \in Nat
  <2>1. \A i \in DOMAIN offered : offered[i] \in Session
    BY DEF SessionsTyped
  <2> QED  BY <2>1 DEF Session
<1>3. \A i \in DOMAIN offered : offered[i].id <= requests' /\ offered[i].id < requests'
  BY <1>1, <1>2 DEF SessionsFit
<1> QED  BY <1>1, <1>3 DEF SessionsTyped, SessionsFit, sessionVars, First

(* The cache, when nothing new is put into it.                             *)
LEMMA CacheKept ==
  ASSUME CacheTyped, CacheEdges, Coherent(Loc, Checker, cache'),
         Contents(cache'.order) \subseteq Contents(cache.order),
         docs' = docs, edges \subseteq edges'
  PROVE  CacheTyped' /\ CacheEdges'
BY DEF CacheTyped, CacheEdges, CurrentCheck, Linked

LEMMA CacheSame ==
  ASSUME CacheTyped, CacheEdges, cache' = cache, docs' = docs, edges \subseteq edges'
  PROVE  CacheTyped' /\ CacheEdges'
<1>1. Coherent(Loc, Checker, cache')
  BY Zenon DEF CacheTyped
<1> QED  BY <1>1, CacheKept

LEMMA CacheGot ==
  ASSUME CacheTyped, CacheEdges, NEW k, cache' = AfterGet(cache, k), docs' = docs,
         edges \subseteq edges'
  PROVE  CacheTyped' /\ CacheEdges'
<1>1. Coherent(Loc, Checker, cache)
  BY DEF CacheTyped
<1>2. Coherent(Loc, Checker, cache') /\ Contents(cache'.order) = Contents(cache.order)
  BY <1>1, AfterGetCoherent, AfterGetContents, Zenon
<1> QED  BY <1>2, CacheKept

(* A checker is put into the cache that has its edges, if it is of the     *)
(* current text.                                                           *)
LEMMA CachePut ==
  ASSUME CacheTyped, CacheEdges, docs' = docs, edges' = edges,
         NEW k \in Loc, NEW c \in Checker, cache' = AfterPut(cache, k, c), c.loc = k,
         k \in Doc /\ CurrentCheck(c, k) => Linked(k, c.deps)
  PROVE  CacheTyped' /\ CacheEdges'
<1>1. Coherent(Loc, Checker, cache)
  BY DEF CacheTyped
<1>2. Coherent(Loc, Checker, cache')
  BY <1>1, AfterPutCoherent, Zenon
<1>3. Contents(cache'.order) \subseteq Contents(cache.order) \cup {[key |-> k, entry |-> c]}
  <2>1. Contents(AfterPut(cache, k, c).order)
          \subseteq {x \in Contents(cache.order) : x.key # k} \cup {[key |-> k, entry |-> c]}
    BY <1>1, AfterPutContents
  <2> QED  BY <2>1
<1> HIDE DEF Contents
<1>4. ASSUME NEW x \in Contents(cache'.order)
      PROVE  /\ x.entry.loc = x.key
             /\ x.key \in Doc /\ CurrentCheck(x.entry, x.key)' => Linked(x.key, x.entry.deps)'
  <2>1. CASE x \in Contents(cache.order)
    BY <2>1 DEF CacheTyped, CacheEdges, CurrentCheck, Linked
  <2>2. CASE x = [key |-> k, entry |-> c]
    <3>1. x.key = k /\ x.entry = c
      BY <2>2
    <3> QED  BY <3>1 DEF CurrentCheck, Linked
  <2> QED  BY <1>3, <2>1, <2>2
<1> QED  BY <1>2, <1>4 DEF CacheTyped, CacheEdges

(* A step of one job, which is not one of those that look at flow.json.    *)
JobInv == JobsTyped /\ JobsFit /\ JobEdges /\ ResolvesFromFile /\ FilesSeen

LEMMA JobStep ==
  ASSUME JobInv, NEW g \in Goroutine, NEW j \in JobRecord, jobs' = [jobs EXCEPT ![g] = j],
         docs' = docs, revision' = revision, edges \subseteq edges', UNCHANGED resolverVars,
         JobFits(j), JobLinked(j)', j.fits, j.pc # "read"
  PROVE  JobInv'
<1>1. jobs'[g] = j /\ \A h \in Goroutine : h # g => jobs'[h] = jobs[h]
  BY DEF JobInv, JobsTyped
<1>2. JobsTyped'
  BY DEF JobInv, JobsTyped
<1>3. JobsFit'
  <2>1. ASSUME NEW h \in Goroutine PROVE JobFits(jobs[h])'
    <3>1. JobFits(jobs[h]) /\ JobFits(j)
      BY DEF JobInv, JobsFit
    <3>2. jobs'[h] = jobs[h] \/ jobs'[h] = j
      BY <1>1
    <3> QED  BY <3>1, <3>2 DEF JobFits
  <2> QED  BY <2>1 DEF JobsFit
<1>4. JobEdges'
  <2>1. ASSUME NEW h \in Goroutine PROVE JobLinked(jobs[h])'
    <3>1. CASE h = g
      BY <3>1, <1>1 DEF JobLinked
    <3>2. CASE h # g
      <4>1. JobLinked(jobs[h]) /\ jobs'[h] = jobs[h]
        BY <1>1, <3>2 DEF JobInv, JobEdges
      <4> QED  BY <4>1 DEF JobLinked
    <3> QED  BY <3>1, <3>2
  <2> QED  BY <2>1 DEF JobEdges
<1>5. ResolvesFromFile'
  BY <1>1 DEF JobInv, ResolvesFromFile
<1>6. FilesSeen'
  <2>1. flowJson' = flowJson /\ resolver' = resolver
    BY DEF resolverVars, fileVars
  <2>2. ASSUME NEW h \in Goroutine, jobs'[h].pc = "read" PROVE jobs'[h] = jobs[h]
    BY <2>2, <1>1
  <2> QED  BY <2>1, <2>2 DEF JobInv, FilesSeen
<1> QED  BY <1>2, <1>3, <1>4, <1>5, <1>6 DEF JobInv

(* No job moves.                                                           *)
LEMMA JobsKept ==
  ASSUME JobInv, UNCHANGED jobs, docs' = docs, revision' = revision, edges \subseteq edges',
         UNCHANGED resolverVars
  PROVE  JobInv'
<1>1. JobsTyped' /\ JobsFit' /\ ResolvesFromFile'
  BY DEF JobInv, JobsTyped, JobsFit, JobFits, ResolvesFromFile
<1>2. JobEdges'
  <2>1. ASSUME NEW h \in Goroutine PROVE JobLinked(jobs[h])'
    <3>1. JobLinked(jobs[h]) /\ jobs'[h] = jobs[h]
      BY DEF JobInv, JobEdges
    <3> QED  BY <3>1 DEF JobLinked
  <2> QED  BY <2>1 DEF JobEdges
<1>3. FilesSeen'
  BY DEF JobInv, FilesSeen, resolverVars, fileVars
<1> QED  BY <1>1, <1>2, <1>3 DEF JobInv

(* The handler and what it got.                                            *)
LEMMA GotKept ==
  ASSUME GotEdges, main' = main, docs' = docs, edges \subseteq edges'
  PROVE  GotEdges'
BY DEF GotEdges, CurrentCheck, Linked

(* The invariant, in the groups that steps change.                         *)
Parts ==
  /\ FileTyped /\ ResolverFits
  /\ HostTyped /\ CacheTyped /\ CacheEdges
  /\ JobInv
  /\ MainTyped /\ MainFits /\ GotEdges
  /\ SessionsTyped /\ SessionsFit
LEMMA ReqInvParts ==
  /\ ReqInv => Parts
  /\ Parts' => ReqInv'
BY Zenon DEF Parts, ReqInv, ReqTyped, ReqFits, JobInv

-----------------------------------------------------------------------------
(* Analyze                                                                 *)

(* A job that runs has a frame on top, ...                                 *)
LEMMA TopFacts ==
  ASSUME JobInv, NEW g \in Goroutine, jobs[g].pc # "idle"
  PROVE  /\ jobs[g] \in JobRecord /\ jobs[g].stack \in Seq(FrameRecord)
         /\ Len(jobs[g].stack) \in Nat \ {0} /\ jobs[g].stack # << >>
         /\ Top(g) = jobs[g].stack[Len(jobs[g].stack)] /\ Top(g) \in FrameRecord
         /\ jobs[g].root \in Doc /\ jobs[g].stack[1].loc = jobs[g].root
         /\ jobs[g].stack[1].src \in 1 .. revision
         /\ \A i \in 1 .. Len(jobs[g].stack) - 1 : jobs[g].stack[i].todo # << >>
<1>1. jobs[g] \in JobRecord
  BY DEF JobInv, JobsTyped
<1>2. jobs[g].stack \in Seq(FrameRecord)
  BY <1>1 DEF JobRecord
<1>3. JobFits(jobs[g])
  BY DEF JobInv, JobsFit
<1>4. jobs[g].stack # << >> /\ Len(jobs[g].stack) \in Nat \ {0}
  BY <1>2, <1>3 DEF JobFits
<1>5. Top(g) = jobs[g].stack[Len(jobs[g].stack)]
  BY DEF Top, Last
<1>6. Top(g) \in FrameRecord
  BY <1>2, <1>4, <1>5
<1> QED  BY <1>1, <1>2, <1>3, <1>4, <1>5, <1>6 DEF JobFits

(* ... and while it imports, a location in hand.                           *)
LEMMA ImportingFacts ==
  ASSUME JobInv, NEW g \in Goroutine, jobs[g].pc # "idle", Top(g).todo # << >>
  PROVE  Importing(g) \in Loc /\ Last(jobs[g].stack).todo # << >>
<1>1. Top(g) \in FrameRecord
  BY TopFacts
<1>2. Top(g).todo \in Seq(Loc)
  BY <1>1 DEF FrameRecord
<1> QED  BY <1>2 DEF Importing, Top

(* The job after an import: if stack is what is left of its stack below    *)
(* the import, it fits again, and its root has at most that import more.   *)
LEMMA ImportedJob ==
  ASSUME JobInv, NEW g \in Goroutine, jobs[g].pc # "idle", NEW l \in Loc, NEW id \in Nat,
         NEW stack \in Seq(FrameRecord), stack # << >>, Last(stack).todo # << >>,
         Len(stack) <= Len(jobs[g].stack),
         \A i \in 1 .. Len(stack) : stack[i] = jobs[g].stack[i],
         NEW j, j.root = jobs[g].root, j.stack = Imported(stack, l, id),
         j.pc = "run" \/ (j.pc = "edge" /\ j.edge \in Loc)
  PROVE  /\ JobFits(j) /\ j.stack[1].src = jobs[g].stack[1].src
         /\ j.stack[1].deps
              \subseteq jobs[g].stack[1].deps \cup (IF id = 0 THEN {} ELSE {<<l, id>>})
<1> DEFINE s == Imported(stack, l, id)
           n == Len(stack)
<1>1. /\ s \in Seq(FrameRecord) /\ Len(s) = n
      /\ \A i \in 1 .. n - 1 : s[i] = stack[i]
      /\ \A i \in 1 .. n : /\ s[i].loc = stack[i].loc /\ s[i].src = stack[i].src
                           /\ s[i].deps \subseteq stack[i].deps
                                          \cup (IF id = 0 THEN {} ELSE {<<l, id>>})
  BY ImportedFacts
<1>2. n \in Nat \ {0} /\ 1 \in 1 .. n
  OBVIOUS
<1>3. /\ jobs[g].root \in Doc /\ jobs[g].stack[1].loc = jobs[g].root
      /\ jobs[g].stack[1].src \in 1 .. revision /\ Len(jobs[g].stack) \in Nat
      /\ \A i \in 1 .. Len(jobs[g].stack) - 1 : jobs[g].stack[i].todo # << >>
  BY TopFacts
<1>4. j.stack = s
  OBVIOUS
<1> HIDE DEF s
<1>5. /\ s[1].loc = jobs[g].root /\ s[1].src = jobs[g].stack[1].src
      /\ s[1].deps \subseteq jobs[g].stack[1].deps \cup (IF id = 0 THEN {} ELSE {<<l, id>>})
  BY <1>1, <1>2, <1>3
<1>6. ASSUME NEW i \in 1 .. Len(s) - 1 PROVE s[i].todo # << >>
  <2>1. i \in 1 .. n - 1 /\ i \in 1 .. n /\ i \in 1 .. Len(jobs[g].stack) - 1
    BY <1>1, <1>2, <1>3
  <2> QED  BY <2>1, <1>1, <1>3
<1>7. s # << >>
  BY <1>1, <1>2
<1>8. JobFits(j)
  BY <1>3, <1>4, <1>5, <1>6, <1>7 DEF JobFits
<1> QED  BY <1>4, <1>5, <1>8

(* Together: a step of a running job that leaves the rest alone.           *)
LEMMA JobStepInv ==
  ASSUME ReqInv, NEW g \in Goroutine, jobs[g].pc # "idle", NEW j \in JobRecord,
         jobs' = [jobs EXCEPT ![g] = j],
         UNCHANGED <<resolverVars, docs, revision, pending, main, sessionVars, requests>>,
         edges' \in SUBSET (Doc \X Loc), IsFiniteSet(edges'), edges \subseteq edges', made' \in Nat,
         CacheTyped', CacheEdges',
         JobFits(j), JobLinked(j)', j.fits, j.pc # "read",
         j.pc # "idle" => j.root = jobs[g].root
  PROVE  ReqInv'
<1>0. Parts
  BY ReqInvParts
<1>1. FileTyped' /\ ResolverFits'
  BY <1>0, ResolverKept DEF Parts
<1>2. HostTyped'
  BY <1>0 DEF Parts, HostTyped
<1>3. JobInv'
  BY <1>0, JobStep DEF Parts
<1>4. MainTyped' /\ GotEdges'
  BY <1>0, GotKept DEF Parts, MainTyped
<1>5. MainFits'
  <2>1. "main" \in Goroutine /\ jobs \in [Goroutine -> JobRecord] /\ MainFits
    BY <1>0 DEF Parts, JobInv, JobsTyped, Goroutine
  <2>2. CASE g = "main"
    BY <2>1, <2>2 DEF MainFits
  <2>3. CASE g # "main"
    BY <2>1, <2>3 DEF MainFits
  <2> QED  BY <2>2, <2>3
<1>6. SessionsTyped' /\ SessionsFit'
  BY <1>0, SessionsKept DEF Parts
<1>7. CacheTyped' /\ CacheEdges'
  OBVIOUS
<1> QED  BY <1>1, <1>2, <1>3, <1>4, <1>5, <1>6, <1>7, ReqInvParts DEF Parts

(* An import taken from the cache: its edge is due.                        *)
LEMMA ImportCachedInv ==
  ASSUME ReqInv, NEW g \in Goroutine, ImportCached(g)
  PROVE  ReqInv'
<1>0. Parts
  BY ReqInvParts
<1> DEFINE l == Importing(g)
           id == EntryOf(cache, l).id
           job == jobs[g]
<1>1. /\ job.pc = "run" /\ Top(g).todo # << >> /\ l \in cache.items
      /\ cache' = AfterGet(cache, l)
      /\ jobs' = [jobs EXCEPT ![g] = [job EXCEPT !.pc = "edge", !.edge = l,
                                                 !.stack = Imported(job.stack, l, id)]]
      /\ UNCHANGED <<resolverVars, docs, revision, edges, pending, made, main, sessionVars, requests>>
  <2>1. /\ job.pc = "run" /\ Top(g).todo # << >> /\ l \in cache.items
        /\ cache' = AfterGet(cache, l)
    BY DEF ImportCached, At
  <2>2. jobs' = [jobs EXCEPT ![g] = [job EXCEPT !.pc = "edge", !.edge = l,
                                                !.stack = Imported(job.stack, l, id)]]
    BY DEF ImportCached
  <2>3. UNCHANGED <<resolverVars, docs, revision, edges, pending, made, main, sessionVars, requests>>
    BY DEF ImportCached
  <2> QED  BY <2>1, <2>2, <2>3
<1>2. JobInv /\ HostTyped /\ CacheTyped /\ CacheEdges
  BY <1>0 DEF Parts
<1>3. /\ job \in JobRecord /\ job.stack \in Seq(FrameRecord) /\ job.stack # << >>
      /\ Len(job.stack) \in Nat \ {0}
  BY <1>1, <1>2, TopFacts
<1>4. l \in Loc /\ Last(job.stack).todo # << >>
  BY <1>1, <1>2, ImportingFacts
<1>5. id \in Nat
  <2>1. EntryOf(cache, l) \in Checker
    BY <1>1, <1>2, EntryOfType DEF CacheTyped
  <2> QED  BY <2>1 DEF Checker
<1>6. PICK j : j = [job EXCEPT !.pc = "edge", !.edge = l, !.stack = Imported(job.stack, l, id)]
  OBVIOUS
<1>7. Imported(job.stack, l, id) \in Seq(FrameRecord)
  <2> HIDE DEF l, id, job
  <2> QED  BY <1>3, <1>4, <1>5, ImportedFacts
<1>8. /\ j \in JobRecord /\ j.pc = "edge" /\ j.edge = l /\ j.fits = job.fits /\ j.root = job.root
      /\ j.stack = Imported(job.stack, l, id) /\ job.fits = TRUE
  <2>1. job.fits = TRUE
    BY <1>2, <1>3 DEF JobRecord, JobInv, ResolvesFromFile
  <2> HIDE DEF l, id, job
  <2> QED  BY <1>3, <1>4, <1>6, <1>7, <2>1 DEF JobRecord, JobPc
<1>9. /\ JobFits(j) /\ j.stack[1].src = job.stack[1].src
      /\ j.stack[1].deps \subseteq job.stack[1].deps \cup (IF id = 0 THEN {} ELSE {<<l, id>>})
  <2>1. /\ jobs[g].pc # "idle" /\ Len(job.stack) <= Len(jobs[g].stack)
        /\ \A i \in 1 .. Len(job.stack) : job.stack[i] = jobs[g].stack[i]
    BY <1>1, <1>3, <1>5
  <2>2. j.root = jobs[g].root /\ j.stack = Imported(job.stack, l, id)
    BY <1>8
  <2>3. JobInv
    BY <1>2
  <2> HIDE DEF l, id
  <2> QED  BY <1>3, <1>4, <1>5, <1>8, <2>1, <2>2, <2>3, ImportedJob
<1>10. JobLinked(j)'
  <2>1. JobLinked(job)
    BY <1>2 DEF JobInv, JobEdges
  <2> QED  BY <1>1, <1>8, <1>9, <2>1 DEF JobLinked
<1>11. CacheTyped' /\ CacheEdges'
  BY <1>1, <1>2, CacheGot
<1>12. /\ edges' \in SUBSET (Doc \X Loc) /\ IsFiniteSet(edges') /\ edges \subseteq edges' /\ made' \in Nat
  BY <1>1, <1>2 DEF HostTyped
<1>13. jobs' = [jobs EXCEPT ![g] = j]
  BY <1>1, <1>6
<1> HIDE DEF job, l, id
<1> QED  BY <1>1, <1>8, <1>9, <1>10, <1>11, <1>12, <1>13, JobStepInv DEF job

(* The sub-checker of an import goes into the cache.                       *)
LEMMA ImportCheckedInv ==
  ASSUME ReqInv, NEW g \in Goroutine, ImportChecked(g)
  PROVE  ReqInv'
<1>0. Parts
  BY ReqInvParts
<1> DEFINE job == jobs[g]
           l == Top(g).loc
           id == made + 1
           front == Front(job.stack)
<1>1. /\ job.pc = "run" /\ Len(job.stack) > 1 /\ made' = made + 1
      /\ cache' = AfterPut(cache, l, NewChecker(Top(g), FALSE))
      /\ jobs' = [jobs EXCEPT ![g] = [job EXCEPT !.pc = "edge", !.edge = l,
                                                 !.stack = Imported(front, l, id)]]
      /\ UNCHANGED <<resolverVars, docs, revision, edges, pending, main, sessionVars, requests>>
  <2>1. /\ job.pc = "run" /\ Len(job.stack) > 1 /\ made' = made + 1
        /\ cache' = AfterPut(cache, l, NewChecker(Top(g), FALSE))
    BY DEF ImportChecked, At
  <2>2. jobs' = [jobs EXCEPT ![g] = [job EXCEPT !.pc = "edge", !.edge = l,
                                                !.stack = Imported(front, l, id)]]
    BY DEF ImportChecked
  <2>3. UNCHANGED <<resolverVars, docs, revision, edges, pending, main, sessionVars, requests>>
    BY DEF ImportChecked
  <2> QED  BY <2>1, <2>2, <2>3
<1>2. JobInv /\ HostTyped /\ CacheTyped /\ CacheEdges
  BY <1>0 DEF Parts
<1>3. /\ job \in JobRecord /\ job.stack \in Seq(FrameRecord) /\ Top(g) \in FrameRecord
      /\ Len(job.stack) \in Nat \ {0}
      /\ \A i \in 1 .. Len(job.stack) - 1 : job.stack[i].todo # << >>
  BY <1>1, <1>2, TopFacts
<1>4. l \in Loc /\ id \in Nat /\ made \in Nat
  BY <1>2, <1>3 DEF HostTyped, FrameRecord
<1>5. /\ front \in Seq(FrameRecord) /\ Len(front) = Len(job.stack) - 1 /\ front # << >>
      /\ \A i \in 1 .. Len(front) : front[i] = job.stack[i]
      /\ Last(front).todo # << >>
  <2> DEFINE n == Len(job.stack)
             s == job.stack
  <2>1. n \in Nat /\ n > 1 /\ s \in Seq(FrameRecord) /\ front = SubSeq(s, 1, n - 1)
    BY <1>1, <1>3 DEF Front
  <2>2. \A i \in 1 .. n - 1 : i \in 1 .. n /\ s[i] \in FrameRecord
    BY <2>1
  <2> HIDE DEF s, n, front
  <2>3. /\ front \in Seq(FrameRecord) /\ Len(front) = n - 1
        /\ \A i \in 1 .. n - 1 : front[i] = s[i]
    BY <2>1, <2>2
  <2>4. n - 1 \in 1 .. n - 1 /\ front # << >>
    <3>1. n - 1 \in Nat /\ n - 1 >= 1 /\ Len(front) # 0
      BY <2>1, <2>3
    <3> QED  BY <3>1
  <2>5. Last(front) = s[n - 1] /\ s[n - 1].todo # << >>
    BY <1>3, <2>3, <2>4 DEF Last, s, n
  <2> QED  BY <2>3, <2>4, <2>5 DEF s, n
<1>6. PICK j : j = [job EXCEPT !.pc = "edge", !.edge = l, !.stack = Imported(front, l, id)]
  OBVIOUS
<1>7. Imported(front, l, id) \in Seq(FrameRecord)
  <2> HIDE DEF l, id, job, front
  <2> QED  BY <1>3, <1>4, <1>5, ImportedFacts
<1>8. /\ j \in JobRecord /\ j.pc = "edge" /\ j.edge = l /\ j.fits = job.fits /\ j.root = job.root
      /\ j.stack = Imported(front, l, id) /\ job.fits = TRUE
  <2>1. job.fits = TRUE
    BY <1>2, <1>3 DEF JobRecord, JobInv, ResolvesFromFile
  <2> HIDE DEF l, id, job, front
  <2> QED  BY <1>3, <1>4, <1>6, <1>7, <2>1 DEF JobRecord, JobPc
<1>9. /\ JobFits(j) /\ j.stack[1].src = job.stack[1].src
      /\ j.stack[1].deps \subseteq job.stack[1].deps \cup (IF id = 0 THEN {} ELSE {<<l, id>>})
  <2>1. /\ jobs[g].pc # "idle" /\ Len(front) <= Len(jobs[g].stack)
        /\ \A i \in 1 .. Len(front) : front[i] = jobs[g].stack[i]
    BY <1>1, <1>3, <1>5
  <2>2. j.root = jobs[g].root /\ j.stack = Imported(front, l, id)
    BY <1>8
  <2>3. JobInv
    BY <1>2
  <2> HIDE DEF l, id, front
  <2> QED  BY <1>3, <1>4, <1>5, <1>8, <2>1, <2>2, <2>3, ImportedJob
<1>10. JobLinked(j)'
  <2>1. JobLinked(job)
    BY <1>2 DEF JobInv, JobEdges
  <2> QED  BY <1>1, <1>8, <1>9, <2>1 DEF JobLinked
<1>11. CacheTyped' /\ CacheEdges'
  <2> DEFINE c == NewChecker(Top(g), FALSE)
  <2>1. c \in Checker /\ c.loc = l /\ c.own = FALSE
    BY <1>3, <1>4 DEF NewChecker, Checker, FrameRecord
  <2>2. ~CurrentCheck(c, l)
    BY <2>1 DEF CurrentCheck
  <2> HIDE DEF c, l
  <2> QED  BY <1>1, <1>2, <1>4, <2>1, <2>2, CachePut DEF c
<1>12. /\ edges' \in SUBSET (Doc \X Loc) /\ IsFiniteSet(edges') /\ edges \subseteq edges' /\ made' \in Nat
  BY <1>1, <1>2, <1>4 DEF HostTyped
<1>13. jobs' = [jobs EXCEPT ![g] = j]
  BY <1>1, <1>6
<1> HIDE DEF job, l, id, front
<1> QED  BY <1>1, <1>8, <1>9, <1>10, <1>11, <1>12, <1>13, JobStepInv DEF job

(* The edge is added.                                                      *)
LEMMA ImportEdgeInv ==
  ASSUME ReqInv, NEW g \in Goroutine, ImportEdge(g)
  PROVE  ReqInv'
<1> DEFINE job == jobs[g]
<1>0. Parts
  BY ReqInvParts
<1>1. /\ job.pc = "edge" /\ edges' = edges \cup {<<job.root, job.edge>>}
      /\ UNCHANGED <<resolverVars, docs, revision, cache, pending, made, main, sessionVars, requests>>
  BY DEF ImportEdge, At
<1>2. JobInv /\ HostTyped /\ CacheTyped /\ CacheEdges
  BY <1>0 DEF Parts
<1>3. job \in JobRecord /\ job.root \in Doc
  BY <1>1, <1>2, TopFacts
<1>4. JobFits(job) /\ JobLinked(job) /\ job.fits
  BY <1>2 DEF JobInv, JobsFit, JobEdges, ResolvesFromFile
<1>5. job.edge \in Loc
  BY <1>1, <1>4 DEF JobFits
<1>6. PICK j : j = [job EXCEPT !.pc = "run", !.edge = None]
  OBVIOUS
<1>7. jobs' = [jobs EXCEPT ![g] = j]
  BY <1>6 DEF ImportEdge
<1> HIDE DEF job
<1>8. /\ j \in JobRecord /\ j.pc = "run" /\ j.stack = job.stack /\ j.root = job.root
      /\ j.fits = job.fits
  BY <1>3, <1>6 DEF JobRecord, JobPc
<1>9. JobFits(j)
  BY <1>1, <1>4, <1>8 DEF JobFits
<1>10. JobLinked(j)'
  BY <1>1, <1>4, <1>8 DEF JobLinked
<1>11. edges' \in SUBSET (Doc \X Loc) /\ IsFiniteSet(edges') /\ edges \subseteq edges' /\ made' \in Nat
  <2>1. edges' \in SUBSET (Doc \X Loc) /\ edges \subseteq edges' /\ made' \in Nat
    BY <1>1, <1>2, <1>3, <1>5 DEF HostTyped
  <2>2. IsFiniteSet(edges')
    BY <1>1, <1>2, FS_AddElement DEF HostTyped
  <2> QED  BY <2>1, <2>2
<1>12. CacheTyped' /\ CacheEdges'
  <2>1. cache' = cache /\ docs' = docs
    BY <1>1
  <2> QED  BY <2>1, <1>2, <1>11, CacheSame
<1> QED  BY <1>1, <1>4, <1>7, <1>8, <1>9, <1>10, <1>11, <1>12, JobStepInv DEF job

(* The end of the check.                                                   *)
LEMMA CheckedInv ==
  ASSUME ReqInv, NEW g \in Goroutine, Checked(g)
  PROVE  ReqInv'
<1> DEFINE job == jobs[g]
<1>0. Parts
  BY ReqInvParts
<1>1. /\ job.pc = "run" /\ Len(job.stack) = 1
      /\ UNCHANGED <<resolverVars, docs, revision, cache, edges, pending, made, main,
                     sessionVars, requests>>
  BY DEF Checked, At
<1>2. JobInv /\ HostTyped /\ CacheTyped /\ CacheEdges
  BY <1>0 DEF Parts
<1>3. job \in JobRecord
  BY <1>1, <1>2, TopFacts
<1>4. JobFits(job) /\ JobLinked(job) /\ job.fits
  BY <1>2 DEF JobInv, JobsFit, JobEdges, ResolvesFromFile
<1>5. PICK j : j = IF job.cancelled THEN NoJob ELSE [job EXCEPT !.pc = "put"]
  OBVIOUS
<1>6. jobs' = [jobs EXCEPT ![g] = j]
  BY <1>5 DEF Checked
<1> HIDE DEF job
<1>7. /\ j \in JobRecord /\ j.fits
      /\ \/ j.pc = "idle"
         \/ j.pc = "put" /\ j.stack = job.stack /\ j.root = job.root
  <2>1. CASE job.cancelled
    BY <2>1, <1>5, ConstantRecords
  <2>2. CASE ~job.cancelled
    BY <2>2, <1>3, <1>4, <1>5 DEF JobRecord, JobPc
  <2> QED  BY <2>1, <2>2
<1>8. JobFits(j)
  BY <1>1, <1>4, <1>7 DEF JobFits
<1>9. JobLinked(j)'
  BY <1>1, <1>4, <1>7 DEF JobLinked
<1>10. CacheTyped' /\ CacheEdges'
  <2>1. cache' = cache /\ docs' = docs /\ edges' = edges
    BY <1>1
  <2> QED  BY <2>1, <1>2, CacheSame
<1>11. edges' \in SUBSET (Doc \X Loc) /\ IsFiniteSet(edges') /\ edges \subseteq edges' /\ made' \in Nat
  BY <1>1, <1>2 DEF HostTyped
<1> QED  BY <1>1, <1>6, <1>7, <1>8, <1>9, <1>10, <1>11, JobStepInv DEF job

(* The result of Analyze goes into the cache, and to the handler.          *)
LEMMA AnalyzePutInv ==
  ASSUME ReqInv, NEW g \in Goroutine, AnalyzePut(g)
  PROVE  ReqInv'
<1> DEFINE job == jobs[g]
           c == NewChecker(Top(g), TRUE)
<1>0. Parts
  BY ReqInvParts
<1>1. /\ job.pc = "put" /\ made' = made + 1 /\ cache' = AfterPut(cache, job.root, c)
      /\ jobs' = [jobs EXCEPT ![g] = NoJob]
      /\ UNCHANGED <<resolverVars, docs, revision, edges, pending, sessionVars, requests>>
  BY DEF AnalyzePut, At
<1>2. JobInv /\ HostTyped /\ CacheTyped /\ CacheEdges /\ MainTyped /\ MainFits /\ GotEdges
  BY <1>0 DEF Parts
<1>3. /\ job \in JobRecord /\ job.root \in Doc /\ job.stack[1].loc = job.root
      /\ Top(g) = job.stack[Len(job.stack)] /\ Top(g) \in FrameRecord
  BY <1>1, <1>2, TopFacts
<1>4. JobFits(job) /\ JobLinked(job) /\ made \in Nat
  BY <1>2 DEF JobInv, JobsFit, JobEdges, HostTyped
<1>5. Top(g) = job.stack[1]
  BY <1>1, <1>3, <1>4 DEF JobFits
<1>6. /\ c \in Checker /\ c.loc = job.root /\ c.src = job.stack[1].src
      /\ c.deps = job.stack[1].deps
  <2>1. /\ c.loc = Top(g).loc /\ c.src = Top(g).src /\ c.deps = Top(g).deps
        /\ c \in Checker
    BY <1>3, <1>4 DEF NewChecker, Checker, FrameRecord
  <2> QED  BY <2>1, <1>3, <1>5
<1> HIDE DEF c
<1>7. CurrentCheck(c, job.root) => Linked(job.root, c.deps)
  BY <1>1, <1>4, <1>6 DEF CurrentCheck, Linked, JobLinked
<1>8. CacheTyped' /\ CacheEdges'
  <2>1. job.root \in Loc
    BY <1>3, Constants
  <2> HIDE DEF job
  <2> QED  BY <1>1, <1>2, <1>6, <1>7, <2>1, CachePut
<1>9. FileTyped' /\ ResolverFits'
  BY <1>0, <1>1, ResolverKept DEF Parts
<1>10. HostTyped'
  BY <1>1, <1>2 DEF HostTyped
<1>11. JobInv'
  <2>1. NoJob \in JobRecord /\ NoJob.pc = "idle" /\ NoJob.fits
    BY ConstantRecords
  <2>2. JobFits(NoJob) /\ JobLinked(NoJob)'
    BY <2>1 DEF JobFits, JobLinked
  <2> QED  BY <1>1, <1>2, <2>1, <2>2, JobStep
<1>12. \/ main' = main
       \/ main' = Idle
       \/ /\ g = "main" /\ main.pc = "wait" /\ main.uri = job.root
          /\ main' = [main EXCEPT !.pc = "reply", !.got = c]
  <2>1. g = "timer" \/ g = "main"
    BY DEF Goroutine
  <2>2. g = "main" => main.pc = "wait" /\ main.uri = job.root
    BY <1>1, <1>2 DEF MainFits
  <2> QED  BY <2>1, <2>2 DEF AnalyzePut, c
<1>13. jobs'["main"].pc # "idle" => g # "main" /\ jobs'["main"] = jobs["main"]
  BY <1>1, <1>2, ConstantRecords DEF JobInv, JobsTyped, Goroutine
<1>14. main' # main => g = "main"
  BY DEF AnalyzePut, Goroutine
<1>15. CASE main' = main
  <2>1. MainTyped' /\ GotEdges'
    BY <1>1, <1>2, <1>15, GotKept DEF MainTyped
  <2>2. MainFits'
    BY <1>2, <1>13, <1>15 DEF MainFits
  <2>3. SessionsTyped' /\ SessionsFit'
    BY <1>0, <1>1, <1>15, SessionsKept DEF Parts
  <2> QED  BY <1>8, <1>9, <1>10, <1>11, <2>1, <2>2, <2>3, ReqInvParts DEF Parts
<1>16. CASE main' = Idle /\ main' # main
  <2>1. MainTyped' /\ main'.pc = "idle"
    BY <1>16, ConstantRecords DEF MainTyped
  <2>2. MainFits' /\ GotEdges'
    BY <2>1, <1>13, <1>14, <1>16 DEF MainFits, GotEdges
  <2>3. SessionsTyped' /\ SessionsFit'
    BY <1>0, <1>1, <2>1, SessionsKept DEF Parts
  <2> QED  BY <1>8, <1>9, <1>10, <1>11, <2>1, <2>2, <2>3, ReqInvParts DEF Parts
<1>17. CASE /\ g = "main" /\ main.pc = "wait" /\ main.uri = job.root
            /\ main' = [main EXCEPT !.pc = "reply", !.got = c]
  <2>1. /\ main' \in MainRecord /\ main'.pc = "reply" /\ main'.got = c /\ main'.uri = main.uri
        /\ main'.kind = main.kind
    BY <1>2, <1>6, <1>17 DEF MainTyped, MainRecord
  <2>2. MainTyped' /\ MainFits'
    BY <2>1, <1>3, <1>6, <1>13, <1>17 DEF MainTyped, MainFits
  <2>3. GotEdges'
    BY <2>1, <1>1, <1>7, <1>17 DEF GotEdges, CurrentCheck, Linked
  <2>4. SessionsTyped' /\ SessionsFit'
    BY <1>0, <1>1, <1>17, <2>1, SessionsKept DEF Parts
  <2> QED  BY <1>8, <1>9, <1>10, <1>11, <2>2, <2>3, <2>4, ReqInvParts DEF Parts
<1> QED  BY <1>12, <1>15, <1>16, <1>17

(* The first look of ResolveImport: flow.json is loaded.                   *)
LEMMA ImportLoadInv ==
  ASSUME ReqInv, NEW g \in Goroutine, ImportLoad(g)
  PROVE  ReqInv'
<1> DEFINE job == jobs[g]
           l == Importing(g)
           err == EnsureLoadedErr(resolver, flowJson)
<1>0. Parts
  BY ReqInvParts
<1>1. /\ job.pc = "run" /\ Top(g).todo # << >> /\ l \in Name
      /\ resolver' = EnsureLoaded(resolver, flowJson)
      /\ UNCHANGED <<flowJson, writes, docs, revision, cache, edges, pending, made, main,
                     sessionVars, requests>>
  BY DEF ImportLoad, At, fileVars
<1>2. /\ JobInv /\ HostTyped /\ CacheTyped /\ CacheEdges /\ FileTyped /\ ResolverFits
      /\ MainTyped /\ MainFits /\ GotEdges /\ SessionsTyped /\ SessionsFit
  BY <1>0 DEF Parts
<1>3. /\ job \in JobRecord /\ job.stack \in Seq(FrameRecord) /\ job.stack # << >>
      /\ Len(job.stack) \in Nat \ {0}
  BY <1>1, <1>2, TopFacts
<1>4. l \in Loc /\ Last(job.stack).todo # << >> /\ Last(job.stack) = Top(g)
  BY <1>1, <1>2, ImportingFacts DEF Top
<1>5. JobFits(job) /\ JobLinked(job) /\ job.fits = TRUE
  BY <1>2, <1>3 DEF JobInv, JobsFit, JobEdges, ResolvesFromFile, JobRecord
<1>6. /\ resolver' \in ResolverRecord /\ Follows(resolver', flowJson)
      /\ err # "none" => flowJson.state # "good"
      /\ err = "none" => \A n \in Name : LookupContract(resolver', n) = ResolveAfresh(flowJson, n)
      /\ \/ \A n \in Name : LookupContract(resolver', n) = LookupContract(resolver, n)
         \/ \A n \in Name : LookupContract(resolver', n) = ResolveAfresh(flowJson, n)
  <2>1. resolver \in ResolverRecord /\ flowJson \in FlowJsonFile /\ Follows(resolver, flowJson)
    BY <1>2 DEF FileTyped, ResolverFits
  <2> QED  BY <1>1, <2>1, EnsureLoadedFacts
<1> HIDE DEF err
<1>7. FileTyped' /\ ResolverFits'
  BY <1>1, <1>2, <1>6 DEF FileTyped, ResolverFits, Follows
<1>8. flowJson \in FlowJsonFile
  BY <1>2 DEF FileTyped
<1>9. PICK j : j = IF err # "none"
                   THEN [job EXCEPT !.stack = Imported(job.stack, l, 0),
                                    !.fits = ~ResolveAfresh(flowJson, l)]
                   ELSE [job EXCEPT !.pc = "read", !.files = {flowJson}]
  OBVIOUS
<1>10. jobs' = [jobs EXCEPT ![g] = j]
  BY <1>9 DEF ImportLoad, err
<1>11. Imported(job.stack, l, 0) \in Seq(FrameRecord)
  <2> HIDE DEF l, job
  <2> QED  BY <1>3, <1>4, ImportedFacts
<1>12. err # "none" => ~ResolveAfresh(flowJson, l)
  BY <1>1, <1>6, <1>8, AfreshFacts
<1>13. /\ j \in JobRecord /\ j.root = job.root /\ j.fits
       /\ IF err # "none" THEN j.pc = "run" /\ j.stack = Imported(job.stack, l, 0)
          ELSE j.pc = "read" /\ j.stack = job.stack /\ j.files = {flowJson}
  <2> HIDE DEF l, job
  <2>1. CASE err # "none"
    <3>1. j = [job EXCEPT !.stack = Imported(job.stack, l, 0), !.fits = TRUE]
      BY <2>1, <1>9, <1>12
    <3> QED  BY <3>1, <2>1, <1>1, <1>3, <1>11 DEF JobRecord
  <2>2. CASE err = "none"
    <3>1. j = [job EXCEPT !.pc = "read", !.files = {flowJson}]
      BY <2>2, <1>9
    <3>2. "read" \in JobPc
      BY DEF JobPc
    <3> QED  BY <3>1, <3>2, <2>2, <1>3, <1>5, <1>8 DEF JobRecord
  <2> QED  BY <2>1, <2>2
<1>14. JobFits(j) /\ j.stack[1].src = job.stack[1].src /\ j.stack[1].deps \subseteq job.stack[1].deps
  <2>1. CASE err # "none"
    <3>1. /\ jobs[g].pc # "idle" /\ Len(job.stack) <= Len(jobs[g].stack)
          /\ \A i \in 1 .. Len(job.stack) : job.stack[i] = jobs[g].stack[i]
      BY <1>1, <1>3
    <3>2. j.root = jobs[g].root /\ j.stack = Imported(job.stack, l, 0) /\ j.pc = "run"
      BY <1>13, <2>1
    <3>3. JobInv /\ 0 \in Nat
      BY <1>2
    <3>4. /\ JobFits(j) /\ j.stack[1].src = jobs[g].stack[1].src
          /\ j.stack[1].deps \subseteq jobs[g].stack[1].deps \cup (IF 0 = 0 THEN {} ELSE {<<l, 0>>})
      <4> HIDE DEF l
      <4> QED  BY <1>3, <1>4, <3>1, <3>2, <3>3, ImportedJob
    <3> QED  BY <3>4
  <2>2. CASE err = "none"
    <3>1. Last(j.stack).todo # << >> /\ Head(Last(j.stack).todo) \in Name
      BY <2>2, <1>1, <1>4, <1>13 DEF Importing
    <3> HIDE DEF l, job
    <3> QED  BY <3>1, <2>2, <1>1, <1>5, <1>13 DEF JobFits
  <2> QED  BY <2>1, <2>2
<1>15. jobs'[g] = j /\ \A h \in Goroutine : h # g => jobs'[h] = jobs[h]
  BY <1>2, <1>10 DEF JobInv, JobsTyped
<1> HIDE DEF l
<1>16. JobInv'
  <2>1. JobsTyped'
    BY <1>2, <1>10, <1>13 DEF JobInv, JobsTyped
  <2>2. JobsFit'
    <3>1. ASSUME NEW h \in Goroutine PROVE JobFits(jobs[h])'
      <4>1. JobFits(jobs[h]) /\ (jobs'[h] = jobs[h] \/ jobs'[h] = j)
        BY <1>2, <1>15 DEF JobInv, JobsFit
      <4> QED  BY <4>1, <1>1, <1>14 DEF JobFits
    <3> QED  BY <3>1 DEF JobsFit
  <2>3. JobEdges'
    <3>1. ASSUME NEW h \in Goroutine PROVE JobLinked(jobs[h])'
      <4>1. JobLinked(jobs[h])
        BY <1>2 DEF JobInv, JobEdges
      <4>2. CASE h = g
        BY <4>1, <4>2, <1>1, <1>13, <1>14, <1>15 DEF JobLinked
      <4>3. CASE h # g
        BY <4>1, <4>3, <1>1, <1>15 DEF JobLinked
      <4> QED  BY <4>2, <4>3
    <3> QED  BY <3>1 DEF JobEdges
  <2>4. ResolvesFromFile'
    BY <1>2, <1>13, <1>15 DEF JobInv, ResolvesFromFile
  <2>5. FilesSeen'
    <3> DEFINE Sees(h) ==
          /\ flowJson \in jobs'[h].files
          /\ \E f \in jobs'[h].files : \A n \in Name : LookupContract(resolver', n) = ResolveAfresh(f, n)
    <3>1. ASSUME NEW h \in Goroutine, jobs'[h].pc = "read" PROVE Sees(h)
      <4>1. CASE h = g
        <5>1. err = "none" /\ jobs'[h].files = {flowJson}
          BY <3>1, <4>1, <1>13, <1>15
        <5> QED  BY <5>1, <1>6
      <4>2. CASE h # g
        <5>1. jobs'[h] = jobs[h] /\ flowJson \in jobs[h].files
          BY <3>1, <4>2, <1>2, <1>15 DEF JobInv, FilesSeen
        <5>2. PICK f \in jobs[h].files : \A n \in Name : LookupContract(resolver, n) = ResolveAfresh(f, n)
          BY <3>1, <5>1, <1>2 DEF JobInv, FilesSeen
        <5>3. \/ \A n \in Name : LookupContract(resolver', n) = ResolveAfresh(f, n)
              \/ \A n \in Name : LookupContract(resolver', n) = ResolveAfresh(flowJson, n)
          BY <1>6, <5>2
        <5> QED  BY <5>1, <5>2, <5>3
      <4> QED  BY <4>1, <4>2
    <3>2. flowJson' = flowJson
      BY <1>1
    <3> QED  BY <3>1, <3>2 DEF FilesSeen
  <2> QED  BY <2>1, <2>2, <2>3, <2>4, <2>5 DEF JobInv
<1>17. HostTyped'
  BY <1>1, <1>2 DEF HostTyped
<1>18. CacheTyped' /\ CacheEdges'
  <2>1. cache' = cache /\ docs' = docs /\ edges' = edges
    BY <1>1
  <2> QED  BY <2>1, <1>2, CacheSame
<1>19. MainTyped' /\ GotEdges' /\ SessionsTyped' /\ SessionsFit'
  <2>1. main' = main /\ docs' = docs /\ edges \subseteq edges' /\ UNCHANGED sessionVars
    BY <1>1
  <2> QED  BY <1>1, <1>2, <2>1, GotKept, SessionsKept DEF MainTyped
<1>20. MainFits'
  <2>1. CASE g = "main"
    BY <2>1, <1>1, <1>2, <1>13, <1>15 DEF MainFits
  <2>2. CASE g # "main"
    BY <2>2, <1>1, <1>2, <1>15 DEF MainFits, Goroutine
  <2> QED  BY <2>1, <2>2
<1> QED  BY <1>7, <1>16, <1>17, <1>18, <1>19, <1>20, ReqInvParts DEF Parts

(* The second look: the source is read, or not found.                      *)
LEMMA ImportReadInv ==
  ASSUME ReqInv, NEW g \in Goroutine, ImportRead(g)
  PROVE  ReqInv'
<1> DEFINE job == jobs[g]
           l == Importing(g)
           v == IF l \in Name THEN LookupContract(resolver, l) ELSE ResolveFile(l)
           fits == l \in Name => \E f \in job.files : v = ResolveAfresh(f, l)
           read == v /\ PlaceOf(l) \in Parsed
           stack == IF read THEN Append(job.stack, Frame(l, 0)) ELSE Imported(job.stack, l, 0)
<1>0. Parts
  BY ReqInvParts
<1>1. /\ \/ job.pc = "read"
         \/ job.pc = "run" /\ Top(g).todo # << >> /\ l \notin Name
      /\ UNCHANGED <<resolverVars, docs, revision, cache, edges, pending, made, main,
                     sessionVars, requests>>
  BY DEF ImportRead, At
<1>2. JobInv /\ HostTyped /\ CacheTyped /\ CacheEdges
  BY <1>0 DEF Parts
<1>3. /\ job \in JobRecord /\ job.stack \in Seq(FrameRecord) /\ job.stack # << >>
      /\ Len(job.stack) \in Nat \ {0} /\ Top(g) = job.stack[Len(job.stack)]
      /\ \A i \in 1 .. Len(job.stack) - 1 : job.stack[i].todo # << >>
  BY <1>1, <1>2, TopFacts
<1>4. JobFits(job) /\ JobLinked(job)
  BY <1>2 DEF JobInv, JobsFit, JobEdges
<1>5. Top(g).todo # << >>
  BY <1>1, <1>4 DEF JobFits, Top
<1>6. l \in Loc /\ Last(job.stack).todo # << >>
  BY <1>1, <1>2, <1>5, ImportingFacts
<1>7. fits
  <2>1. CASE job.pc = "read"
    BY <2>1, <1>2 DEF JobInv, FilesSeen
  <2>2. CASE l \notin Name
    BY <2>2
  <2> QED  BY <1>1, <2>1, <2>2
<1>8. PICK j : j = [job EXCEPT !.pc = "run", !.files = {}, !.fits = fits, !.stack = stack]
  OBVIOUS
<1>9. jobs' = [jobs EXCEPT ![g] = j]
  BY <1>8 DEF ImportRead
<1>10. v \in BOOLEAN
  BY DEF LookupContract, ResolveFile
<1> HIDE DEF l, v, read
<1>11. stack \in Seq(FrameRecord)
  <2>1. Imported(job.stack, l, 0) \in Seq(FrameRecord)
    BY <1>3, <1>6, ImportedFacts
  <2>2. Append(job.stack, Frame(l, 0)) \in Seq(FrameRecord)
    BY <1>3, <1>6, FrameType
  <2> QED  BY <2>1, <2>2
<1>12. /\ j \in JobRecord /\ j.root = job.root /\ j.fits /\ j.pc = "run" /\ j.stack = stack
  <2>1. fits = TRUE
    BY <1>7
  <2> HIDE DEF fits, stack, job
  <2> QED  BY <1>3, <1>8, <1>11, <2>1 DEF JobRecord, JobPc
<1>13. JobFits(j) /\ j.stack[1].src = job.stack[1].src /\ j.stack[1].deps \subseteq job.stack[1].deps
  <2>1. CASE read
    <3> DEFINE s == job.stack
               t == Append(s, Frame(l, 0))
               n == Len(s)
    <3>1. /\ n \in Nat \ {0} /\ s \in Seq(FrameRecord)
          /\ Frame(l, 0) \in FrameRecord /\ j.stack = t
      BY <1>3, <1>6, <1>12, <2>1, FrameType
    <3>2. Len(t) = n + 1 /\ t # << >> /\ \A i \in 1 .. n : t[i] = s[i]
      <4> HIDE DEF n, s
      <4> QED  BY <3>1 DEF n
    <3>3. s[n].todo # << >> /\ \A i \in 1 .. n - 1 : s[i].todo # << >>
      BY <1>3, <1>5
    <3> HIDE DEF t
    <3>4. ASSUME NEW i \in 1 .. Len(t) - 1 PROVE t[i].todo # << >>
      <4>1. i \in 1 .. n /\ (i = n \/ i \in 1 .. n - 1)
        BY <3>1, <3>2
      <4> QED  BY <4>1, <3>2, <3>3
    <3>5. t[1] = s[1]
      BY <3>1, <3>2
    <3>6. j.pc = "run" /\ j.root = job.root /\ job.pc # "idle"
      BY <1>1, <1>12
    <3> HIDE DEF n
    <3> QED  BY <3>1, <3>2, <3>4, <3>5, <3>6, <1>4 DEF JobFits
  <2>2. CASE ~read
    <3>1. /\ jobs[g].pc # "idle" /\ Len(job.stack) <= Len(jobs[g].stack)
          /\ \A i \in 1 .. Len(job.stack) : job.stack[i] = jobs[g].stack[i]
      BY <1>1, <1>3
    <3>2. j.root = jobs[g].root /\ j.stack = Imported(job.stack, l, 0) /\ j.pc = "run"
      BY <1>12, <2>2
    <3>3. JobInv /\ 0 \in Nat
      BY <1>2
    <3>4. /\ JobFits(j) /\ j.stack[1].src = jobs[g].stack[1].src
          /\ j.stack[1].deps \subseteq jobs[g].stack[1].deps \cup (IF 0 = 0 THEN {} ELSE {<<l, 0>>})
      BY <1>3, <1>6, <3>1, <3>2, <3>3, ImportedJob
    <3> QED  BY <3>4
  <2> QED  BY <2>1, <2>2
<1> HIDE DEF fits, stack, job
<1>14. JobLinked(j)'
  BY <1>1, <1>4, <1>12, <1>13 DEF JobLinked
<1>15. CacheTyped' /\ CacheEdges'
  <2>1. cache' = cache /\ docs' = docs /\ edges' = edges
    BY <1>1
  <2> QED  BY <2>1, <1>2, CacheSame
<1>16. edges' \in SUBSET (Doc \X Loc) /\ IsFiniteSet(edges') /\ edges \subseteq edges' /\ made' \in Nat
  BY <1>1, <1>2 DEF HostTyped
<1> QED  BY <1>1, <1>9, <1>12, <1>13, <1>14, <1>15, <1>16, JobStepInv DEF job

-----------------------------------------------------------------------------
(* Documents                                                               *)

(* An analysis begins with its document's current text.                    *)
LEMMA AnalysisFacts ==
  ASSUME HostTyped, NEW u \in Doc
  PROVE  /\ Analysis(u) \in JobRecord /\ JobFits(Analysis(u)) /\ JobLinked(Analysis(u))
         /\ Analysis(u).fits /\ Analysis(u).pc # "read"
         /\ Analysis(u).pc = "idle" \/ Analysis(u).root = u
         /\ Analysis(u) = NoJob => Analysis(u).pc = "idle"
<1>1. NoJob \in JobRecord /\ NoJob.pc = "idle" /\ NoJob.fits
  BY ConstantRecords
<1>2. CASE docs[u] = 0 \/ docs[u] \in Broken
  <2>1. Analysis(u) = NoJob
    BY <1>2 DEF Analysis
  <2>2. JobFits(NoJob) /\ JobLinked(NoJob)
    BY <1>1 DEF JobFits, JobLinked
  <2> QED  BY <1>1, <2>1, <2>2
<1>3. CASE ~(docs[u] = 0 \/ docs[u] \in Broken)
  <2> DEFINE f == Frame(u, docs[u])
  <2>1. u \in Loc /\ docs[u] \in Nat /\ docs[u] \in 1 .. revision
    BY <1>3, Constants DEF HostTyped
  <2>2. f \in FrameRecord /\ f.loc = u /\ f.src = docs[u] /\ f.deps = {}
    BY <2>1, FrameType
  <2> HIDE DEF f
  <2>3. /\ <<f>> \in Seq(FrameRecord) /\ <<f>> # << >> /\ Len(<<f>>) = 1 /\ <<f>>[1] = f
    BY <2>2
  <2>4. PICK s : s = <<f>>
    OBVIOUS
  <2>5. PICK j : j = [NoJob EXCEPT !.pc = "run", !.root = u, !.stack = s]
    OBVIOUS
  <2>6. /\ j \in JobRecord /\ j.pc = "run" /\ j.root = u /\ j.stack = s /\ j.fits
    BY <1>1, <2>3, <2>4, <2>5 DEF JobRecord, JobPc
  <2>7. Analysis(u) = j
    BY <1>3, <2>4, <2>5 DEF Analysis, f
  <2>8. JobFits(j)
    BY <2>1, <2>2, <2>3, <2>4, <2>6 DEF JobFits
  <2>9. JobLinked(j)
    BY <2>2, <2>3, <2>4, <2>6 DEF JobLinked
  <2>10. j # NoJob
    BY <1>1, <2>6
  <2> QED  BY <2>6, <2>7, <2>8, <2>9, <2>10
<1> QED  BY <1>2, <1>3

(* UpdateDocument and RemoveDocument: what is of the old text is no longer *)
(* current, and what is left in the cache keeps its edges.                 *)
LEMMA DocumentChanged ==
  ASSUME Parts, NEW u \in Doc, NEW v \in {0, revision + 1},
         revision' = revision + 1, docs' = [docs EXCEPT ![u] = v],
         cache' = Without(cache, Dependents(u)), jobs' = Cancelled(u),
         edges' \subseteq edges, \A e \in edges : e[1] # u => e \in edges',
         pending' \in SUBSET Doc, made' = made, UNCHANGED resolverVars
  PROVE  /\ FileTyped' /\ ResolverFits' /\ HostTyped' /\ CacheTyped' /\ CacheEdges' /\ JobInv'
         /\ jobs'["main"] = jobs["main"]
<1>1. JobInv /\ HostTyped /\ CacheTyped /\ CacheEdges
  BY DEF Parts
<1>2. /\ docs \in [Doc -> Nat] /\ revision \in Nat
      /\ revision + 1 \in Nat /\ v \in Nat /\ v <= revision + 1
      /\ \A w \in Doc : docs[w] <= revision
  BY <1>1, Constants DEF HostTyped
<1>3. docs' \in [Doc -> Nat] /\ docs'[u] = v /\ \A w \in Doc : w # u => docs'[w] = docs[w]
  BY <1>2
<1>4. HostTyped'
  <2>1. edges' \in SUBSET (Doc \X Loc) /\ IsFiniteSet(edges')
    BY <1>1, FS_Subset DEF HostTyped
  <2>2. ASSUME NEW w \in Doc PROVE docs'[w] <= revision'
    <3>1. docs[w] \in Nat
      BY <1>2
    <3> QED  BY <3>1, <1>2, <1>3
  <2> QED  BY <1>1, <1>2, <1>3, <2>1, <2>2 DEF HostTyped
<1>5. FileTyped' /\ ResolverFits'
  BY ResolverKept DEF Parts
<1>6. u \in Dependents(u)
  BY DependentsFacts, Constants
<1>7. Coherent(Loc, Checker, cache') /\ Contents(cache'.order) \subseteq Contents(cache.order)
      /\ \A x \in Contents(cache'.order) : x.key # u
  <2>1. Coherent(Loc, Checker, cache)
    BY <1>1 DEF CacheTyped
  <2>2. PICK c : c = Without(cache, Dependents(u))
    OBVIOUS
  <2>3. /\ Coherent(Loc, Checker, c)
        /\ Contents(c.order) = {x \in Contents(cache.order) : x.key \notin Dependents(u)}
    BY <2>1, <2>2, WithoutFacts
  <2>4. cache' = c
    BY <2>2
  <2> HIDE DEF Contents
  <2> QED  BY <2>3, <2>4, <1>6
<1>8. CacheTyped'
  BY <1>1, <1>7 DEF CacheTyped
<1>9. CacheEdges'
  <2>1. ASSUME NEW x \in Contents(cache'.order), x.key \in Doc, CurrentCheck(x.entry, x.key)'
        PROVE  Linked(x.key, x.entry.deps)'
    <3>1. x \in Contents(cache.order) /\ x.key # u /\ docs'[x.key] = docs[x.key]
      BY <2>1, <1>3, <1>7
    <3>2. Linked(x.key, x.entry.deps)
      BY <2>1, <3>1, <1>1 DEF CacheEdges, CurrentCheck
    <3>3. ASSUME NEW d \in x.entry.deps PROVE <<x.key, d[1]>> \in edges'
      <4>1. <<x.key, d[1]>> \in edges /\ <<x.key, d[1]>>[1] = x.key
        BY <3>2 DEF Linked
      <4> QED  BY <4>1, <3>1
    <3> QED  BY <3>3 DEF Linked
  <2> QED  BY <2>1 DEF CacheEdges
<1>10. PICK j : j = [jobs["timer"] EXCEPT
                       !.cancelled = jobs["timer"].cancelled \/ jobs["timer"].root = u]
  OBVIOUS
<1>11. jobs' = [jobs EXCEPT !["timer"] = j]
  BY <1>10 DEF Cancelled
<1>12. jobs["timer"] \in JobRecord /\ "timer" \in Goroutine /\ "main" \in Goroutine
  BY <1>1 DEF JobInv, JobsTyped, Goroutine
<1>13. /\ j \in JobRecord /\ j.pc = jobs["timer"].pc /\ j.root = jobs["timer"].root
       /\ j.stack = jobs["timer"].stack /\ j.edge = jobs["timer"].edge
       /\ j.files = jobs["timer"].files /\ j.fits = jobs["timer"].fits
  <2>1. PICK b \in BOOLEAN : b = (jobs["timer"].cancelled \/ jobs["timer"].root = u)
    BY <1>12 DEF JobRecord
  <2>2. j = [jobs["timer"] EXCEPT !.cancelled = b]
    BY <2>1, <1>10
  <2> QED  BY <2>2, <1>12 DEF JobRecord
<1>14. ASSUME NEW g \in Goroutine
       PROVE  /\ jobs'[g].pc = jobs[g].pc /\ jobs'[g].root = jobs[g].root
              /\ jobs'[g].stack = jobs[g].stack /\ jobs'[g].edge = jobs[g].edge
              /\ jobs'[g].files = jobs[g].files /\ jobs'[g].fits = jobs[g].fits
  <2>1. CASE g = "timer"
    BY <2>1, <1>1, <1>11, <1>12, <1>13 DEF JobInv, JobsTyped
  <2>2. CASE g # "timer"
    BY <2>2, <1>1, <1>11, <1>12 DEF JobInv, JobsTyped
  <2> QED  BY <2>1, <2>2
<1>15. jobs'["main"] = jobs["main"]
  BY <1>1, <1>11, <1>12 DEF JobInv, JobsTyped
<1>16. JobsTyped'
  BY <1>1, <1>11, <1>13 DEF JobInv, JobsTyped
<1>17. JobsFit'
  <2>1. ASSUME NEW g \in Goroutine PROVE JobFits(jobs[g])'
    <3>1. JobFits(jobs[g])
      BY <1>1 DEF JobInv, JobsFit
    <3>2. \A i \in 1 .. revision : i \in 1 .. revision'
      BY <1>2
    <3> QED  BY <3>1, <3>2, <1>14 DEF JobFits
  <2> QED  BY <2>1 DEF JobsFit
<1>18. JobEdges'
  <2>1. ASSUME NEW g \in Goroutine, jobs[g].pc # "idle", jobs[g].stack[1].src = docs'[jobs[g].root],
               NEW d \in jobs[g].stack[1].deps
        PROVE  \/ <<jobs[g].root, d[1]>> \in edges'
               \/ jobs[g].pc = "edge" /\ jobs[g].edge = d[1]
    <3>1. JobFits(jobs[g]) /\ JobLinked(jobs[g])
      BY <1>1 DEF JobInv, JobsFit, JobEdges
    <3>2. jobs[g].root \in Doc /\ jobs[g].stack[1].src \in 1 .. revision
      BY <2>1, <3>1 DEF JobFits
    <3>3. jobs[g].root # u
      <4>1. jobs[g].stack[1].src # v
        BY <3>2, <1>2
      <4> QED  BY <4>1, <2>1, <1>3
    <3>4. \/ <<jobs[g].root, d[1]>> \in edges
          \/ jobs[g].pc = "edge" /\ jobs[g].edge = d[1]
      BY <2>1, <3>1, <3>2, <3>3, <1>3 DEF JobLinked
    <3>5. <<jobs[g].root, d[1]>>[1] = jobs[g].root
      OBVIOUS
    <3> QED  BY <3>3, <3>4, <3>5
  <2>2. ASSUME NEW g \in Goroutine PROVE JobLinked(jobs[g])'
    BY <2>1, <1>14 DEF JobLinked
  <2> QED  BY <2>2 DEF JobEdges
<1>19. ResolvesFromFile' /\ FilesSeen'
  <2>1. flowJson' = flowJson /\ resolver' = resolver
    BY DEF resolverVars, fileVars
  <2> QED  BY <2>1, <1>1, <1>14 DEF JobInv, ResolvesFromFile, FilesSeen
<1> QED  BY <1>4, <1>5, <1>8, <1>9, <1>15, <1>16, <1>17, <1>18, <1>19 DEF JobInv

LEMMA EditInv ==
  ASSUME ReqInv, NEW u \in Doc, Edit(u)
  PROVE  ReqInv'
<1>0. Parts
  BY ReqInvParts
<1>1. /\ main.pc = "idle" /\ revision' = revision + 1
      /\ docs' = [docs EXCEPT ![u] = revision + 1] /\ cache' = Without(cache, Dependents(u))
      /\ jobs' = Cancelled(u) /\ made' = made /\ edges' = edges
      /\ main' = (IF sync THEN [Idle EXCEPT !.pc = "check", !.kind = "check", !.uri = u] ELSE main)
      /\ pending' = IF sync THEN pending ELSE pending \cup {u}
      /\ UNCHANGED <<resolverVars, sessionVars, requests>>
  BY DEF Edit, MainIdle
<1>2. /\ FileTyped' /\ ResolverFits' /\ HostTyped' /\ CacheTyped' /\ CacheEdges' /\ JobInv'
      /\ jobs'["main"] = jobs["main"]
  <2>1. pending' \in SUBSET Doc
    BY <1>0, <1>1 DEF Parts, HostTyped
  <2>2. /\ edges' \subseteq edges /\ \A e \in edges : e[1] # u => e \in edges'
    BY <1>1
  <2> QED  BY <1>0, <1>1, <2>1, <2>2, DocumentChanged
<1>3. jobs'["main"].pc = "idle"
  BY <1>0, <1>1, <1>2 DEF Parts, MainFits
<1>4. /\ MainTyped' /\ (main'.pc # "idle" => main'.uri \in Doc /\ main'.got = NoChecker)
      /\ main'.kind = "request" => main'.pc = "idle"
  <2>1. CASE sync
    <3>1. main' = [Idle EXCEPT !.pc = "check", !.kind = "check", !.uri = u]
      BY <1>1, <2>1
    <3>2. main' = [pc |-> "check", kind |-> "check", uri |-> u, todo |-> {}, acc |-> {},
                   got |-> NoChecker]
      BY <3>1 DEF Idle
    <3>3. NoChecker \in Checker
      BY ConstantRecords
    <3> QED  BY <3>2, <3>3 DEF MainTyped, MainRecord
  <2>2. CASE ~sync
    BY <1>0, <1>1, <2>2 DEF Parts, MainTyped
  <2> QED  BY <2>1, <2>2
<1>5. MainFits'
  BY <1>3, <1>4 DEF MainFits
<1>6. GotEdges'
  <2>1. ~NoChecker.own
    BY ConstantRecords
  <2> QED  BY <2>1, <1>4 DEF GotEdges, CurrentCheck
<1>7. SessionsTyped' /\ SessionsFit'
  BY <1>0, <1>1, <1>4, SessionsKept DEF Parts
<1> QED  BY <1>2, <1>4, <1>5, <1>6, <1>7, ReqInvParts DEF Parts

LEMMA CloseInv ==
  ASSUME ReqInv, NEW u \in Doc, Close(u)
  PROVE  ReqInv'
<1>0. Parts
  BY ReqInvParts
<1>1. /\ main.pc = "idle" /\ revision' = revision + 1
      /\ docs' = [docs EXCEPT ![u] = 0] /\ cache' = Without(cache, Dependents(u))
      /\ jobs' = Cancelled(u) /\ made' = made /\ edges' = {e \in edges : e[1] # u}
      /\ main' = main /\ pending' = pending
      /\ UNCHANGED <<resolverVars, sessionVars, requests>>
  BY DEF Close, MainIdle
<1>2. /\ FileTyped' /\ ResolverFits' /\ HostTyped' /\ CacheTyped' /\ CacheEdges' /\ JobInv'
      /\ jobs'["main"] = jobs["main"]
  <2>1. pending' \in SUBSET Doc
    BY <1>0, <1>1 DEF Parts, HostTyped
  <2>2. /\ edges' \subseteq edges /\ \A e \in edges : e[1] # u => e \in edges'
    BY <1>1
  <2> QED  BY <1>0, <1>1, <2>1, <2>2, DocumentChanged
<1>3. MainTyped' /\ MainFits' /\ GotEdges'
  BY <1>0, <1>1, <1>2 DEF Parts, MainTyped, MainFits, GotEdges
<1>4. SessionsTyped' /\ SessionsFit'
  BY <1>0, <1>1, SessionsKept DEF Parts
<1> QED  BY <1>2, <1>3, <1>4, ReqInvParts DEF Parts

(* Without a delay, the check of an edit begins.                           *)
LEMMA EditChecksInv ==
  ASSUME ReqInv, EditChecks
  PROVE  ReqInv'
<1>a. PICK a : a = Analysis(main.uri)
  OBVIOUS
<1>0. Parts
  BY ReqInvParts
<1>1. /\ main.pc = "check" /\ jobs' = [jobs EXCEPT !["main"] = a]
      /\ main' = (IF a = NoJob THEN Idle ELSE [main EXCEPT !.pc = "wait"])
      /\ UNCHANGED <<resolverVars, docs, revision, cache, edges, pending, made, sessionVars, requests>>
  BY <1>a DEF EditChecks
<1>2. /\ JobInv /\ HostTyped /\ CacheTyped /\ CacheEdges /\ MainTyped /\ MainFits /\ GotEdges
      /\ main.uri \in Doc
  BY <1>0, <1>1 DEF Parts, MainFits
<1>3. /\ a \in JobRecord /\ JobFits(a) /\ JobLinked(a) /\ a.fits /\ a.pc # "read"
      /\ a.pc = "idle" \/ a.root = main.uri
      /\ a = NoJob => a.pc = "idle"
  BY <1>2, <1>a, AnalysisFacts
<1>4. FileTyped' /\ ResolverFits'
  BY <1>0, <1>1, ResolverKept DEF Parts
<1>5. HostTyped'
  BY <1>1, <1>2 DEF HostTyped
<1>6. CacheTyped' /\ CacheEdges'
  <2>1. cache' = cache /\ docs' = docs /\ edges' = edges
    BY <1>1
  <2> QED  BY <2>1, <1>2, CacheSame
<1>7. JobInv'
  <2>1. "main" \in Goroutine /\ JobLinked(a)'
    BY <1>1, <1>3 DEF Goroutine, JobLinked
  <2> QED  BY <1>1, <1>2, <1>3, <2>1, JobStep
<1>8. jobs'["main"] = a
  BY <1>1, <1>2 DEF JobInv, JobsTyped, Goroutine
<1>9. CASE a = NoJob
  <2>1. main' \in MainRecord /\ main'.pc = "idle"
    BY <1>1, <1>9, ConstantRecords
  <2>2. MainTyped' /\ MainFits' /\ GotEdges'
    BY <2>1, <1>3, <1>8, <1>9 DEF MainTyped, MainFits, GotEdges
  <2>3. SessionsTyped' /\ SessionsFit'
    BY <1>0, <1>1, <2>1, SessionsKept DEF Parts
  <2> QED  BY <1>4, <1>5, <1>6, <1>7, <2>2, <2>3, ReqInvParts DEF Parts
<1>10. CASE a # NoJob
  <2>1. /\ main' \in MainRecord /\ main'.pc = "wait" /\ main'.uri = main.uri /\ main'.got = main.got
        /\ main'.kind = main.kind
    BY <1>1, <1>2, <1>10 DEF MainTyped, MainRecord
  <2>2. MainTyped' /\ MainFits'
    BY <2>1, <1>1, <1>2, <1>3, <1>8 DEF MainTyped, MainFits
  <2>3. GotEdges'
    BY <2>1, <1>1, <1>2 DEF GotEdges, CurrentCheck, Linked
  <2>4. SessionsTyped' /\ SessionsFit'
    BY <1>0, <1>1, <2>1, SessionsKept DEF Parts
  <2> QED  BY <1>4, <1>5, <1>6, <1>7, <2>2, <2>3, <2>4, ReqInvParts DEF Parts
<1> QED  BY <1>9, <1>10

(* A timer fires.                                                          *)
LEMMA TimerChecksInv ==
  ASSUME ReqInv, NEW u \in Doc, TimerChecks(u)
  PROVE  ReqInv'
<1>a. PICK a : a = Analysis(u)
  OBVIOUS
<1>0. Parts
  BY ReqInvParts
<1>1. /\ jobs' = [jobs EXCEPT !["timer"] = a] /\ pending' = pending \ {u}
      /\ UNCHANGED <<resolverVars, docs, revision, cache, edges, made, main, sessionVars, requests>>
  BY <1>a DEF TimerChecks
<1>2. JobInv /\ HostTyped /\ CacheTyped /\ CacheEdges /\ MainTyped /\ MainFits /\ GotEdges
  BY <1>0 DEF Parts
<1>3. a \in JobRecord /\ JobFits(a) /\ JobLinked(a) /\ a.fits /\ a.pc # "read"
  BY <1>2, <1>a, AnalysisFacts
<1>4. FileTyped' /\ ResolverFits'
  BY <1>0, <1>1, ResolverKept DEF Parts
<1>5. HostTyped'
  BY <1>1, <1>2 DEF HostTyped
<1>6. CacheTyped' /\ CacheEdges'
  <2>1. cache' = cache /\ docs' = docs /\ edges' = edges
    BY <1>1
  <2> QED  BY <2>1, <1>2, CacheSame
<1>7. JobInv'
  <2>1. "timer" \in Goroutine /\ JobLinked(a)'
    BY <1>1, <1>3 DEF Goroutine, JobLinked
  <2> QED  BY <1>1, <1>2, <1>3, <2>1, JobStep
<1>8. jobs'["main"] = jobs["main"]
  BY <1>1, <1>2 DEF JobInv, JobsTyped, Goroutine
<1>9. MainTyped' /\ MainFits'
  BY <1>1, <1>2, <1>8 DEF MainTyped, MainFits
<1>10. GotEdges' /\ SessionsTyped' /\ SessionsFit'
  BY <1>0, <1>1, GotKept, SessionsKept DEF Parts
<1> QED  BY <1>4, <1>5, <1>6, <1>7, <1>9, <1>10, ReqInvParts DEF Parts

(* The user writes flow.json: its time is later than any that was loaded.  *)
LEMMA UserWritesInv ==
  ASSUME ReqInv, UserWrites
  PROVE  ReqInv'
<1>0. Parts
  BY ReqInvParts
<1>1. /\ writes < MaxWrites /\ writes' = writes + 1 /\ resolver' = resolver
      /\ UNCHANGED <<docs, revision, cache, edges, pending, made, main, sessionVars, requests>>
  BY DEF UserWrites, WriteFlowJson
<1>2. /\ JobInv /\ HostTyped /\ CacheTyped /\ CacheEdges /\ MainTyped /\ MainFits /\ GotEdges
      /\ FileTyped /\ ResolverFits
  BY <1>0 DEF Parts
<1>3. PICK c \in Versions :
        flowJson' = [state |-> c.state, mtime |-> writes + 2, manual |-> c.manual,
                     installed |-> c.installed]
  BY DEF UserWrites, WriteFlowJson
<1>4. /\ c.state \in FileState /\ c.manual \in SUBSET Name /\ c.installed \in SUBSET Name
  BY ResolverAssumption
<1>5. flowJson' \in FlowJsonFile /\ flowJson'.mtime = writes + 2
  <2>1. writes + 2 \in 0 .. MaxWrites + 1
    BY <1>1, <1>2, Constants DEF FileTyped
  <2> QED  BY <1>3, <1>4, <2>1 DEF FlowJsonFile
<1>6. FileTyped' /\ ResolverFits'
  <2>1. /\ writes \in Nat /\ resolver \in ResolverRecord /\ resolver.lastMod \in Nat
        /\ flowJson.mtime = writes + 1 /\ resolver.lastMod <= flowJson.mtime
    BY <1>2 DEF FileTyped, ResolverFits, Follows, ResolverRecord
  <2> QED  BY <1>1, <1>5, <2>1 DEF FileTyped, ResolverFits, Follows
<1>7. jobs' = [g \in Goroutine |->
                IF jobs[g].pc = "read"
                THEN [jobs[g] EXCEPT !.files = jobs[g].files \cup {flowJson'}] ELSE jobs[g]]
  BY DEF UserWrites
<1>8. ASSUME NEW g \in Goroutine
      PROVE  /\ jobs'[g] \in JobRecord /\ jobs'[g].pc = jobs[g].pc /\ jobs'[g].root = jobs[g].root
             /\ jobs'[g].stack = jobs[g].stack /\ jobs'[g].edge = jobs[g].edge
             /\ jobs'[g].fits = jobs[g].fits
             /\ jobs[g].pc = "read" => jobs'[g].files = jobs[g].files \cup {flowJson'}
             /\ jobs[g].pc # "read" => jobs'[g] = jobs[g]
  <2>1. jobs[g] \in JobRecord
    BY <1>2 DEF JobInv, JobsTyped
  <2>2. CASE jobs[g].pc = "read"
    <3>1. jobs'[g] = [jobs[g] EXCEPT !.files = jobs[g].files \cup {flowJson'}]
      BY <2>2, <1>7
    <3>2. jobs[g].files \cup {flowJson'} \in SUBSET FlowJsonFile
      BY <2>1, <1>5 DEF JobRecord
    <3> QED  BY <2>1, <2>2, <3>1, <3>2 DEF JobRecord
  <2>3. CASE jobs[g].pc # "read"
    BY <2>1, <2>3, <1>7
  <2> QED  BY <2>2, <2>3
<1>9. JobInv'
  <2>1. JobsTyped'
    <3>1. jobs' = [g \in Goroutine |-> jobs'[g]]
      BY <1>7
    <3> QED  BY <3>1, <1>8 DEF JobsTyped
  <2>2. JobsFit'
    <3>1. ASSUME NEW g \in Goroutine PROVE JobFits(jobs[g])'
      <4>1. JobFits(jobs[g])
        BY <1>2 DEF JobInv, JobsFit
      <4> QED  BY <4>1, <1>1, <1>8 DEF JobFits
    <3> QED  BY <3>1 DEF JobsFit
  <2>3. JobEdges'
    <3>1. ASSUME NEW g \in Goroutine PROVE JobLinked(jobs[g])'
      <4>1. JobLinked(jobs[g])
        BY <1>2 DEF JobInv, JobEdges
      <4> QED  BY <4>1, <1>1, <1>8 DEF JobLinked
    <3> QED  BY <3>1 DEF JobEdges
  <2>4. ResolvesFromFile'
    BY <1>2, <1>8 DEF JobInv, ResolvesFromFile
  <2>5. FilesSeen'
    <3>1. ASSUME NEW g \in Goroutine, jobs'[g].pc = "read"
          PROVE  /\ flowJson' \in jobs'[g].files
                 /\ \E f \in jobs'[g].files :
                      \A l \in Name : LookupContract(resolver', l) = ResolveAfresh(f, l)
      <4>1. jobs[g].pc = "read" /\ jobs'[g].files = jobs[g].files \cup {flowJson'}
        BY <3>1, <1>8
      <4>2. \E f \in jobs[g].files : \A l \in Name : LookupContract(resolver, l) = ResolveAfresh(f, l)
        BY <4>1, <1>2 DEF JobInv, FilesSeen
      <4> QED  BY <4>1, <4>2, <1>1
    <3> QED  BY <3>1 DEF FilesSeen
  <2> QED  BY <2>1, <2>2, <2>3, <2>4, <2>5 DEF JobInv
<1>10. HostTyped'
  BY <1>1, <1>2 DEF HostTyped
<1>11. CacheTyped' /\ CacheEdges'
  <2>1. cache' = cache /\ docs' = docs /\ edges' = edges
    BY <1>1
  <2> QED  BY <2>1, <1>2, CacheSame
<1>12. MainTyped' /\ MainFits'
  BY <1>1, <1>2, <1>8 DEF MainTyped, MainFits, Goroutine
<1>13. GotEdges' /\ SessionsTyped' /\ SessionsFit'
  BY <1>0, <1>1, GotKept, SessionsKept DEF Parts
<1> QED  BY <1>6, <1>9, <1>10, <1>11, <1>12, <1>13, ReqInvParts DEF Parts


-----------------------------------------------------------------------------
(* Requests                                                                *)

(* checkerForDocument: what it gets from the cache is a checker of the     *)
(* document that has its edges.                                            *)
LEMMA CheckerForDocumentFacts ==
  ASSUME Parts, NEW u \in Doc, NEW m \in MainRecord, CheckerForDocument(u, m),
         jobs["main"].pc = "idle",
         docs' = docs, revision' = revision, edges' = edges, UNCHANGED resolverVars
  PROVE  /\ CacheTyped' /\ CacheEdges' /\ JobInv' /\ MainTyped' /\ MainFits' /\ GotEdges'
         /\ main'.kind = m.kind
<1>0. JobInv /\ HostTyped /\ CacheTyped /\ CacheEdges /\ MainFits
  BY DEF Parts
<1>1. PICK a : a = Analysis(u)
  OBVIOUS
<1>2. PICK run \in BOOLEAN : run = (u \notin cache.items /\ docs[u] # 0 /\ Analysis(u) # NoJob)
  OBVIOUS
<1>3. PICK k : k = IF u \in cache.items THEN EntryOf(cache, u) ELSE NoChecker
  OBVIOUS
<1>4. /\ cache' = AfterGet(cache, u)
      /\ jobs' = IF run THEN [jobs EXCEPT !["main"] = a] ELSE jobs
      /\ main' = [m EXCEPT !.uri = u, !.pc = IF run THEN "wait" ELSE "reply", !.got = k]
  BY <1>1, <1>2, <1>3 DEF CheckerForDocument
<1>5. /\ a \in JobRecord /\ JobFits(a) /\ JobLinked(a) /\ a.fits /\ a.pc # "read"
      /\ a.pc = "idle" \/ a.root = u
  BY <1>0, <1>1, AnalysisFacts
<1>6. CacheTyped' /\ CacheEdges'
  <2>1. edges \subseteq edges'
    OBVIOUS
  <2> QED  BY <2>1, <1>0, <1>4, CacheGot
<1>7. "main" \in Goroutine /\ jobs \in [Goroutine -> JobRecord]
  BY <1>0 DEF Goroutine, JobInv, JobsTyped
<1>8. JobInv'
  <2>1. JobLinked(a)'
    BY <1>5 DEF JobLinked
  <2>2. CASE run
    <3>1. jobs' = [jobs EXCEPT !["main"] = a]
      BY <1>4, <2>2
    <3> QED  BY <3>1, <2>1, <1>0, <1>5, <1>7, JobStep
  <2>3. CASE ~run
    <3>1. jobs' = jobs
      BY <1>4, <2>3
    <3> QED  BY <3>1, <1>0, JobsKept
  <2> QED  BY <2>2, <2>3
<1>9. /\ k \in Checker /\ (k # NoChecker => k.loc = u)
      /\ CurrentCheck(k, u) => Linked(u, k.deps)
  <2>1. CASE u \in cache.items
    <3>1. Coherent(Loc, Checker, cache)
      BY <1>0 DEF CacheTyped
    <3>2. k = EntryOf(cache, u)
      BY <1>3, <2>1
    <3>3. k \in Checker
      BY <3>1, <3>2, <2>1, EntryOfType
    <3>4. PICK x : x = [key |-> u, entry |-> k]
      OBVIOUS
    <3>5. x \in Contents(cache.order)
      BY <3>1, <3>2, <3>4, <2>1, EntryOfContents, Zenon
    <3>6. x.key = u /\ x.entry = k
      BY <3>4
    <3> QED  BY <3>3, <3>5, <3>6, <1>0 DEF CacheTyped, CacheEdges
  <2>2. CASE u \notin cache.items
    BY <1>3, <2>2, ConstantRecords DEF CurrentCheck
  <2> QED  BY <2>1, <2>2
<1>10. /\ main' \in MainRecord /\ main'.uri = u /\ main'.kind = m.kind /\ main'.got = k
       /\ main'.pc = IF run THEN "wait" ELSE "reply"
  <2>1. PICK p \in {"wait", "reply"} : p = IF run THEN "wait" ELSE "reply"
    OBVIOUS
  <2>2. main' = [m EXCEPT !.uri = u, !.pc = p, !.got = k]
    BY <1>4, <2>1
  <2> QED  BY <2>1, <2>2, <1>9 DEF MainRecord
<1>11. MainTyped'
  BY <1>10 DEF MainTyped
<1>12. MainFits'
  <2>1. jobs'["main"].pc # "idle" => run /\ jobs'["main"].root = u
    <3>1. CASE run
      BY <3>1, <1>4, <1>5, <1>7
    <3>2. CASE ~run
      BY <3>2, <1>4
    <3> QED  BY <3>1, <3>2
  <2> QED  BY <2>1, <1>9, <1>10 DEF MainFits
<1>13. GotEdges'
  BY <1>9, <1>10 DEF GotEdges, CurrentCheck, Linked
<1> QED  BY <1>6, <1>8, <1>10, <1>11, <1>12, <1>13

LEMMA AskInv ==
  ASSUME ReqInv, NEW u \in Doc, Ask(u)
  PROVE  ReqInv'
<1>0. Parts
  BY ReqInvParts
<1>1. PICK m : m = [Idle EXCEPT !.kind = "request"]
  OBVIOUS
<1>2. m \in MainRecord
  BY <1>1, ConstantRecords DEF MainRecord
<1>3. /\ main.pc = "idle" /\ requests' = requests + 1 /\ CheckerForDocument(u, m)
      /\ UNCHANGED <<resolverVars, docs, revision, edges, pending, made, sessionVars>>
  BY <1>1 DEF Ask, MainIdle, CheckerForDocument
<1>4. jobs["main"].pc = "idle"
  BY <1>0, <1>3 DEF Parts, MainFits
<1>5. /\ CacheTyped' /\ CacheEdges' /\ JobInv' /\ MainTyped' /\ MainFits' /\ GotEdges'
  BY <1>0, <1>2, <1>3, <1>4, CheckerForDocumentFacts
<1>6. FileTyped' /\ ResolverFits'
  BY <1>0, <1>3, ResolverKept DEF Parts
<1>7. HostTyped'
  BY <1>0, <1>3 DEF Parts, HostTyped
<1>8. SessionsTyped' /\ SessionsFit'
  BY <1>0, <1>3, SessionsAsked DEF Parts
<1> QED  BY <1>5, <1>6, <1>7, <1>8, ReqInvParts DEF Parts

LEMMA WorkspaceSymbolInv ==
  ASSUME ReqInv, WorkspaceSymbol
  PROVE  ReqInv'
<1>0. Parts
  BY ReqInvParts
<1>1. UNCHANGED <<resolverVars, docs, revision, edges, pending, made, sessionVars>>
  BY DEF WorkspaceSymbol
<1>2. FileTyped' /\ ResolverFits'
  BY <1>0, <1>1, ResolverKept DEF Parts
<1>3. HostTyped'
  BY <1>0, <1>1 DEF Parts, HostTyped
<1>4. CASE /\ main.pc = "idle" /\ requests' = requests + 1
           /\ \E u \in {u \in Doc : docs[u] # 0} :
                CheckerForDocument(u, [Idle EXCEPT !.kind = "workspace",
                                         !.todo = {w \in Doc : docs[w] # 0} \ {u}])
  <2>1. PICK u \in {u \in Doc : docs[u] # 0} :
               CheckerForDocument(u, [Idle EXCEPT !.kind = "workspace",
                                        !.todo = {w \in Doc : docs[w] # 0} \ {u}])
    BY <1>4
  <2>2. PICK m : m = [Idle EXCEPT !.kind = "workspace", !.todo = {w \in Doc : docs[w] # 0} \ {u}]
    OBVIOUS
  <2>3. m \in MainRecord
    BY <2>2, ConstantRecords DEF MainRecord
  <2>4. CheckerForDocument(u, m)
    BY <2>1, <2>2 DEF CheckerForDocument
  <2>5. jobs["main"].pc = "idle"
    BY <1>0, <1>4 DEF Parts, MainFits
  <2>6. /\ CacheTyped' /\ CacheEdges' /\ JobInv' /\ MainTyped' /\ MainFits' /\ GotEdges'
    BY <1>0, <1>1, <2>3, <2>4, <2>5, CheckerForDocumentFacts
  <2>7. SessionsTyped' /\ SessionsFit'
    BY <1>0, <1>1, <1>4, SessionsAsked DEF Parts
  <2> QED  BY <1>2, <1>3, <2>6, <2>7, ReqInvParts DEF Parts
<1>5. CASE /\ main.pc = "reply" /\ main.kind = "workspace" /\ requests' = requests
           /\ main' = Idle /\ cache' = cache /\ jobs' = jobs
  <2>1. CacheTyped' /\ CacheEdges'
    BY <1>0, <1>1, <1>5, CacheSame DEF Parts
  <2>2. JobInv'
    BY <1>0, <1>1, <1>5, JobsKept DEF Parts
  <2>3. main' \in MainRecord /\ main'.pc = "idle"
    BY <1>5, ConstantRecords
  <2>4. MainTyped' /\ MainFits' /\ GotEdges'
    BY <1>0, <1>5, <2>3 DEF Parts, MainTyped, MainFits, GotEdges
  <2>5. SessionsTyped' /\ SessionsFit'
    BY <1>0, <1>1, <1>5, <2>3, SessionsKept DEF Parts
  <2> QED  BY <1>2, <1>3, <2>1, <2>2, <2>4, <2>5, ReqInvParts DEF Parts
<1>6. ASSUME main.pc = "reply", main.kind = "workspace", requests' = requests,
             NEW u \in main.todo, NEW acc, acc = main.acc \cup ({main.got.loc} \cap Loc),
             CheckerForDocument(u, [main EXCEPT !.todo = @ \ {u}, !.acc = acc])
      PROVE  ReqInv'
  <2>1. main \in MainRecord /\ u \in Doc
    <3>1. main \in MainRecord
      BY <1>0 DEF Parts, MainTyped
    <3> QED  BY <3>1 DEF MainRecord
  <2>2. PICK m : m = [main EXCEPT !.todo = main.todo \ {u}, !.acc = acc]
    OBVIOUS
  <2>3. m \in MainRecord /\ m.kind = "workspace"
    <3>1. main.todo \ {u} \in SUBSET Doc /\ acc \in SUBSET Loc
      BY <1>6, <2>1 DEF MainRecord
    <3> QED  BY <2>1, <2>2, <3>1, <1>6 DEF MainRecord
  <2>4. CheckerForDocument(u, m)
    BY <1>6, <2>2 DEF CheckerForDocument
  <2>5. jobs["main"].pc = "idle"
    BY <1>0, <1>6 DEF Parts, MainFits
  <2>6. /\ CacheTyped' /\ CacheEdges' /\ JobInv' /\ MainTyped' /\ MainFits' /\ GotEdges'
        /\ main'.kind = "workspace"
    BY <1>0, <1>1, <2>1, <2>3, <2>4, <2>5, CheckerForDocumentFacts
  <2>7. SessionsTyped' /\ SessionsFit'
    BY <1>0, <1>1, <1>6, <2>6, SessionsKept DEF Parts
  <2> QED  BY <1>2, <1>3, <2>6, <2>7, ReqInvParts DEF Parts
<1> QED  BY <1>4, <1>5, <1>6 DEF WorkspaceSymbol, MainIdle

-----------------------------------------------------------------------------
(* Answers                                                                 *)

(* The dependencies of a document, in an order: all of them are there.     *)
LEMMA SearchOrderFacts ==
  ASSUME HostTyped, NEW u, NEW path \in SearchOrders(u)
  PROVE  /\ path \in Seq(Loc)
         /\ \A s : <<u, s>> \in edges => \E i \in DOMAIN path : path[i] = s
<1> DEFINE out == {e \in edges : e[1] = u}
           S == {e[2] : e \in out}
           f == [e \in out |-> e[2]]
           n == Cardinality(S)
<1>1. IsFiniteSet(out)
  BY FS_Subset DEF HostTyped
<1>2. f \in Surjection(out, S)
  BY DEF Surjection
<1>3. IsFiniteSet(S)
  <2> HIDE DEF f, out, S
  <2> QED  BY <1>1, <1>2, FS_Surjection
<1>4. S \subseteq Loc
  BY DEF HostTyped
<1>5. path \in SetToSeqs(S)
  BY DEF SearchOrders
<1>6. \A s : <<u, s>> \in edges => s \in S
  <2>1. ASSUME NEW s, <<u, s>> \in edges PROVE s \in S
    <3>1. <<u, s>> \in out /\ <<u, s>>[2] = s
      BY <2>1
    <3> QED  BY <3>1
  <2> QED  BY <2>1
<1> HIDE DEF S
<1>7. n \in Nat
  BY <1>3, FS_CardinalityType
<1>8. path \in [1 .. n -> S] /\ \A i, j \in 1 .. n : i # j => path[i] # path[j]
  BY <1>5 DEF SetToSeqs
<1> HIDE DEF n
<1>9. path \in Seq(S)
  BY <1>7, <1>8
<1>10. path \in Seq(Loc)
  BY <1>4, <1>7, <1>8
<1>11. path \in Surjection(1 .. n, S)
  <2>1. path \in Injection(1 .. n, S)
    BY <1>8 DEF Injection, IsInjective
  <2>2. IsFiniteSet(1 .. n) /\ Cardinality(1 .. n) = n
    BY <1>7, FS_Interval
  <2>3. Cardinality(1 .. n) = Cardinality(S)
    BY <2>2 DEF n
  <2> QED  BY <1>3, <2>1, <2>3, FS_Injection
<1>12. \A s \in S : \E i \in DOMAIN path : path[i] = s
  BY <1>8, <1>11 DEF Surjection
<1> QED  BY <1>6, <1>10, <1>12

(* What the search reads ends with a dependency that holds the origin, if  *)
(* there is one.                                                           *)
LEMMA SearchedFacts ==
  ASSUME NEW path \in Seq(Loc), NEW c, NEW s
  PROVE  /\ Searched(path, c, s) \in Seq(Loc)
         /\ (\E i \in DOMAIN path : HoldsOrigin(path[i], c, s)) =>
              Searched(path, c, s) # << >> /\ HoldsOrigin(Last(Searched(path, c, s)), c, s)
<1> DEFINE hits == {i \in DOMAIN path : HoldsOrigin(path[i], c, s)}
           h == Min(hits)
<1>1. CASE hits = {}
  <2>1. Searched(path, c, s) = path
    BY <1>1 DEF Searched
  <2> QED  BY <1>1, <2>1
<1>2. CASE hits # {}
  <2>1. hits \in SUBSET Nat
    OBVIOUS
  <2>2. \E x \in hits : \A y \in hits : x <= y
    <3> HIDE DEF hits
    <3> QED  BY <1>2, <2>1, LeastNumber
  <2>3. h \in hits
    <3> HIDE DEF hits
    <3> QED  BY <2>2 DEF Min
  <2>4. Searched(path, c, s) = SubSeq(path, 1, h)
    BY <1>2 DEF Searched
  <2>5. h \in 1 .. Len(path) /\ HoldsOrigin(path[h], c, s)
    BY <2>3
  <2> HIDE DEF h, hits
  <2>6. 1 \in Int /\ h \in Int /\ Len(path) \in Nat /\ \A i \in 1 .. h : i \in 1 .. Len(path)
    BY <2>5
  <2>7. \A i \in 1 .. h : path[i] \in Loc
    BY <2>6
  <2>8. PICK r : r = SubSeq(path, 1, h)
    OBVIOUS
  <2>9. /\ r \in Seq(Loc) /\ Len(r) = h /\ r[h] = path[h]
    <3>1. /\ SubSeq(path, 1, h) \in Seq(Loc)
          /\ Len(SubSeq(path, 1, h)) = (IF 1 <= h THEN h - 1 + 1 ELSE 0)
          /\ \A i \in 1 .. h - 1 + 1 : SubSeq(path, 1, h)[i] = path[1 + i - 1]
      BY <2>6, <2>7, SubSeqProperties
    <3> QED  BY <3>1, <2>5, <2>6, <2>8
  <2>10. r # << >> /\ Last(r) = path[h]
    BY <2>5, <2>9 DEF Last
  <2> QED  BY <2>4, <2>5, <2>8, <2>9, <2>10
<1> QED  BY <1>1, <1>2

(* The end of a handler, whatever it did to the order of the cache.        *)
LEMMA AnswerInv ==
  ASSUME ReqInv, main.pc = "reply", main' = Idle, CacheTyped', CacheEdges',
         UNCHANGED <<resolverVars, docs, revision, edges, pending, jobs, made, sessionVars, requests>>
  PROVE  ReqInv'
<1>0. Parts
  BY ReqInvParts
<1>1. FileTyped' /\ ResolverFits'
  BY <1>0, ResolverKept DEF Parts
<1>2. HostTyped'
  BY <1>0 DEF Parts, HostTyped
<1>3. JobInv'
  BY <1>0, JobsKept DEF Parts
<1>4. main' \in MainRecord /\ main'.pc = "idle"
  BY ConstantRecords
<1>5. MainTyped' /\ MainFits' /\ GotEdges'
  BY <1>0, <1>4 DEF Parts, MainTyped, MainFits, GotEdges
<1>6. SessionsTyped' /\ SessionsFit'
  BY <1>0, <1>4, SessionsKept DEF Parts
<1> QED  BY <1>1, <1>2, <1>3, <1>5, <1>6, ReqInvParts DEF Parts

LEMMA PlainAnswerInv ==
  ASSUME ReqInv, NEW kind, NEW value, Answer(kind, value), cache' = cache
  PROVE  ReqInv'
<1>0. CacheTyped /\ CacheEdges
  BY DEF ReqInv, ReqTyped
<1>1. /\ main.pc = "reply" /\ main' = Idle
      /\ UNCHANGED <<resolverVars, docs, revision, edges, pending, jobs, made, sessionVars, requests>>
  BY DEF Answer
<1>2. CacheTyped' /\ CacheEdges'
  BY <1>0, <1>1, CacheSame
<1> QED  BY <1>1, <1>2, AnswerInv

(* The answers that go through the dependencies.                           *)
LEMMA OwnerAnswerInv ==
  ASSUME ReqInv, NEW path \in SearchOrders(main.uri), NEW s,
         cache' = AfterGets(cache, Searched(path, main.got, s)),
         main.pc = "reply", main' = Idle,
         UNCHANGED <<resolverVars, docs, revision, edges, pending, jobs, made, sessionVars, requests>>
  PROVE  ReqInv'
<1>0. CacheTyped /\ CacheEdges /\ HostTyped
  BY DEF ReqInv, ReqTyped
<1>1. PICK read : read = Searched(path, main.got, s)
  OBVIOUS
<1>2. read \in Seq(Loc)
  BY <1>0, <1>1, SearchOrderFacts, SearchedFacts
<1>3. Coherent(Loc, Checker, cache)
  BY <1>0 DEF CacheTyped
<1>4. PICK c : c = AfterGets(cache, read)
  OBVIOUS
<1>5. Coherent(Loc, Checker, c) /\ Contents(c.order) = Contents(cache.order)
  BY <1>2, <1>3, <1>4, AfterGetsFacts
<1>6. cache' = c
  BY <1>1, <1>4
<1>7. Coherent(Loc, Checker, cache') /\ Contents(cache'.order) \subseteq Contents(cache.order)
      /\ edges \subseteq edges' /\ docs' = docs
  BY <1>5, <1>6
<1>8. CacheTyped' /\ CacheEdges'
  BY <1>0, <1>7, CacheKept
<1> QED  BY <1>8, AnswerInv

(* Definition and Rename.                                                  *)
LEMMA DefinitionInv ==
  ASSUME ReqInv, NEW at, Definition(at) \/ Rename(at)
  PROVE  ReqInv'
<1>1. /\ main.pc = "reply" /\ main' = Idle
      /\ UNCHANGED <<resolverVars, docs, revision, edges, pending, jobs, made, sessionVars, requests>>
  BY DEF Definition, Rename, AnswerWithOwner, Answer
<1>2. \/ cache' = cache
      \/ \E s : \E path \in SearchOrders(main.uri) :
           cache' = AfterGets(cache, Searched(path, main.got, s))
  BY DEF Definition, Rename, AnswerWithOwner
<1>3. CASE cache' = cache
  <2>1. CacheTyped' /\ CacheEdges'
    BY <1>1, <1>3, CacheSame DEF ReqInv, ReqTyped
  <2> QED  BY <1>1, <2>1, AnswerInv
<1>4. CASE \E s : \E path \in SearchOrders(main.uri) :
             cache' = AfterGets(cache, Searched(path, main.got, s))
  BY <1>1, <1>4, OwnerAnswerInv
<1> QED  BY <1>2, <1>3, <1>4

(* The handlers that leave the cache alone.                                *)
LEMMA WalkInv ==
  ASSUME ReqInv, NEW at,
         \/ Hover(at) \/ References(at) \/ SignatureHelp(at) \/ DocumentHighlight(at)
         \/ ProgramWalk \/ CodeAction
  PROVE  ReqInv'
<1>1. PICK kind, value : Answer(kind, value) /\ cache' = cache
  <2>1. CASE Hover(at)
    BY <2>1 DEF Hover
  <2>2. CASE References(at)
    BY <2>2 DEF References
  <2>3. CASE SignatureHelp(at)
    BY <2>3 DEF SignatureHelp
  <2>4. CASE DocumentHighlight(at)
    BY <2>4 DEF DocumentHighlight
  <2>5. CASE ProgramWalk
    BY <2>5 DEF ProgramWalk
  <2>6. CASE CodeAction
    BY <2>6 DEF CodeAction
  <2> QED  BY <2>1, <2>2, <2>3, <2>4, <2>5, <2>6
<1> QED  BY <1>1, PlainAnswerInv

(* Requests that only read the sessions, or nothing.                       *)
LEMMA StubInv ==
  ASSUME ReqInv, Stub \/ ResolveCompletionItem
  PROVE  ReqInv'
<1>0. Parts
  BY ReqInvParts
<1>1. requests' = requests + 1 /\ UNCHANGED <<resolverVars, hostVars, main, sessionVars>>
  BY DEF Stub, ResolveCompletionItem
<1>2. UNCHANGED <<docs, revision, cache, edges, pending, jobs, made>>
  BY <1>1 DEF hostVars
<1>3. FileTyped' /\ ResolverFits'
  BY <1>0, <1>1, ResolverKept DEF Parts
<1>4. HostTyped'
  BY <1>0, <1>2 DEF Parts, HostTyped
<1>5. CacheTyped' /\ CacheEdges'
  BY <1>0, <1>2, CacheSame DEF Parts
<1>6. JobInv'
  BY <1>0, <1>1, <1>2, JobsKept DEF Parts
<1>7. MainTyped' /\ MainFits'
  BY <1>0, <1>1, <1>2 DEF Parts, MainTyped, MainFits
<1>8. GotEdges'
  BY <1>0, <1>1, <1>2, GotKept DEF Parts
<1>9. SessionsTyped' /\ SessionsFit'
  BY <1>0, <1>1, SessionsAsked DEF Parts
<1> QED  BY <1>3, <1>4, <1>5, <1>6, <1>7, <1>8, <1>9, ReqInvParts DEF Parts

(* A new completion session: it is the last, and the one that goes beyond  *)
(* the bound is the first of the others, and no other.                     *)
LEMMA StoreFacts ==
  ASSUME SessionsTyped, SessionsFit, main.pc # "idle", main.kind = "request",
         NEW st \in Session, st.id = requests, StoreCompletionSession(st),
         offered' = Append(offered, st), requests' = requests, main'.pc = "idle"
  PROVE  SessionsTyped' /\ SessionsFit'
<1> DEFINE n == Len(offered)
           k == Len(order)
           all == Append(order, st.id)
<1>1. /\ n \in Nat /\ k \in Nat /\ st.id \in Nat /\ requests \in Nat
      /\ k = IF n <= MaxSessions THEN n ELSE MaxSessions
      /\ MaxSessions \in Nat \ {0} /\ k <= n
  BY Constants DEF SessionsTyped, SessionsFit
<1>2. /\ DOMAIN offered = 1 .. n /\ DOMAIN order = 1 .. k
      /\ \A i \in 1 .. n : offered[i] \in Session
      /\ \A i \in 1 .. k : order[i] = offered[(First - 1) + i].id
      /\ sessions = {offered[i] : i \in First .. n}
      /\ \A i, j \in 1 .. n : i < j => offered[i].id < offered[j].id
      /\ \A i \in 1 .. n : offered[i].id < requests
  BY DEF SessionsTyped, SessionsFit
<1>3. /\ offered' \in Seq(Session) /\ Len(offered') = n + 1 /\ DOMAIN offered' = 1 .. n + 1
      /\ offered'[n + 1] = st /\ \A i \in 1 .. n : offered'[i] = offered[i]
  BY DEF SessionsTyped
<1>4. /\ all \in Seq(Nat) /\ Len(all) = k + 1 /\ DOMAIN all = 1 .. k + 1
      /\ all[k + 1] = st.id /\ \A i \in 1 .. k : all[i] = order[i]
  BY <1>1 DEF SessionsTyped
<1>5. \A i \in 1 .. n : offered[i].id \in Nat
  BY <1>2 DEF Session
<1>6. First = n - k + 1
  BY DEF First
<1>7. \A i \in 1 .. n + 1 : i \in 1 .. n \/ i = n + 1
  BY <1>1
<1>8. /\ \A i, j \in 1 .. n + 1 : i < j => offered'[i].id < offered'[j].id
      /\ \A i \in 1 .. n + 1 : offered'[i].id <= requests'
  <2>1. ASSUME NEW i \in 1 .. n + 1, NEW j \in 1 .. n + 1, i < j
        PROVE  offered'[i].id < offered'[j].id
    <3>1. i \in 1 .. n
      BY <2>1, <1>1
    <3>2. CASE j \in 1 .. n
      BY <2>1, <3>1, <3>2, <1>2, <1>3
    <3>3. CASE j = n + 1
      BY <3>1, <3>3, <1>2, <1>3
    <3> QED  BY <3>2, <3>3, <1>7
  <2>2. ASSUME NEW i \in 1 .. n + 1 PROVE offered'[i].id <= requests'
    <3>1. CASE i \in 1 .. n
      BY <3>1, <1>1, <1>2, <1>3, <1>5
    <3>2. CASE i = n + 1
      BY <3>2, <1>1, <1>3
    <3> QED  BY <3>1, <3>2, <1>7
  <2> QED  BY <2>1, <2>2
<1> HIDE DEF n, k, all
<1>9. /\ order' \in Seq(Nat)
      /\ Len(order') = IF n + 1 <= MaxSessions THEN n + 1 ELSE MaxSessions
      /\ \A i \in 1 .. Len(order') : order'[i] = offered'[(n + 1 - Len(order')) + i].id
      /\ sessions' = {offered'[i] : i \in (n + 1 - Len(order')) + 1 .. n + 1}
  <2>1. CASE k + 1 <= MaxSessions
    <3>1. k = n /\ First = 1 /\ n + 1 <= MaxSessions
      BY <2>1, <1>1, <1>6
    <3>2. order' = all /\ sessions' = sessions \cup {st}
      BY <2>1, <1>4 DEF StoreCompletionSession, all
    <3>3. \A i \in 1 .. n : order[i] = offered[i].id
      BY <3>1, <1>1, <1>2
    <3>4. \A i \in 1 .. n + 1 : order'[i] = offered'[i].id
      BY <3>1, <3>2, <3>3, <1>3, <1>4, <1>7
    <3>5. sessions' = {offered'[i] : i \in 1 .. n + 1}
      <4>1. \A i \in 1 .. n : i \in 1 .. n + 1
        BY <1>1
      <4>2. n + 1 \in 1 .. n + 1
        BY <1>1
      <4> QED  BY <4>1, <4>2, <3>1, <3>2, <1>2, <1>3, <1>7
    <3>6. Len(order') = n + 1 /\ n + 1 - Len(order') = 0
      BY <3>1, <3>2, <1>1, <1>4
    <3>7. \A i \in 1 .. n + 1 : (n + 1 - Len(order')) + i = i
      BY <3>6, <1>1
    <3>8. \A i \in 1 .. Len(order') : order'[i] = offered'[(n + 1 - Len(order')) + i].id
      BY <3>4, <3>6, <3>7
    <3>9. (n + 1 - Len(order')) + 1 = 1
      BY <3>6
    <3>10. order' \in Seq(Nat) /\ Len(order') = IF n + 1 <= MaxSessions THEN n + 1 ELSE MaxSessions
      BY <3>1, <3>2, <3>6, <1>4
    <3>11. sessions' = {offered'[i] : i \in (n + 1 - Len(order')) + 1 .. n + 1}
      BY <3>5, <3>9
    <3> QED  BY <3>8, <3>10, <3>11
  <2>2. CASE k + 1 > MaxSessions
    <3>1. k = MaxSessions /\ n >= k /\ First \in 1 .. n /\ ~(n + 1 <= MaxSessions)
      BY <2>2, <1>1, <1>6
    <3>2. order' = Tail(all) /\ sessions' = {x \in sessions \cup {st} : x.id # Head(all)}
      <4>1. ~(Len(all) <= MaxSessions)
        BY <2>2, <1>1, <1>4
      <4> QED  BY <4>1 DEF StoreCompletionSession, all
    <3>3. Head(all) = offered[First].id
      <4>1. 1 \in 1 .. k /\ (First - 1) + 1 = First
        BY <3>1, <1>1
      <4>2. Head(all) = all[1]
        BY <1>4
      <4> QED  BY <4>1, <4>2, <1>2, <1>4
    <3>4. /\ order' \in Seq(Nat) /\ Len(order') = k /\ \A i \in 1 .. k : order'[i] = all[i + 1]
      <4>1. all # << >> /\ Len(all) \in Nat
        BY <1>1, <1>4
      <4>2. Tail(all) \in Seq(Nat) /\ Len(Tail(all)) = Len(all) - 1
            /\ \A i \in 1 .. Len(all) - 1 : Tail(all)[i] = all[i + 1]
        BY <4>1, <1>4
      <4> QED  BY <4>2, <3>2, <1>1, <1>4
    <3>5. ASSUME NEW i \in 1 .. k PROVE order'[i] = offered'[First + i].id
      <4>1. CASE i = k
        <5>1. First + i = n + 1 /\ order'[i] = all[k + 1]
          BY <4>1, <3>4, <1>1, <1>6
        <5> QED  BY <5>1, <1>3, <1>4
      <4>2. CASE i # k
        <5>1. i + 1 \in 1 .. k /\ (First - 1) + (i + 1) = First + i /\ First + i \in 1 .. n
          BY <4>2, <1>1, <1>6, <3>1
        <5>2. order'[i] = order[i + 1]
          BY <5>1, <3>4, <1>4
        <5>3. order[i + 1] = offered[First + i].id
          BY <5>1, <1>2
        <5> QED  BY <5>1, <5>2, <5>3, <1>3
      <4> QED  BY <4>1, <4>2
    <3>6. sessions' = {offered'[i] : i \in First + 1 .. n + 1}
      <4>1. \A i \in First .. n : i \in 1 .. n
        BY <3>1, <1>1
      <4>2. \A i \in First .. n : i # First <=> i \in First + 1 .. n + 1
        BY <3>1, <1>1
      <4>3. ASSUME NEW i \in First .. n PROVE offered[i].id = offered[First].id <=> i = First
        <5>1. i \in 1 .. n /\ First \in 1 .. n /\ (i = First \/ First < i)
          BY <4>1, <3>1, <1>1
        <5> QED  BY <5>1, <1>2, <1>5
      <4>4. st.id # offered[First].id
        BY <3>1, <1>1, <1>2, <1>5
      <4>5. \A i \in First + 1 .. n + 1 : i \in First .. n \/ i = n + 1
        BY <3>1, <1>1
      <4>6. n + 1 \in First + 1 .. n + 1
        BY <3>1, <1>1
      <4>7. ASSUME NEW x \in sessions' PROVE x \in {offered'[i] : i \in First + 1 .. n + 1}
        <5>1. (x \in sessions \/ x = st) /\ x.id # offered[First].id
          BY <4>7, <3>2, <3>3
        <5>2. CASE x = st
          BY <5>2, <4>6, <1>3
        <5>3. CASE x \in sessions
          <6>1. PICK i \in First .. n : x = offered[i]
            BY <5>3, <1>2
          <6>2. i \in First + 1 .. n + 1
            BY <6>1, <5>1, <4>2
          <6> QED  BY <6>1, <6>2, <4>1, <1>3
        <5> QED  BY <5>1, <5>2, <5>3
      <4>8. ASSUME NEW i \in First + 1 .. n + 1 PROVE offered'[i] \in sessions'
        <5>1. CASE i = n + 1
          BY <5>1, <4>4, <3>2, <3>3, <1>3
        <5>2. CASE i \in First .. n
          <6>1. offered'[i] = offered[i] /\ i # First /\ offered[i] \in sessions
            BY <5>2, <4>1, <4>2, <1>2, <1>3
          <6> QED  BY <6>1, <5>2, <4>3, <3>2, <3>3
        <5> QED  BY <5>1, <5>2, <4>5
      <4> QED  BY <4>7, <4>8
    <3>7. n + 1 - Len(order') = First
      BY <3>1, <3>4, <1>1, <1>6
    <3> QED  BY <3>1, <3>4, <3>5, <3>6, <3>7
  <2>3. k + 1 <= MaxSessions \/ k + 1 > MaxSessions
    BY <1>1
  <2> QED  BY <2>1, <2>2, <2>3
<1>10. sessions' \in SUBSET Session
  <2>1. sessions' \subseteq sessions \cup {st}
    BY DEF StoreCompletionSession
  <2> QED  BY <2>1 DEF SessionsTyped
<1>11. SessionsTyped'
  BY <1>1, <1>3, <1>9, <1>10 DEF SessionsTyped
<1>12. First' = (n + 1 - Len(order')) + 1 /\ First' - 1 = n + 1 - Len(order')
  <2>1. Len(order') \in Nat
    BY <1>9
  <2> QED  BY <2>1, <1>1, <1>3 DEF First
<1>13. DOMAIN order' = 1 .. Len(order')
  BY <1>9
<1>14. SessionsFit'
  BY <1>3, <1>8, <1>9, <1>12, <1>13 DEF SessionsFit
<1> QED  BY <1>11, <1>14

LEMMA CompletionInv ==
  ASSUME ReqInv, Completion
  PROVE  ReqInv'
<1>0. Parts
  BY ReqInvParts
<1>1. /\ main.pc = "reply" /\ main.kind = "request" /\ main' = Idle /\ requests' = requests
      /\ UNCHANGED <<resolverVars, hostVars>>
  BY DEF Completion
<1>2. UNCHANGED <<docs, revision, cache, edges, pending, jobs, made>>
  BY <1>1 DEF hostVars
<1>3. FileTyped' /\ ResolverFits'
  BY <1>0, <1>1, ResolverKept DEF Parts
<1>4. HostTyped'
  BY <1>0, <1>2 DEF Parts, HostTyped
<1>5. CacheTyped' /\ CacheEdges'
  BY <1>0, <1>2, CacheSame DEF Parts
<1>6. JobInv'
  BY <1>0, <1>1, <1>2, JobsKept DEF Parts
<1>7. main' \in MainRecord /\ main'.pc = "idle"
  BY <1>1, ConstantRecords
<1>8. MainTyped' /\ MainFits' /\ GotEdges'
  BY <1>0, <1>1, <1>2, <1>7 DEF Parts, MainTyped, MainFits, GotEdges
<1>9. SessionsTyped' /\ SessionsFit'
  <2>1. CASE UNCHANGED <<sessions, order, offered>>
    BY <2>1, <1>0, <1>1, <1>7, SessionsKept DEF Parts, sessionVars
  <2>2. ASSUME NEW at \in {"member", "range"}, NEW st, st = [id |-> requests, kind |-> at],
               StoreCompletionSession(st), offered' = Append(offered, st)
        PROVE  SessionsTyped' /\ SessionsFit'
    <3>1. st \in Session /\ st.id = requests
      BY <2>2, <1>0 DEF Parts, SessionsTyped, Session
    <3> QED  BY <2>2, <3>1, <1>0, <1>1, <1>7, StoreFacts DEF Parts
  <2>3. \/ UNCHANGED <<sessions, order, offered>>
        \/ \E at \in {"member", "range"} :
             /\ StoreCompletionSession([id |-> requests, kind |-> at])
             /\ offered' = Append(offered, [id |-> requests, kind |-> at])
    BY DEF Completion, MemberCompletions, RangeCompletions, sessionVars
  <2>4. CASE \E at \in {"member", "range"} :
             /\ StoreCompletionSession([id |-> requests, kind |-> at])
             /\ offered' = Append(offered, [id |-> requests, kind |-> at])
    <3>1. PICK at \in {"member", "range"} :
             /\ StoreCompletionSession([id |-> requests, kind |-> at])
             /\ offered' = Append(offered, [id |-> requests, kind |-> at])
      BY <2>4
    <3>2. PICK st : st = [id |-> requests, kind |-> at]
      OBVIOUS
    <3>3. StoreCompletionSession(st) /\ offered' = Append(offered, st)
      BY <3>1, <3>2 DEF StoreCompletionSession
    <3> QED  BY <3>2, <3>3, <2>2
  <2> QED  BY <2>1, <2>3, <2>4
<1> QED  BY <1>3, <1>4, <1>5, <1>6, <1>8, <1>9, ReqInvParts DEF Parts

-----------------------------------------------------------------------------
(* The invariant                                                           *)

(* A new server.                                                           *)
LEMMA InitInv == ReqInit => ReqInv
<1> SUFFICES ASSUME ReqInit PROVE ReqInv
  OBVIOUS
<1>1. PICK s \in {"good", "broken"} :
        flowJson = [state |-> s, mtime |-> 1, manual |-> Name, installed |-> Name]
  BY DEF ReqInit, ResolverInit
<1>2. writes = 0 /\ resolver = NewFlowJSONResolver
  BY DEF ReqInit, ResolverInit
<1>3. flowJson \in FlowJsonFile /\ flowJson.mtime = 1
  BY <1>1, Constants DEF FlowJsonFile, FileState
<1>4. resolver \in ResolverRecord /\ resolver.nil /\ resolver.lastMod = 0
  <2>1. NoPaths \in [Name -> {"none", "manual", "installed"}]
    BY DEF NoPaths
  <2> QED  BY <2>1, <1>2 DEF NewFlowJSONResolver, ResolverRecord
<1>5. FileTyped /\ ResolverFits
  BY <1>2, <1>3, <1>4 DEF FileTyped, ResolverFits, Follows
<1>6. HostTyped
  BY Constants, FS_EmptySet DEF ReqInit, HostTyped
<1>7. CacheTyped /\ CacheEdges
  <2>1. PICK n \in Nat \ {0} : cache = [capacity |-> n, items |-> {}, order |-> << >>]
    <3>1. PICK c \in Int : c = IF CacheCapacity <= 0 THEN 128 ELSE CacheCapacity
      BY Constants
    <3>2. cache = NewCache(c)
      BY <3>1 DEF ReqInit
    <3>3. PICK n : n = IF c < 1 THEN 1 ELSE c
      OBVIOUS
    <3>4. n \in Nat \ {0}
      BY <3>3
    <3> QED  BY <3>2, <3>3, <3>4 DEF NewCache
  <2>2. DOMAIN << >> = {} /\ Len(<< >>) = 0 /\ << >> \in Seq(Items(Loc, Checker))
    OBVIOUS
  <2>3. cache.capacity = n /\ cache.items = {} /\ cache.order = << >> /\ cache \in CacheOf(Loc, Checker)
    BY <2>1, <2>2 DEF CacheOf
  <2>4. ListKeys(cache.order) = {} /\ Distinct(cache.order) /\ Contents(cache.order) = {}
    BY <2>2, <2>3 DEF ListKeys, Distinct, Contents
  <2>5. Coherent(Loc, Checker, cache)
    BY <2>2, <2>3, <2>4 DEF Coherent
  <2> QED  BY <2>4, <2>5 DEF CacheTyped, CacheEdges
<1>8. jobs = [g \in Goroutine |-> NoJob] /\ \A g \in Goroutine : jobs[g] = NoJob
  BY DEF ReqInit
<1>9. JobsTyped /\ FilesSeen /\ ResolvesFromFile
  BY <1>8, ConstantRecords DEF JobsTyped, FilesSeen, ResolvesFromFile
<1>10. JobsFit /\ JobEdges
  BY <1>8, ConstantRecords DEF JobsFit, JobFits, JobEdges, JobLinked
<1>11. MainTyped /\ MainFits /\ GotEdges
  <2>1. main \in MainRecord /\ main.pc = "idle" /\ "main" \in Goroutine
    BY ConstantRecords DEF ReqInit, Goroutine
  <2> QED  BY <2>1, <1>8, ConstantRecords DEF MainTyped, MainFits, GotEdges
<1>12. SessionsTyped /\ SessionsFit
  <2>1. /\ sessions = {} /\ order = << >> /\ offered = << >> /\ requests = 0
        /\ MaxSessions \in Nat \ {0}
    BY Constants DEF ReqInit
  <2>2. SessionsTyped
    BY <2>1 DEF SessionsTyped
  <2>3. Len(offered) = 0 /\ Len(order) = 0 /\ DOMAIN order = {} /\ DOMAIN offered = {} /\ First = 1
    BY <2>1 DEF First
  <2> QED  BY <2>1, <2>2, <2>3 DEF SessionsFit
<1> QED  BY <1>5, <1>6, <1>7, <1>9, <1>10, <1>11, <1>12 DEF ReqInv, ReqTyped, ReqFits

LEMMA NextInv == ReqInv /\ [ReqNext]_reqVars => ReqInv'
<1>0. SUFFICES ASSUME ReqInv, [ReqNext]_reqVars PROVE ReqInv'
  OBVIOUS
<1>1. CASE ClientMessage
  BY <1>0, <1>1, EditInv, CloseInv, AskInv, StubInv DEF ClientMessage
<1>2. CASE Handler
  <2>1. CASE \E at \in Positions : Hover(at) \/ Definition(at) \/ References(at)
                           \/ SignatureHelp(at) \/ DocumentHighlight(at) \/ Rename(at)
    BY <1>0, <2>1, WalkInv, DefinitionInv
  <2>2. CASE DocumentSymbol \/ InlayHint \/ SelectionRange \/ FoldingRange \/ SemanticTokensFull
             \/ CodeAction
    BY <1>0, <2>2, WalkInv
       DEF DocumentSymbol, InlayHint, SelectionRange, FoldingRange, SemanticTokensFull
  <2>3. CASE WorkspaceSymbol \/ Completion \/ EditChecks
    BY <1>0, <2>3, WorkspaceSymbolInv, CompletionInv, EditChecksInv
  <2> QED  BY <1>2, <2>1, <2>2, <2>3 DEF Handler
<1>3. CASE \E u \in Doc : TimerChecks(u)
  BY <1>0, <1>3, TimerChecksInv
<1>4. CASE \E g \in Goroutine : AnalyzeStep(g)
  BY <1>0, <1>4, ImportCachedInv, ImportLoadInv, ImportReadInv, ImportCheckedInv, ImportEdgeInv,
     CheckedInv, AnalyzePutInv DEF AnalyzeStep
<1>5. CASE UserWrites
  BY <1>0, <1>5, UserWritesInv
<1>6. CASE UNCHANGED reqVars
  <2>0. Parts
    BY <1>0, ReqInvParts
  <2>1. /\ UNCHANGED <<resolverVars, docs, revision, cache, edges, pending, jobs, made, main,
                       sessionVars, requests>>
    BY <1>6 DEF reqVars, hostVars
  <2>2. FileTyped' /\ ResolverFits'
    BY <2>0, <2>1, ResolverKept DEF Parts
  <2>3. HostTyped'
    BY <2>0, <2>1 DEF Parts, HostTyped
  <2>4. CacheTyped' /\ CacheEdges'
    BY <2>0, <2>1, CacheSame DEF Parts
  <2>5. JobInv'
    BY <2>0, <2>1, JobsKept DEF Parts
  <2>6. MainTyped' /\ MainFits'
    BY <2>0, <2>1 DEF Parts, MainTyped, MainFits
  <2>7. GotEdges'
    BY <2>0, <2>1, GotKept DEF Parts
  <2>8. SessionsTyped' /\ SessionsFit'
    BY <2>0, <2>1, SessionsKept DEF Parts
  <2> QED  BY <2>2, <2>3, <2>4, <2>5, <2>6, <2>7, <2>8, ReqInvParts DEF Parts
<1> QED  BY <1>0, <1>1, <1>2, <1>3, <1>4, <1>5, <1>6 DEF ReqNext

(* The invariant holds, whatever the handlers, the timer's analysis and    *)
(* the writes of flow.json do in whichever order.                          *)
THEOREM ReqInvariant == ReqSpec => []ReqInv
<1>1. ReqInit => ReqInv
  BY InitInv
<1>2. ReqInv /\ [ReqNext]_reqVars => ReqInv'
  BY NextInv
<1> QED  BY <1>1, <1>2, PTL DEF ReqSpec

(* The state of the server is well typed: what is cached is a checker of   *)
(* its key's location, edges leave documents, and every analysis begins    *)
(* with its document.                                                      *)
THEOREM ReqTypeCorrect == ReqSpec => []ReqTypeOK
<1>1. ReqInv => ReqTypeOK
  <2> SUFFICES ASSUME ReqInv PROVE ReqTypeOK
    OBVIOUS
  <2>1. resolver.paths \in [Name -> {"none", "manual", "installed"}] /\ flowJson \in FlowJsonFile
    BY DEF ReqInv, ReqTyped, FileTyped, ResolverRecord
  <2>2. docs \in [Doc -> Nat] /\ edges \subseteq Doc \X Loc /\ pending \subseteq Doc
    BY DEF ReqInv, ReqTyped, HostTyped
  <2>3. CacheTyped
    BY DEF ReqInv, ReqTyped
  <2>4. cache.items = ListKeys(cache.order) /\ cache.order \in Seq(Items(Loc, Checker))
    BY <2>3 DEF CacheTyped, Coherent, CacheOf
  <2>5. ASSUME NEW i \in DOMAIN cache.order
        PROVE  cache.order[i].entry \in Checker /\ cache.order[i].entry.loc = cache.order[i].key
    <3>1. cache.order[i] \in Items(Loc, Checker) /\ cache.order[i] \in Contents(cache.order)
      BY <2>4 DEF Contents
    <3>2. cache.order[i].entry \in Checker
      BY <3>1 DEF Items
    <3> QED  BY <3>1, <3>2, <2>3 DEF CacheTyped
  <2>6. \A g \in Goroutine : jobs[g].pc # "idle" => jobs[g].stack[1].loc = jobs[g].root
    BY DEF ReqInv, ReqFits, JobsFit, JobFits
  <2>7. main.pc \in {"idle", "check", "wait", "reply"}
    BY DEF ReqInv, ReqTyped, MainTyped, MainRecord
  <2>8. sessions \subseteq [id : Nat, kind : {"member", "range"}]
    BY DEF ReqInv, ReqTyped, SessionsTyped, Session
  <2> QED  BY <2>1, <2>2, <2>4, <2>5, <2>6, <2>7, <2>8 DEF ReqTypeOK
<1> QED  BY <1>1, ReqInvariant, PTL

(* FlowJSONResolver follows the file: every import that was resolved got   *)
(* what the flow.json of some moment during the call says, or failed as    *)
(* that one would, for any interleaving of two resolving goroutines and    *)
(* any number of writes, breaks and removals of the file.                  *)
THEOREM ResolvesFile == ReqSpec => []ResolvesFromFile
<1>1. ReqInv => ResolvesFromFile
  BY DEF ReqInv, ReqFits
<1> QED  BY <1>1, ReqInvariant, PTL

(* For any bound on the sessions: the items of each of the last            *)
(* MaxSessions completions that offered any can be resolved, to what that  *)
(* completion offered, and no more sessions than that are kept.            *)
THEOREM RecentResolve == ReqSpec => []RecentSessionsResolve
<1>1. ReqInv => RecentSessionsResolve
  <2> SUFFICES ASSUME ReqInv PROVE RecentSessionsResolve
    OBVIOUS
  <2> DEFINE n == Len(offered)
             k == Len(order)
             I == First .. n
             f == [i \in I |-> offered[i]]
  <2>1. /\ n \in Nat /\ k \in Nat /\ MaxSessions \in Nat \ {0} /\ DOMAIN offered = 1 .. n
        /\ k = (IF n <= MaxSessions THEN n ELSE MaxSessions) /\ First = n - k + 1
        /\ sessions = {offered[i] : i \in First .. n}
    BY Constants DEF ReqInv, ReqTyped, SessionsTyped, SessionsFit, First
  <2> HIDE DEF n, k
  <2>2. First \in Int /\ n \in Int /\ k <= MaxSessions
        /\ (IF First > n THEN 0 ELSE n - First + 1) = k
    BY <2>1
  <2>3. IsFiniteSet(I) /\ Cardinality(I) = k
    <3>1. PICK a \in Int : a = First
      BY <2>2
    <3>2. IsFiniteSet(a .. n) /\ Cardinality(a .. n) = IF a > n THEN 0 ELSE n - a + 1
      BY <2>2, FS_Interval
    <3> QED  BY <3>1, <3>2, <2>2
  <2>4. f \in Surjection(I, sessions)
    BY <2>1 DEF Surjection
  <2>5. Cardinality(sessions) <= Cardinality(I) /\ IsFiniteSet(sessions)
    <3> HIDE DEF f, I
    <3> QED  BY <2>3, <2>4, FS_Surjection
  <2>6. Cardinality(sessions) \in Nat
    BY <2>5, FS_CardinalityType
  <2>7. Cardinality(sessions) <= MaxSessions
    <3> HIDE DEF I
    <3> QED  BY <2>1, <2>2, <2>3, <2>5, <2>6
  <2>8. ASSUME NEW i \in DOMAIN offered, i > n - MaxSessions PROVE offered[i] \in sessions
    <3>1. i \in First .. n
      BY <2>1, <2>8
    <3> QED  BY <3>1, <2>1
  <2> QED  BY <2>7, <2>8 DEF RecentSessionsResolve, n
<1> QED  BY <1>1, ReqInvariant, PTL

-----------------------------------------------------------------------------
(* What steps may never do                                                 *)

(* Only an edit or a close changes the documents.                          *)
LEMMA DocsKept ==
  ASSUME ReqNext, ~\E u \in Doc : Edit(u) \/ Close(u)
  PROVE  docs' = docs
<1>1. CASE \/ \E u \in Doc : Ask(u) \/ TimerChecks(u)
           \/ Stub \/ ResolveCompletionItem \/ WorkspaceSymbol \/ Completion \/ EditChecks
           \/ UserWrites
  BY <1>1 DEF Ask, TimerChecks, Stub, ResolveCompletionItem, WorkspaceSymbol, Completion,
              EditChecks, UserWrites, hostVars
<1>2. CASE \E at \in Positions : Hover(at) \/ Definition(at) \/ References(at)
                           \/ SignatureHelp(at) \/ DocumentHighlight(at) \/ Rename(at)
  BY <1>2 DEF Hover, Definition, References, SignatureHelp, DocumentHighlight, Rename,
              AnswerWithOwner, Answer
<1>3. CASE \/ DocumentSymbol \/ InlayHint \/ SelectionRange \/ FoldingRange \/ SemanticTokensFull
           \/ CodeAction
  BY <1>3 DEF DocumentSymbol, InlayHint, SelectionRange, FoldingRange, SemanticTokensFull,
              ProgramWalk, CodeAction, Answer
<1>4. CASE \E g \in Goroutine : AnalyzeStep(g)
  BY <1>4 DEF AnalyzeStep, ImportCached, ImportLoad, ImportRead, ImportChecked, ImportEdge,
              Checked, AnalyzePut
<1> QED  BY <1>1, <1>2, <1>3, <1>4 DEF ReqNext, ClientMessage, Handler

(* What is left in the cache by an edit or a close of u, and was of the    *)
(* current text of its document, has no import under the keys that went.   *)
LEMMA DependentsGone ==
  ASSUME ReqInv, NEW u \in Doc, cache' = Without(cache, Dependents(u)),
         NEW w \in Doc \cap cache'.items, CurrentCheck(EntryOf(cache', w), w),
         NEW l \in {u} \cup (cache.items \ cache'.items)
  PROVE  ~Direct(EntryOf(cache', w), l)
<1>0. CacheTyped /\ CacheEdges
  BY DEF ReqInv, ReqTyped
<1>1. Coherent(Loc, Checker, cache)
  BY <1>0 DEF CacheTyped
<1>2. PICK c : c = Without(cache, Dependents(u))
  OBVIOUS
<1>3. /\ Coherent(Loc, Checker, c)
      /\ Contents(c.order) = {x \in Contents(cache.order) : x.key \notin Dependents(u)}
  BY <1>1, <1>2, WithoutFacts
<1>4. cache' = c
  BY <1>2
<1>5. PICK k : k = EntryOf(c, w)
  OBVIOUS
<1>6. PICK x : x = [key |-> w, entry |-> k]
  OBVIOUS
<1>7. x.key = w /\ x.entry = k
  BY <1>6
<1>8. w \in c.items
  BY <1>4
<1>9. x \in Contents(c.order)
  BY <1>3, <1>5, <1>6, <1>8, EntryOfContents, Zenon
<1>10. x \in Contents(cache.order) /\ w \notin Dependents(u)
  BY <1>3, <1>7, <1>9
<1>11. CurrentCheck(k, w)
  BY <1>4, <1>5 DEF CurrentCheck
<1>12. Linked(w, k.deps)
  BY <1>0, <1>7, <1>10, <1>11 DEF CacheEdges
<1>13. w \in Loc /\ u \in Loc
  BY Constants
<1>14. l \in Dependents(u)
  <2>1. cache'.items = cache.items \ Dependents(u)
    BY DEF Without
  <2> QED  BY <2>1, <1>13, DependentsFacts
<1>15. <<w, l>> \notin edges
  BY <1>10, <1>13, <1>14, DependentsFacts
<1>16. ~Direct(k, l)
  BY <1>12, <1>15 DEF Linked, Direct
<1> QED  BY <1>4, <1>5, <1>16 DEF Direct

(* Invalidation by key: an edit or a close of u leaves no cached checker   *)
(* of an open document's current text that imported u by its URI, or so a  *)
(* document whose checker the edit dropped, for any import graph (with     *)
(* cycles too), any capacity and any interleaving of the analyses:         *)
(* EditInvalidatesUsers.  Imports that call u's file otherwise have other  *)
(* keys, and nothing is claimed of them.                                   *)
THEOREM EditInvalidates == ReqSpec => EditInvalidatesUsers
<1> DEFINE A == \A u \in Doc :
                  docs'[u] # docs[u] =>
                    \A w \in Doc \cap cache'.items, l \in {u} \cup (cache.items \ cache'.items) :
                      LET k == EntryOf(cache', w) IN CurrentCheck(k, w) => ~Direct(k, l)
<1>1. ReqInv /\ [ReqNext]_reqVars => [A]_reqVars
  <2>0. SUFFICES ASSUME ReqInv, ReqNext, NEW u \in Doc, docs'[u] # docs[u],
                        NEW w \in Doc \cap cache'.items, CurrentCheck(EntryOf(cache', w), w),
                        NEW l \in {u} \cup (cache.items \ cache'.items)
                 PROVE  ~Direct(EntryOf(cache', w), l)
    OBVIOUS
  <2>1. PICK v \in Doc : Edit(v) \/ Close(v)
    BY <2>0, DocsKept
  <2>2. /\ cache' = Without(cache, Dependents(v))
        /\ \E r : docs' = [docs EXCEPT ![v] = r]
    BY <2>1 DEF Edit, Close
  <2>3. docs \in [Doc -> Nat]
    BY <2>0 DEF ReqInv, ReqTyped, HostTyped
  <2>4. v = u
    BY <2>0, <2>2, <2>3
  <2> QED  BY <2>0, <2>2, <2>4, DependentsGone
<1>2. EditInvalidatesUsers <=> [][A]_reqVars
  BY DEF EditInvalidatesUsers
<1> HIDE DEF A
<1> QED  BY <1>1, <1>2, ReqInvariant, PTL DEF ReqSpec

(* Only Definition and Rename send their kinds of answers.                 *)
LEMMA OwnerReplies ==
  ASSUME ReqNext, reply'.kind \in {"definition", "rename"}
  PROVE  \E at \in Positions : Definition(at) \/ Rename(at)
<1>0. NoReply.kind = "none"
  BY DEF NoReply
<1>1. CASE \E u \in Doc : Edit(u) \/ Close(u) \/ Ask(u) \/ TimerChecks(u)
  BY <1>0, <1>1 DEF Edit, Close, Ask, TimerChecks
<1>2. CASE Stub \/ ResolveCompletionItem \/ WorkspaceSymbol \/ EditChecks \/ UserWrites
  <2>1. CASE Stub
    BY <2>1 DEF Stub, NoReply
  <2>2. CASE ResolveCompletionItem
    BY <2>2 DEF ResolveCompletionItem
  <2>3. CASE WorkspaceSymbol
    <3>1. reply' = NoReply \/ \E acc : reply' = [kind |-> "workspace", uri |-> None, value |-> acc]
      BY <2>3 DEF WorkspaceSymbol
    <3> QED  BY <1>0, <3>1
  <2>4. CASE EditChecks \/ UserWrites
    BY <1>0, <2>4 DEF EditChecks, UserWrites
  <2> QED  BY <1>2, <2>1, <2>2, <2>3, <2>4
<1>3. CASE Completion
  <2>1. \/ reply' = [NoReply EXCEPT !.kind = "completion"]
        \/ \E v : reply' = [kind |-> "completion", uri |-> main.uri, value |-> v]
    BY <1>3 DEF Completion
  <2> QED  BY <2>1 DEF NoReply
<1>4. CASE \E at \in Positions : Hover(at) \/ References(at) \/ SignatureHelp(at)
                                 \/ DocumentHighlight(at)
  BY <1>4 DEF Hover, References, SignatureHelp, DocumentHighlight, Answer
<1>5. CASE \/ DocumentSymbol \/ InlayHint \/ SelectionRange \/ FoldingRange \/ SemanticTokensFull
           \/ CodeAction
  BY <1>5 DEF DocumentSymbol, InlayHint, SelectionRange, FoldingRange, SemanticTokensFull,
              ProgramWalk, CodeAction, Answer
<1>6. CASE \E g \in Goroutine : AnalyzeStep(g)
  BY <1>0, <1>6 DEF AnalyzeStep, ImportCached, ImportLoad, ImportRead, ImportChecked, ImportEdge,
                    Checked, AnalyzePut
<1> QED  BY <1>1, <1>2, <1>3, <1>4, <1>5, <1>6 DEF ReqNext, ClientMessage, Handler

(* resolveDefinitionURI: the document itself or the location of the import *)
(* that declares the symbol, and that one if the checker the text was      *)
(* built against is still cached.                                          *)
LEMMA OwnerFacts ==
  ASSUME ReqInv, main.pc = "reply", CurrentCheck(main.got, main.uri),
         NEW s \in Symbols(main.got), NEW path \in SearchOrders(main.uri), NEW f,
         f = DefinitionURI(main.uri, main.got, s, Searched(path, main.got, s))
  PROVE  /\ f \in {main.uri, s}
         /\ s \in cache.items /\ EntryOf(cache, s).id = OriginOf(main.got, s) => f = s
<1>0. CacheTyped /\ HostTyped /\ MainFits /\ GotEdges
  BY DEF ReqInv, ReqTyped, ReqFits
<1>1. Coherent(Loc, Checker, cache)
  BY <1>0 DEF CacheTyped
<1>2. ASSUME NEW l \in cache.items PROVE EntryOf(cache, l).loc = l
  <2>1. PICK x : x = [key |-> l, entry |-> EntryOf(cache, l)]
    OBVIOUS
  <2>2. x \in Contents(cache.order)
    BY <1>1, <2>1, EntryOfContents, Zenon
  <2> QED  BY <2>1, <2>2, <1>0 DEF CacheTyped
<1>3. main.got # NoChecker /\ main.got.loc = main.uri /\ Linked(main.uri, main.got.deps)
  BY <1>0, ConstantRecords DEF MainFits, GotEdges, CurrentCheck
<1>4. PICK read : read = Searched(path, main.got, s)
  OBVIOUS
<1>5. path \in Seq(Loc) /\ \A d : <<main.uri, d>> \in edges => \E i \in DOMAIN path : path[i] = d
  <2>1. PICK u : u = main.uri
    OBVIOUS
  <2>2. path \in SearchOrders(u)
    BY <2>1
  <2>3. path \in Seq(Loc) /\ \A d : <<u, d>> \in edges => \E i \in DOMAIN path : path[i] = d
    BY <1>0, <2>2, SearchOrderFacts
  <2> QED  BY <2>1, <2>3
<1>6. (\E i \in DOMAIN path : HoldsOrigin(path[i], main.got, s)) =>
        read # << >> /\ HoldsOrigin(Last(read), main.got, s)
  <2>1. PICK c : c = main.got
    OBVIOUS
  <2>2. (\E i \in DOMAIN path : HoldsOrigin(path[i], c, s)) =>
          Searched(path, c, s) # << >> /\ HoldsOrigin(Last(Searched(path, c, s)), c, s)
    BY <1>5, SearchedFacts
  <2> QED  BY <1>4, <2>1, <2>2
<1>7. f = IF read # << >> /\ HoldsOrigin(Last(read), main.got, s)
          THEN EntryOf(cache, Last(read)).loc ELSE main.uri
  BY <1>4 DEF DefinitionURI, CheckerLocationToURI
<1>8. f \in {main.uri, s}
  BY <1>7 DEF HoldsOrigin
<1>9. ASSUME s \in cache.items, EntryOf(cache, s).id = OriginOf(main.got, s) PROVE f = s
  <2>1. HoldsOrigin(s, main.got, s)
    BY <1>2, <1>9 DEF HoldsOrigin
  <2>2. s = main.uri \/ <<main.uri, s>> \in edges
    BY <1>3 DEF Symbols, Linked
  <2>3. CASE s = main.uri
    BY <2>3, <1>8
  <2>4. CASE <<main.uri, s>> \in edges
    <3>1. \E i \in DOMAIN path : HoldsOrigin(path[i], main.got, s)
      BY <2>1, <2>4, <1>5
    <3> QED  BY <3>1, <1>6, <1>7 DEF HoldsOrigin
  <2> QED  BY <2>2, <2>3, <2>4
<1> QED  BY <1>8, <1>9

(* Definition and Rename never answer with a third location, and they      *)
(* answer with the one whose checker declares the symbol (the text of its  *)
(* import) whenever the checker the current text was built against is      *)
(* still cached, whichever order the dependencies are looked through:      *)
(* OwnerLocated.                                                           *)
THEOREM OwnersLocated == ReqSpec => OwnerLocated
<1> DEFINE A == reply'.kind \in {"definition", "rename"} /\ CurrentCheck(main.got, main.uri) =>
                  \A r \in reply'.value :
                    /\ r.uri \in {main.uri, r.sym}
                    /\ r.sym \in cache.items /\ EntryOf(cache, r.sym).id = r.origin =>
                         \E y \in reply'.value : y.uri = r.sym
<1>1. ReqInv /\ [ReqNext]_reqVars => [A]_reqVars
  <2>0. SUFFICES ASSUME ReqInv, ReqNext, reply'.kind \in {"definition", "rename"},
                        CurrentCheck(main.got, main.uri), NEW r \in reply'.value
                 PROVE  /\ r.uri \in {main.uri, r.sym}
                        /\ r.sym \in cache.items /\ EntryOf(cache, r.sym).id = r.origin =>
                             \E y \in reply'.value : y.uri = r.sym
    OBVIOUS
  <2>1. PICK at \in Positions : Definition(at) \/ Rename(at)
    BY <2>0, OwnerReplies
  <2>2. main.pc = "reply"
    BY <2>1 DEF Definition, Rename, AnswerWithOwner, Answer
  <2>3. CASE Definition(at)
    <3>1. PICK s \in Symbols(main.got), path \in SearchOrders(main.uri) :
            reply'.value = {[uri |-> DefinitionURI(main.uri, main.got, s,
                                                    Searched(path, main.got, s)),
                             sym |-> s, origin |-> OriginOf(main.got, s)]}
      BY <2>0, <2>3 DEF Definition, AnswerWithOwner, Answer, Find
    <3>2. PICK f : f = DefinitionURI(main.uri, main.got, s, Searched(path, main.got, s))
      OBVIOUS
    <3>3. /\ f \in {main.uri, s}
          /\ s \in cache.items /\ EntryOf(cache, s).id = OriginOf(main.got, s) => f = s
      BY <2>0, <2>2, <3>2, OwnerFacts
    <3>4. r.uri = f /\ r.sym = s /\ r.origin = OriginOf(main.got, s)
      BY <2>0, <3>1, <3>2
    <3> QED  BY <2>0, <3>3, <3>4
  <2>4. CASE Rename(at)
    <3>1. PICK s \in Symbols(main.got), path \in SearchOrders(main.uri) :
            reply'.value = {[uri |-> g, sym |-> s, origin |-> OriginOf(main.got, s)] :
                              g \in {main.uri, DefinitionURI(main.uri, main.got, s,
                                                             Searched(path, main.got, s))}}
      BY <2>0, <2>4 DEF Rename, AnswerWithOwner, Answer, FindNear
    <3>2. PICK f : f = DefinitionURI(main.uri, main.got, s, Searched(path, main.got, s))
      OBVIOUS
    <3>3. /\ f \in {main.uri, s}
          /\ s \in cache.items /\ EntryOf(cache, s).id = OriginOf(main.got, s) => f = s
      BY <2>0, <2>2, <3>2, OwnerFacts
    <3>4. /\ r.uri \in {main.uri, f} /\ r.sym = s /\ r.origin = OriginOf(main.got, s)
      BY <2>0, <3>1, <3>2
    <3>5. \E y \in reply'.value : y.uri = f
      <4>1. PICK y : y = [uri |-> f, sym |-> s, origin |-> OriginOf(main.got, s)]
        OBVIOUS
      <4>2. y \in reply'.value
        BY <3>1, <3>2, <4>1
      <4> QED  BY <4>1, <4>2
    <3> QED  BY <3>3, <3>4, <3>5
  <2> QED  BY <2>1, <2>3, <2>4
<1>2. OwnerLocated <=> [][A]_reqVars
  BY DEF OwnerLocated
<1> HIDE DEF A
<1> QED  BY <1>1, <1>2, ReqInvariant, PTL DEF ReqSpec
=============================================================================
