------------------------- MODULE ConfigManagerProofs -------------------------
(***************************************************************************)
(* Proofs about the configuration manager, for any directories, documents  *)
(* and options, and any number of writes and requests.                     *)
(*                                                                         *)
(* CfgInv is the inductive invariant.  That things settle is turned into   *)
(* what holds while they have not: whatever is out of date has a loop or a *)
(* thread that is armed or in the steps that lead to its repair.  Fits     *)
(* says which objects a key, a loop or a thread may hold, and with it that *)
(* an object that left the states of its own file never comes back there.  *)
(***************************************************************************)
EXTENDS ConfigManager, FiniteSetTheorems, SequenceTheorems, WellFoundedInduction, TLAPS

(* The values of the variables.                                            *)
FileRecord == [state : {"none", "broken", "good"}, ver : 0 .. MaxWrites]
Object == [path : Config, ver : 0 .. MaxWrites]
LoopPc == {"idle", "reload", "apply", "client", "index"}
LoopRecord == [cfg : Config, armed : BOOLEAN, moving : BOOLEAN, pc : LoopPc, st : Nat,
               cl : Nat, ok : BOOLEAN]
MainPc == {"start", "idle", "find", "record", "load", "watch", "loadClient", "initClient",
           "reloadAll", "access", "cache"}
PromptPc == {"idle", "ask", "find", "record", "load", "watch", "created"}
DirPc == {"idle", "find", "record", "load", "watch", "reload", "client", "index", "gone",
          "drop"}
Kind == {"none", "init", "open", "client", "import", "access", "reloadAll", "created",
         "reload"}
ThreadRecord == [pc : MainPc \cup PromptPc \cup DirPc, kind : Kind, path : Path \cup {None},
                 cfg : Config \cup {None}, st : Nat, cl : Nat, armed : BOOLEAN,
                 on : BOOLEAN, ver : Nat, late : BOOLEAN, todo : SUBSET (Nat \cup Dir)]
CacheRecord == [st : Nat, ver : Nat, raced : BOOLEAN]

FilesTyped ==
  /\ writes \in 0 .. MaxWrites
  /\ disk \in [Config -> FileRecord]
MapsTyped ==
  /\ heap \in Seq(Object)
  /\ states \in [Config -> 0 .. Len(heap)] /\ clients \in [Config -> 0 .. Len(heap)]
LoopsTyped ==
  /\ loops \in Seq(LoopRecord)
  /\ watchers \in [Config -> 0 .. Len(loops)]
ThreadsTyped == threads \in [Thread -> ThreadRecord]
IndexTyped == index \in [Path -> Dir \cup {None}]
CachesTyped == caches \in [Config -> CacheRecord]
HistTyped == hist \in [unseen : SUBSET Config, late : SUBSET Path, orphans : SUBSET Nat]
RestTyped ==
  /\ initConfig \in Config \cup {None} /\ accounts \in BOOLEAN
  /\ promptShown \in BOOLEAN /\ asked \in Seq(Dir)

(* An object that a key c may lead to: one of its own file, or one that    *)
(* moved from the Custom file to the flow.json next to it.                 *)
Fits(id, c) ==
  \/ heap[id].path = c
  \/ heap[id].path = Custom /\ c = CustomDir /\ states[Custom] # id
Made(id) == id \in 1 .. Len(heap)

(* An object is at home while it is the state of its own file.             *)
Home(id) == states[heap[id].path] = id

(* A reload of it would change nothing.                                    *)
Current(id) == Readable(id) => heap[id].ver = disk[heap[id].path].ver

MapsFit ==
  \A c \in Config : /\ states[c] # 0 => Fits(states[c], c)
                    /\ clients[c] # 0 => Fits(clients[c], c)

WatchersFit == \A c \in Config : watchers[c] # 0 => loops[watchers[c]].cfg = c

(* What a loop holds between its timer and its end: the state and client   *)
(* that it took, and a client at home only if it is that state's.          *)
LoopFits(l) ==
  /\ l.st \in 0 .. Len(heap) /\ l.cl \in 0 .. Len(heap)
  /\ l.pc \in {"reload", "apply"} => l.st # 0 /\ Fits(l.st, l.cfg)
  /\ l.pc = "client" => l.cl # 0
  /\ l.pc # "idle" /\ l.cl # 0 => Fits(l.cl, l.cfg)
  /\ l.pc \in {"reload", "apply"} /\ l.cl # 0 /\ Home(l.cl) => l.cl = l.st
  /\ l.pc = "apply" /\ Home(l.st) => Current(l.st) \/ l.armed
  /\ l.pc = "client" /\ Home(l.cl) => Current(l.cl) \/ l.armed
  /\ l.moving => l.cfg = Custom

LoopsFit == \A w \in DOMAIN loops : LoopFits(loops[w])

(* What a thread needs at its pc, ...                                      *)
ResolveFits(t) ==
  /\ t.st \in 0 .. Len(heap) /\ t.cl \in 0 .. Len(heap)
  /\ t.pc \in {"find", "record"} => t.path \in Path
  /\ t.pc = "record" => t.cfg \in Dir
  /\ t.pc \in {"load", "watch", "loadClient"} => t.cfg \in Config
  /\ t.pc \in {"watch", "loadClient"} => t.st # 0 /\ Fits(t.st, t.cfg)
  /\ t.pc = "cache" => t.st # 0
  /\ t.pc = "reloadAll" => t.todo \subseteq 1 .. Len(heap)

(* ... main in the initialization, ...                                     *)
MainFits(t) ==
  /\ t.pc \in MainPc
  /\ t.kind \in {"none", "init", "open", "client", "import", "access", "reloadAll"}
  /\ t.pc = "start" => heap = << >>
  /\ t.pc = "initClient" => t.kind = "init"
  /\ t.kind = "init" => /\ t.pc \in {"load", "watch", "initClient"}
                        /\ heap # << >> /\ t.cfg = heap[1].path

(* ... the prompt, ...                                                     *)
PromptFits(t) ==
  /\ t.pc \in PromptPc
  /\ t.pc \in {"find", "record", "load", "watch", "created"} => t.kind = "created"
  /\ t.kind \in {"none", "created"}
  /\ t.pc = "ask" => t.path \in Dir
  /\ t.todo \subseteq {t.path}

(* ... and the thread of directory d, which is like a loop.                *)
DirFits(d, t) ==
  /\ t.pc \in DirPc
  /\ t.pc # "idle" \/ t.armed => t.on
  /\ t.pc # "idle" => t.kind = "reload"
  /\ t.pc = "reload" => t.st # 0 /\ Fits(t.st, d)
  /\ t.pc = "client" => t.cl # 0
  /\ t.pc # "idle" /\ t.cl # 0 => Fits(t.cl, d)
  /\ t.pc \in {"find", "record", "load", "watch"} /\ t.cl # 0 => ~Home(t.cl)
  /\ t.pc = "reload" /\ t.cl # 0 /\ Home(t.cl) => t.cl = t.st
  /\ t.pc = "client" /\ Home(t.cl) => Current(t.cl) \/ t.armed

ThreadFits(x, t) ==
  /\ ResolveFits(t)
  /\ x = "main" => MainFits(t)
  /\ x = "prompt" => PromptFits(t)
  /\ x \in Dir => DirFits(x, t)

ThreadsFit == \A x \in Thread : ThreadFits(x, threads[x])

(* Nothing moves before the initialization.                                *)
NotStarted ==
  At("main", "start") =>
    /\ loops = << >>
    /\ \A x \in Thread : x # "main" => threads[x].pc = "idle" /\ ~threads[x].armed

OneLoads == \A x, y \in Thread : At(x, "watch") /\ At(y, "watch") => x = y

-----------------------------------------------------------------------------
(* The repair of the index entries that lead to c is due.                  *)
IndexDue(c) ==
  \/ \E w \in DOMAIN loops : loops[w].cfg = c /\ (loops[w].armed \/ loops[w].pc # "idle")
  \/ c \in Dir /\ (threads[c].armed \/ threads[c].pc \notin {"idle", "drop"})

Gone(c) == c \notin hist.unseen /\ disk[c].state = "none"

IndexDone ==
  /\ \A p \in Path : index[p] # None /\ p \notin hist.late /\ Gone(index[p]) =>
                       IndexDue(index[p])
  /\ \A x \in Thread : At(x, "record") /\ ~threads[x].late /\ Gone(threads[x].cfg) =>
                         IndexDue(threads[x].cfg)

(* The repair of the state of c is due.                                    *)
StateDue(c) ==
  \E w \in DOMAIN loops :
    /\ loops[w].cfg = c
    /\ \/ loops[w].armed
       \/ loops[w].pc = "reload" /\ loops[w].st = states[c]
       \/ loops[w].pc = "apply" /\ ~loops[w].ok

StatesDone ==
  \A c \in Config :
    states[c] # 0 /\ heap[states[c]].path = c /\ states[c] \notin hist.orphans
      /\ ~(disk[c].state = "good" /\ heap[states[c]].ver = disk[c].ver) => StateDue(c)

(* The repair of the client of c is due.                                   *)
ClientDue(c) ==
  \E w \in DOMAIN loops :
    /\ loops[w].cfg = c
    /\ \/ loops[w].armed
       \/ loops[w].pc \in {"reload", "apply", "client"} /\ loops[w].cl = clients[c]
       \/ loops[w].pc = "reload" /\ loops[w].st = clients[c]
       \/ loops[w].pc = "apply" /\ ~loops[w].ok

ClientsDone ==
  \A c \in Config :
    clients[c] # 0 /\ heap[clients[c]].path = c /\ clients[c] \notin hist.orphans
      /\ disk[c].state = "good" /\ heap[clients[c]].ver # disk[c].ver => ClientDue(c)

(* The resolvers are still to be told of a new version of the state of c,  *)
(* or the state to be dropped.                                             *)
CacheDue(c) ==
  \/ \E w \in DOMAIN loops :
       loops[w].cfg = c /\ (loops[w].armed \/ loops[w].pc \in {"reload", "apply"})
  \/ c \in Dir /\ (threads[c].armed \/ threads[c].pc \in {"reload", "gone", "drop"})

CachesDone ==
  /\ \A c \in Config :
       \/ caches[c] = NoCache
       \/ /\ Made(caches[c].st) /\ heap[caches[c].st].path = c
          /\ ~caches[c].raced /\ caches[c].st = states[c]
               /\ caches[c].ver # heap[caches[c].st].ver => CacheDue(c)
  /\ LET m == threads["main"]
     IN  m.pc = "cache" /\ ~m.late /\ Home(m.st) /\ m.ver # heap[m.st].ver =>
           CacheDue(heap[m.st].path)

PromptsDone ==
  /\ threads["prompt"].pc # "idle" => promptShown
  /\ threads["prompt"].pc # "ask" => threads["prompt"].todo = {}
  /\ \A i, j \in DOMAIN asked : asked[i] = asked[j] => i = j

(* The inductive invariant: the manager and its threads, and the prompt.   *)
CoreTyped ==
  /\ FilesTyped /\ MapsTyped /\ LoopsTyped /\ ThreadsTyped /\ IndexTyped /\ CachesTyped
  /\ HistTyped
CoreFits ==
  /\ MapsFit /\ WatchersFit /\ LoopsFit /\ ThreadsFit /\ NotStarted /\ OneLoads
CoreDone == IndexDone /\ StatesDone /\ ClientsDone /\ CachesDone
CoreInv == CoreTyped /\ CoreFits /\ CoreDone
CfgInv == CoreInv /\ RestTyped /\ PromptsDone

-----------------------------------------------------------------------------
(* Facts about the constants.                                              *)
LEMMA Constants ==
  /\ Custom \in Config /\ Custom \notin Dir /\ CustomDir \in Dir /\ Dir \subseteq Config
  /\ None \notin Config /\ None \notin Path /\ Dir \subseteq Path /\ Doc \subseteq Path
  /\ "main" \in Thread /\ "prompt" \in Thread /\ Dir \subseteq Thread
  /\ "main" \notin Dir /\ "prompt" \notin Dir /\ MaxWrites \in Nat /\ MaxRequests \in Nat
  /\ \A x \in Thread : x = "main" \/ x = "prompt" \/ x \in Dir
  /\ \A x \in Config : x = Custom \/ x \in Dir
BY ConfigAssumption DEF Config, Path, Thread

(* A set of numbers that is not empty has a least one.                     *)
LEMMA LeastNumber ==
  ASSUME NEW S \in SUBSET Nat, S # {}
  PROVE  \E m \in S : \A i \in S : m <= i
<1> DEFINE less == {ss \in Nat \X Nat : ss[1] < ss[2]}
<1>1. OpToRel(<, Nat) = less
  BY Zenon DEF OpToRel
<1>2. PICK x \in S : \A y \in S : ~(<<y, x>> \in less)
  BY <1>1, NatLessThanWellFounded, WFMin
<1>3. ASSUME NEW y \in S PROVE x <= y
  <2>1. x \in Nat /\ y \in Nat
    OBVIOUS
  <2>2. y < x => <<y, x>> \in less
    BY <2>1
  <2> QED  BY <1>2, <2>1, <2>2
<1> QED  BY <1>3

(* A path is in a directory.                                               *)
LEMMA AboveFacts ==
  ASSUME NEW p \in Path
  PROVE  /\ Above(p)[1] \in Dir
         /\ DOMAIN Above(p) \subseteq Nat
         /\ \A i \in DOMAIN Above(p) : Above(p)[i] \in Dir
<1>1. CASE p \in Dir
  BY <1>1 DEF Above
<1>2. CASE p \notin Dir
  <2>1. p \in Doc
    BY <1>2 DEF Path
  <2>2. Above(p) \in Seq(Dir) /\ Above(p) # << >>
    BY <1>2, <2>1, ConfigAssumption DEF Above
  <2>3. DOMAIN Above(p) = 1 .. Len(Above(p)) /\ Len(Above(p)) \in Nat \ {0}
    BY <2>2
  <2> QED  BY <2>2, <2>3
<1> QED  BY <1>1, <1>2

(* findNearestFlowJSON finds a directory that has a flow.json.             *)
LEMMA NearestFacts ==
  ASSUME NEW p \in Path
  PROVE  /\ FindNearest(p) \in Dir \cup {None}
         /\ FindNearest(p) # None => disk[FindNearest(p)].state # "none"
<1> DEFINE found == {i \in DOMAIN Above(p) : disk[Above(p)[i]].state # "none"}
<1>1. CASE found = {}
  BY <1>1 DEF FindNearest
<1>2. CASE found # {}
  <2>1. found \in SUBSET Nat
    BY AboveFacts
  <2> DEFINE least == CHOOSE i \in found : \A j \in found : i <= j
  <2>2. \E i \in found : \A j \in found : i <= j
    BY <1>2, <2>1, LeastNumber
  <2>3. least \in found
    BY <2>2
  <2>4. FindNearest(p) = Above(p)[least]
    BY <1>2 DEF FindNearest
  <2> QED  BY <2>3, <2>4, AboveFacts
<1> QED  BY <1>1, <1>2

(* The configuration of a project.                                         *)
LEMMA ProjectFacts ==
  ASSUME NEW p \in Path, RestTyped
  PROVE  ProjectOf(p) \in Config
BY NearestFacts, AboveFacts, Constants DEF ProjectOf, RestTyped

-----------------------------------------------------------------------------
(* What a step does to the objects: their paths stay, a version changes    *)
(* only to that of a readable file, and none comes back home.              *)
HeapStep ==
  /\ Len(heap) <= Len(heap')
  /\ \A i \in 1 .. Len(heap) :
       /\ heap'[i].path = heap[i].path
       /\ heap'[i].ver = heap[i].ver \/ (Readable(i) /\ heap'[i].ver = disk[heap[i].path].ver)
       /\ states'[heap[i].path] = i => states[heap[i].path] = i

(* What a step does to threads that are not its own: an access or a lookup *)
(* may learn that it is late.                                              *)
Later(t, u) ==
  /\ u \in ThreadRecord
  /\ u.pc = t.pc /\ u.kind = t.kind /\ u.path = t.path /\ u.cfg = t.cfg /\ u.st = t.st
  /\ u.cl = t.cl /\ u.armed = t.armed /\ u.on = t.on /\ u.ver = t.ver /\ u.todo = t.todo
  /\ t.late => u.late
OthersLater(x) == \A y \in Thread \ {x} : Later(threads[y], threads'[y])

(* A step that leaves objects and states alone is such a step.             *)
LEMMA HeapStays ==
  ASSUME MapsTyped, UNCHANGED <<heap, states>>
  PROVE  HeapStep
BY DEF HeapStep, MapsTyped

(* An object that fits a key goes on to.                                   *)
LEMMA FitsStays ==
  ASSUME MapsTyped, HeapStep, NEW id \in 1 .. Len(heap), NEW c, Fits(id, c)
  PROVE  Fits(id, c)'
BY DEF Fits, HeapStep

(* An object that a reload would not change stays so while the file does.  *)
LEMMA CurrentStays ==
  ASSUME MapsTyped, HeapStep, disk' = disk, NEW id \in 1 .. Len(heap), Current(id)
  PROVE  Current(id)'
BY DEF Current, HeapStep, Readable

(* A loop record that fits goes on to.                                     *)
LEMMA LoopFitsStays ==
  ASSUME MapsTyped, MapsTyped', HeapStep, disk' = disk, NEW l, LoopFits(l)
  PROVE  LoopFits(l)'
<1>1. Len(heap) \in Nat /\ Len(heap') \in Nat /\ Len(heap) <= Len(heap')
  BY DEF MapsTyped, HeapStep
<1>2. \A id \in 1 .. Len(heap) : Home(id)' => Home(id)
  BY DEF Home, HeapStep
<1>3. \A id \in 1 .. Len(heap) : Current(id) => Current(id)'
  BY CurrentStays
<1>4. \A id \in 1 .. Len(heap) : \A c : Fits(id, c) => Fits(id, c)'
  BY FitsStays
<1> QED  BY <1>1, <1>2, <1>3, <1>4 DEF LoopFits

(* So does a thread record, also one that learns that it is late.          *)
LEMMA ThreadFitsStays ==
  ASSUME MapsTyped, MapsTyped', HeapStep, disk' = disk, NEW x \in Thread, NEW t, NEW u,
         ThreadFits(x, t), Later(t, u), t.pc = "start" => Len(heap') = Len(heap)
  PROVE  ThreadFits(x, u)'
<1>1. Len(heap) \in Nat /\ Len(heap') \in Nat /\ Len(heap) <= Len(heap')
  BY DEF MapsTyped, HeapStep
<1>2. \A id \in 1 .. Len(heap) : Home(id)' => Home(id)
  BY DEF Home, HeapStep
<1>3. \A id \in 1 .. Len(heap) : Current(id) => Current(id)'
  BY CurrentStays
<1>4. \A id \in 1 .. Len(heap) : \A c : Fits(id, c) => Fits(id, c)'
  BY FitsStays
<1>5. ResolveFits(u)'
  BY <1>1, <1>4 DEF ThreadFits, ResolveFits, Later
<1>6. ASSUME x = "main" PROVE MainFits(u)'
  <2>1. MainFits(t)
    BY <1>6 DEF ThreadFits
  <2>2. heap # << >> => heap' # << >> /\ heap'[1].path = heap[1].path
    BY <1>1 DEF HeapStep, MapsTyped
  <2>3. t.pc = "start" => heap' = << >>
    <3>1. t.pc = "start" => Len(heap) = 0
      BY <2>1 DEF MainFits
    <3>2. heap' \in Seq(Object)
      BY DEF MapsTyped, Object
    <3>3. t.pc = "start" => Len(heap') = 0
      BY <3>1
    <3> QED  BY <3>2, <3>3, EmptySeq
  <2> QED  BY <2>1, <2>2, <2>3 DEF MainFits, Later
<1>7. ASSUME x = "prompt" PROVE PromptFits(u)'
  BY <1>7 DEF ThreadFits, PromptFits, Later
<1>8. ASSUME x \in Dir PROVE DirFits(x, u)'
  BY <1>1, <1>2, <1>3, <1>4, <1>8 DEF ThreadFits, ResolveFits, DirFits, Later
<1> QED  BY <1>5, <1>6, <1>7, <1>8 DEF ThreadFits

-----------------------------------------------------------------------------
(* What a step other than a write must do for each part of the invariant   *)
(* to be kept.                                                             *)

(* The objects of the heap that a key leads to are the same or new ones.   *)
LEMMA MapsKept ==
  ASSUME MapsTyped, MapsTyped', HeapStep, MapsFit,
         \A c \in Config : states'[c] \in {0, states[c]} \/ Fits(states[c], c)',
         \A c \in Config : clients'[c] \in {0, clients[c]} \/ Fits(clients[c], c)'
  PROVE  MapsFit'
<1> SUFFICES ASSUME NEW c \in Config
             PROVE  /\ states'[c] # 0 => Fits(states[c], c)'
                    /\ clients'[c] # 0 => Fits(clients[c], c)'
  BY DEF MapsFit
<1>1. /\ states[c] # 0 => Fits(states[c], c) /\ states[c] \in 1 .. Len(heap)
      /\ clients[c] # 0 => Fits(clients[c], c) /\ clients[c] \in 1 .. Len(heap)
  BY DEF MapsFit, MapsTyped
<1>2. \A id \in 1 .. Len(heap) : Fits(id, c) => Fits(id, c)'
  BY FitsStays
<1>3. ASSUME states'[c] = states[c], states[c] # 0 PROVE Fits(states[c], c)'
  <2>1. PICK id \in 1 .. Len(heap) : id = states[c] /\ Fits(id, c)
    BY <1>1, <1>3
  <2>2. Fits(id, c)'
    BY <1>2, <2>1
  <2> QED  BY <2>1, <2>2, <1>3 DEF Fits
<1>4. ASSUME clients'[c] = clients[c], clients[c] # 0 PROVE Fits(clients[c], c)'
  <2>1. PICK id \in 1 .. Len(heap) : id = clients[c] /\ Fits(id, c)
    BY <1>1, <1>4
  <2>2. Fits(id, c)'
    BY <1>2, <2>1
  <2> QED  BY <2>1, <2>2, <1>4 DEF Fits
<1> QED  BY <1>3, <1>4

(* The threads, where thread x makes the step.                             *)
LEMMA ThreadsKept ==
  ASSUME MapsTyped, MapsTyped', HeapStep, disk' = disk, ThreadsTyped, ThreadsTyped',
         ThreadsFit, NotStarted, OneLoads,
         NEW x \in Thread, OthersLater(x), ~At("main", "start"),
         ThreadFits(x, threads[x])', threads'[x].pc # "start",
         threads'[x].pc = "watch" => Unlocked
  PROVE  ThreadsFit' /\ NotStarted' /\ OneLoads'
<1>1. \A y \in Thread \ {x} : threads'[y].pc = threads[y].pc
  BY DEF OthersLater, Later
<1>2. ASSUME NEW y \in Thread PROVE ThreadFits(y, threads[y])'
  <2>1. CASE y = x
    BY <2>1
  <2>2. CASE y # x
    <3>1. ThreadFits(y, threads[y]) /\ Later(threads[y], threads'[y])
      BY <2>2 DEF ThreadsFit, OthersLater
    <3>2. threads[y].pc = "start" => y # "main"
      BY DEF At
    <3>3. threads[y].pc # "start"
      BY <3>1, <3>2, Constants DEF ThreadFits, PromptFits, DirFits, PromptPc, DirPc
    <3>4. PICK u : u = threads'[y] /\ Later(threads[y], u)
      BY <3>1
    <3>5. ThreadFits(y, u)'
      BY <3>1, <3>3, <3>4, ThreadFitsStays
    <3> QED  BY <3>4, <3>5
  <2> QED  BY <2>1, <2>2
<1>3. ~At("main", "start")'
  BY <1>1, Constants DEF At
<1>4. OneLoads'
  BY <1>1 DEF OneLoads, At, Unlocked
<1> QED  BY <1>2, <1>3, <1>4 DEF ThreadsFit, NotStarted

(* The threads, in a step of a loop.                                       *)
LEMMA ThreadsLater ==
  ASSUME MapsTyped, MapsTyped', HeapStep, disk' = disk, ThreadsTyped, ThreadsTyped',
         ThreadsFit, NotStarted, OneLoads, ~At("main", "start"),
         \A y \in Thread : Later(threads[y], threads'[y])
  PROVE  ThreadsFit' /\ NotStarted' /\ OneLoads'
<1>1. \A y \in Thread : threads'[y].pc = threads[y].pc
  BY DEF Later
<1>2. ASSUME NEW y \in Thread PROVE ThreadFits(y, threads[y])'
  <2>1. ThreadFits(y, threads[y]) /\ Later(threads[y], threads'[y])
    BY DEF ThreadsFit
  <2>2. threads[y].pc # "start"
    BY <2>1, Constants DEF ThreadFits, PromptFits, DirFits, PromptPc, DirPc, At
  <2>3. PICK u : u = threads'[y] /\ Later(threads[y], u)
    BY <2>1
  <2>4. ThreadFits(y, u)'
    BY <2>1, <2>2, <2>3, ThreadFitsStays
  <2> QED  BY <2>3, <2>4
<1>3. ~At("main", "start")'
  BY <1>1, Constants DEF At
<1>4. OneLoads'
  BY <1>1 DEF OneLoads, At
<1> QED  BY <1>2, <1>3, <1>4 DEF ThreadsFit, NotStarted

(* Threads that do nothing are such threads.                               *)
LEMMA SameLater ==
  ASSUME ThreadsTyped, threads' = threads
  PROVE  /\ ThreadsTyped'
         /\ \A y \in Thread : Later(threads[y], threads'[y])
BY DEF Later, ThreadsTyped

(* The loops.                                                              *)
LEMMA LoopsKept ==
  ASSUME MapsTyped, MapsTyped', HeapStep, disk' = disk, LoopsTyped, LoopsTyped', LoopsFit,
         \A w \in DOMAIN loops' :
           (w \in DOMAIN loops /\ loops'[w] = loops[w]) \/ LoopFits(loops[w])'
  PROVE  LoopsFit'
<1> SUFFICES ASSUME NEW w \in DOMAIN loops' PROVE LoopFits(loops[w])'
  BY DEF LoopsFit
<1>1. ASSUME w \in DOMAIN loops, loops'[w] = loops[w] PROVE LoopFits(loops[w])'
  <2>1. PICK l : l = loops[w] /\ LoopFits(l)
    BY <1>1 DEF LoopsFit
  <2>2. LoopFits(l)'
    BY <2>1, LoopFitsStays
  <2> QED  BY <1>1, <2>1, <2>2 DEF LoopFits
<1> QED  BY <1>1

(* The index: an entry is dropped, marked late, kept, or recorded from a   *)
(* lookup that is not late; and what is due stays due until no entry and   *)
(* no lookup needs it.                                                     *)
LEMMA IndexKept ==
  ASSUME IndexTyped, IndexTyped', IndexDone,
         \A c \in Dir : Gone(c)' => Gone(c),
         \A p \in Path :
           \/ index'[p] = None \/ p \in hist'.late
           \/ index'[p] = index[p] /\ p \notin hist.late
           \/ \E x \in Thread : At(x, "record") /\ ~threads[x].late /\ threads[x].cfg = index'[p],
         \A x \in Thread : At(x, "record")' /\ ~threads'[x].late =>
           /\ threads'[x].cfg \in Dir
           /\ \/ At(x, "record") /\ ~threads[x].late /\ threads'[x].cfg = threads[x].cfg
              \/ ~Gone(threads'[x].cfg),
         \A c \in Dir : IndexDue(c) =>
           \/ IndexDue(c)'
           \/ /\ \A p \in Path : index'[p] # c
              /\ \A x \in Thread : At(x, "record")' /\ threads'[x].cfg = c => threads'[x].late
  PROVE  IndexDone'
<1>1. ASSUME NEW p \in Path, index'[p] # None, p \notin hist'.late, Gone(index[p])'
      PROVE  IndexDue(index[p])'
  <2>1. PICK c \in Dir : c = index'[p] /\ Gone(c)'
    BY <1>1 DEF IndexTyped
  <2>2. Gone(c)
    BY <2>1
  <2>3. IndexDue(c)
    BY <1>1, <2>1, <2>2 DEF IndexDone
  <2>4. IndexDue(c)'
    BY <2>1, <2>3
  <2> QED  BY <2>1, <2>4
<1>2. ASSUME NEW x \in Thread, At(x, "record")', ~threads'[x].late, Gone(threads[x].cfg)'
      PROVE  IndexDue(threads[x].cfg)'
  <2>1. PICK c \in Dir : c = threads'[x].cfg /\ Gone(c)'
    BY <1>2
  <2>2. Gone(c)
    BY <2>1
  <2>3. IndexDue(c)
    BY <1>2, <2>1, <2>2 DEF IndexDone
  <2>4. IndexDue(c)'
    BY <1>2, <2>1, <2>3
  <2> QED  BY <2>1, <2>4
<1> QED  BY <1>1, <1>2 DEF IndexDone

(* The states: one that is new is current or belongs to another file, and  *)
(* what is due stays due until the state is.                               *)
LEMMA StatesKept ==
  ASSUME FilesTyped, MapsTyped, MapsTyped', HeapStep, disk' = disk, StatesDone,
         \A id \in Nat : id \in hist.orphans => id \in hist'.orphans,
         \A c \in Config :
           \/ states'[c] = 0 \/ states'[c] = states[c] \/ heap'[states'[c]].path # c
           \/ disk[c].state = "good" /\ heap'[states'[c]].ver = disk[c].ver,
         \A c \in Config :
           states[c] # 0 /\ states'[c] = states[c] /\ heap[states[c]].path = c
               /\ StateDue(c) =>
             \/ StateDue(c)'
             \/ disk[c].state = "good" /\ heap'[states[c]].ver = disk[c].ver
  PROVE  StatesDone'
<1> SUFFICES ASSUME NEW c \in Config,
                    states'[c] # 0, heap'[states'[c]].path = c, states'[c] \notin hist'.orphans,
                    ~(disk[c].state = "good" /\ heap'[states'[c]].ver = disk[c].ver)
             PROVE  StateDue(c)'
  BY DEF StatesDone
<1>1. states'[c] = states[c] /\ states[c] \in 1 .. Len(heap)
  BY DEF MapsTyped
<1>2. /\ heap[states[c]].path = c /\ states[c] \notin hist.orphans
      /\ ~(disk[c].state = "good" /\ heap[states[c]].ver = disk[c].ver)
  BY <1>1 DEF HeapStep, Readable
<1>3. StateDue(c)
  BY <1>1, <1>2 DEF StatesDone
<1> QED  BY <1>1, <1>2, <1>3

(* The clients: the same, and one that is new may be due at once.          *)
LEMMA ClientsKept ==
  ASSUME FilesTyped, MapsTyped, MapsTyped', HeapStep, disk' = disk, ClientsDone,
         \A id \in Nat : id \in hist.orphans => id \in hist'.orphans,
         \A c \in Config :
           \/ clients'[c] = 0 \/ clients'[c] = clients[c] \/ heap'[clients'[c]].path # c
           \/ clients'[c] \in hist'.orphans \/ heap'[clients'[c]].ver = disk[c].ver
           \/ disk[c].state # "good" \/ ClientDue(c)',
         \A c \in Config :
           clients[c] # 0 /\ clients'[c] = clients[c] /\ heap[clients[c]].path = c
               /\ disk[c].state = "good" /\ ClientDue(c) =>
             ClientDue(c)' \/ heap'[clients[c]].ver = disk[c].ver
  PROVE  ClientsDone'
<1> SUFFICES ASSUME NEW c \in Config,
                    clients'[c] # 0, heap'[clients'[c]].path = c,
                    clients'[c] \notin hist'.orphans,
                    disk[c].state = "good", heap'[clients'[c]].ver # disk[c].ver
             PROVE  ClientDue(c)'
  BY DEF ClientsDone
<1>1. CASE clients'[c] = clients[c]
  <2>1. clients[c] \in 1 .. Len(heap)
    BY <1>1 DEF MapsTyped
  <2>2. /\ heap[clients[c]].path = c /\ clients[c] \notin hist.orphans
        /\ heap[clients[c]].ver # disk[c].ver
    BY <1>1, <2>1 DEF HeapStep, Readable
  <2>3. ClientDue(c)
    BY <1>1, <2>1, <2>2 DEF ClientsDone
  <2> QED  BY <1>1, <2>1, <2>2, <2>3
<1>2. CASE clients'[c] # clients[c]
  BY <1>2
<1> QED  BY <1>1, <1>2

(* The caches: an entry is dropped, kept, or the one that main was to      *)
(* cache; a new version of a state that is used is due to be told, or told *)
(* at once; and what is due stays due until the state is not used or the   *)
(* resolvers and main have been told.                                      *)
Told(c) ==
  /\ caches'[c] = NoCache
  /\ threads'["main"].pc = "cache" /\ heap'[threads'["main"].st].path = c =>
       threads'["main"].late

LEMMA CachesKept ==
  ASSUME MapsTyped, MapsTyped', HeapStep, CachesTyped, CachesDone,
         ThreadFits("main", threads["main"]), ThreadFits("main", threads["main"])',
         \A c \in Config :
           \/ caches'[c] \in {NoCache, caches[c]}
           \/ /\ At("main", "cache") /\ c = heap[threads["main"].st].path
              /\ caches'[c] = [st |-> threads["main"].st, ver |-> threads["main"].ver,
                               raced |-> threads["main"].late],
         \A id \in 1 .. Len(heap) :
           Home(id)' /\ heap'[id].ver # heap[id].ver =>
             CacheDue(heap[id].path)' \/ Told(heap[id].path),
         \A c \in Config :
           CacheDue(c) => \/ CacheDue(c)' \/ Told(c)
                          \/ \A id \in 1 .. Len(heap) : states'[c] # id,
         At("main", "cache")' /\ ~threads'["main"].late =>
           \/ /\ At("main", "cache") /\ ~threads["main"].late
              /\ threads'["main"].st = threads["main"].st
              /\ threads'["main"].ver = threads["main"].ver
           \/ threads'["main"].ver = heap'[threads'["main"].st].ver
  PROVE  CachesDone'
<1> DEFINE m == threads["main"]
<1>1. /\ m.pc = "cache" => m.st \in 1 .. Len(heap)
      /\ m'.pc = "cache" => m'.st \in 1 .. Len(heap')
  BY DEF ThreadFits, ResolveFits
<1>2. Len(heap) \in Nat /\ Len(heap') \in Nat /\ Len(heap) <= Len(heap')
  BY DEF MapsTyped, HeapStep
<1>3. ASSUME NEW c \in Config, NEW id \in 1 .. Len(heap), NEW v,
             heap[id].path = c, states'[c] = id, v # heap'[id].ver,
             states[c] = id /\ v # heap[id].ver => CacheDue(c)
      PROVE  CacheDue(c)' \/ Told(c)
  <2>1. states[c] = id /\ Home(id)'
    BY <1>3 DEF HeapStep, Home
  <2>2. CASE v # heap[id].ver
    BY <1>3, <2>1, <2>2
  <2>3. CASE v = heap[id].ver
    <3>1. heap'[id].path = c
      BY <1>3 DEF HeapStep
    <3> QED  BY <1>3, <2>1, <2>3, <3>1
  <2> QED  BY <2>2, <2>3
<1>4. ASSUME NEW c \in Config, caches'[c] # NoCache
      PROVE  /\ Made(caches[c].st)' /\ heap'[caches'[c].st].path = c
             /\ ~caches'[c].raced /\ caches'[c].st = states'[c]
                  /\ caches'[c].ver # heap'[caches'[c].st].ver => CacheDue(c)'
  <2> DEFINE id == caches'[c].st
             v == caches'[c].ver
  <2>1. CASE caches'[c] = caches[c]
    <3>1. /\ id \in 1 .. Len(heap) /\ heap[id].path = c
          /\ ~caches'[c].raced /\ states[c] = id /\ v # heap[id].ver => CacheDue(c)
      BY <1>4, <2>1 DEF CachesDone, Made
    <3>2. id \in 1 .. Len(heap') /\ heap'[id].path = c
      BY <1>2, <3>1 DEF HeapStep
    <3>3. ASSUME ~caches'[c].raced, states'[c] = id, v # heap'[id].ver
          PROVE  CacheDue(c)'
      <4> HIDE DEF id, v
      <4>1. CacheDue(c)' \/ Told(c)
        BY <1>3, <3>1, <3>3
      <4> QED  BY <1>4, <4>1 DEF Told
    <3> QED  BY <3>2, <3>3 DEF Made
  <2>2. CASE /\ At("main", "cache") /\ c = heap[m.st].path
             /\ caches'[c] = [st |-> m.st, ver |-> m.ver, raced |-> m.late]
    <3>1. id = m.st /\ v = m.ver /\ caches'[c].raced = m.late /\ m.pc = "cache"
      BY <2>2 DEF At
    <3>2. /\ id \in 1 .. Len(heap) /\ heap[id].path = c
          /\ ~caches'[c].raced /\ states[c] = id /\ v # heap[id].ver => CacheDue(c)
      BY <1>1, <2>2, <3>1 DEF CachesDone, Home
    <3>3. id \in 1 .. Len(heap') /\ heap'[id].path = c
      BY <1>2, <3>2 DEF HeapStep
    <3>4. ASSUME ~caches'[c].raced, states'[c] = id, v # heap'[id].ver
          PROVE  CacheDue(c)'
      <4> HIDE DEF id, v
      <4>1. CacheDue(c)' \/ Told(c)
        BY <1>3, <3>2, <3>4
      <4> QED  BY <1>4, <4>1 DEF Told
    <3> QED  BY <3>3, <3>4 DEF Made
  <2> QED  BY <1>4, <2>1, <2>2
<1>5. ASSUME m'.pc = "cache", ~m'.late, Home(m.st)', m'.ver # heap'[m'.st].ver
      PROVE  CacheDue(heap[m.st].path)'
  <2>1. /\ m.pc = "cache" /\ ~m.late /\ m'.st = m.st /\ m'.ver = m.ver
        /\ m.st \in 1 .. Len(heap)
    BY <1>1, <1>5 DEF At
  <2>2. PICK c \in Config : c = heap[m.st].path /\ c = heap'[m.st].path
    <3>1. heap[m.st].path \in Config
      <4>1. heap[m.st] \in Object
        BY <2>1 DEF MapsTyped
      <4> QED  BY <4>1 DEF Object
    <3> QED  BY <2>1, <3>1 DEF HeapStep
  <2>3. states[c] = m.st /\ m.ver # heap[m.st].ver => CacheDue(c)
    BY <2>1, <2>2 DEF CachesDone, Home
  <2>4. states'[c] = m.st /\ m.ver # heap'[m.st].ver
    BY <1>5, <2>1, <2>2 DEF Home
  <2>5. CacheDue(c)' \/ Told(c)
    <3> HIDE DEF m
    <3> QED  BY <1>3, <2>1, <2>2, <2>3, <2>4, ZenonT(30)
  <2>6. CacheDue(c)'
    BY <1>5, <2>1, <2>2, <2>5 DEF Told
  <2> QED  BY <2>1, <2>2, <2>6
<1> QED  BY <1>4, <1>5 DEF CachesDone

-----------------------------------------------------------------------------
(* A step in which only thread x moves, to record t, and not into the      *)
(* critical section of a load.                                             *)
ThreadMoves(x, t) ==
  /\ t \in ThreadRecord /\ ThreadFits(x, t)
  /\ ~At("main", "start") /\ t.pc \notin {"start", "watch"}
  /\ t.pc = "record" /\ ~t.late => ~Gone(t.cfg)
  /\ x \in Dir =>
       /\ threads[x].armed \/ threads[x].pc \notin {"idle", "drop"} =>
            t.armed \/ t.pc \notin {"idle", "drop"}
       /\ states[x] # 0 /\ (threads[x].armed \/ threads[x].pc \in {"reload", "gone", "drop"}) =>
            t.armed \/ t.pc \in {"reload", "gone", "drop"}
  /\ x = "main" /\ t.pc = "cache" => t.ver = heap[t.st].ver
  /\ threads' = [threads EXCEPT ![x] = t]
  /\ UNCHANGED <<fileVars, heap, states, clients, watchers, loops, index, caches, hist>>

LEMMA ThreadMovesKeep ==
  ASSUME CoreInv, NEW x \in Thread, NEW t, ThreadMoves(x, t)
  PROVE  CoreInv'
<1> USE DEF CoreInv, CoreTyped, CoreFits, CoreDone, fileVars
<1>1. /\ disk' = disk /\ writes' = writes /\ heap' = heap /\ states' = states
      /\ clients' = clients /\ watchers' = watchers /\ loops' = loops /\ index' = index
      /\ caches' = caches /\ hist' = hist
  BY DEF ThreadMoves
<1>2. FilesTyped' /\ MapsTyped' /\ LoopsTyped' /\ IndexTyped' /\ CachesTyped' /\ HistTyped'
  BY <1>1 DEF FilesTyped, MapsTyped, LoopsTyped, IndexTyped, CachesTyped, HistTyped
<1>3. /\ threads'[x] = t /\ \A y \in Thread \ {x} : threads'[y] = threads[y]
      /\ ThreadsTyped' /\ t \in ThreadRecord
  BY DEF ThreadMoves, ThreadsTyped
<1>4. HeapStep /\ OthersLater(x)
  BY <1>1, <1>3, HeapStays DEF OthersLater, Later, ThreadsTyped
<1>5. MapsFit' /\ WatchersFit' /\ LoopsFit'
  <2>1. MapsFit'
    BY <1>1 DEF MapsFit, Fits
  <2>2. WatchersFit'
    BY <1>1 DEF WatchersFit
  <2>3. LoopsFit'
    BY <1>1 DEF LoopsFit, LoopFits, Fits, Home, Current, Readable
  <2> QED  BY <2>1, <2>2, <2>3
<1>6. ThreadsFit' /\ NotStarted' /\ OneLoads'
  <2>1. ThreadFits(x, threads[x])'
    <3>1. Later(t, t)
      BY <1>3 DEF Later
    <3>2. ThreadFits(x, t)'
      BY <1>1, <1>2, <1>4, <3>1, ThreadFitsStays DEF ThreadMoves
    <3> QED  BY <1>3, <3>2
  <2>2. ~At("main", "start") /\ t.pc \notin {"start", "watch"}
    BY DEF ThreadMoves
  <2> QED  BY <1>1, <1>2, <1>3, <1>4, <2>1, <2>2, ThreadsKept
<1>7. IndexDone'
  <2>1. \A c \in Dir : Gone(c)' => Gone(c)
    BY <1>1 DEF Gone
  <2>2. ASSUME NEW p \in Path
        PROVE  \/ index'[p] = None \/ p \in hist'.late
               \/ index'[p] = index[p] /\ p \notin hist.late
    BY <1>1
  <2>3. ASSUME NEW y \in Thread, At(y, "record")', ~threads'[y].late
        PROVE  /\ threads'[y].cfg \in Dir
               /\ \/ At(y, "record") /\ ~threads[y].late /\ threads'[y].cfg = threads[y].cfg
                  \/ ~Gone(threads'[y].cfg)
    <3>1. ResolveFits(threads[y])'
      BY <1>6 DEF ThreadsFit, ThreadFits
    <3>2. threads'[y].cfg \in Dir
      BY <2>3, <3>1 DEF ResolveFits, At
    <3>3. CASE y = x
      BY <1>3, <2>3, <3>2, <3>3 DEF ThreadMoves, At
    <3>4. CASE y # x
      BY <1>3, <2>3, <3>2, <3>4 DEF At
    <3> QED  BY <3>3, <3>4
  <2>4. ASSUME NEW c \in Dir, IndexDue(c) PROVE IndexDue(c)'
    BY <1>1, <1>3, <2>4, Constants DEF IndexDue, ThreadMoves
  <2> QED  BY <1>2, <2>1, <2>2, <2>3, <2>4, IndexKept
<1>8. StatesDone'
  BY <1>1 DEF StatesDone, StateDue
<1>9. ClientsDone'
  BY <1>1 DEF ClientsDone, ClientDue
<1>10. CachesDone'
  <2>1. "main" \in Thread /\ ThreadFits("main", threads["main"])
        /\ ThreadFits("main", threads["main"])'
    BY <1>6, Constants DEF ThreadsFit
  <2>2. \A c \in Config : caches'[c] \in {NoCache, caches[c]}
    BY <1>1
  <2>3. \A id \in 1 .. Len(heap) : ~(heap'[id].ver # heap[id].ver)
    BY <1>1
  <2>4. ASSUME NEW c \in Config, CacheDue(c)
        PROVE  CacheDue(c)' \/ \A id \in 1 .. Len(heap) : states'[c] # id
    <3>1. CASE states[c] = 0
      BY <1>1, <3>1
    <3>2. CASE states[c] # 0
      BY <1>1, <1>3, <2>4, <3>2, Constants DEF CacheDue, ThreadMoves
    <3> QED  BY <3>1, <3>2
  <2>5. At("main", "cache")' /\ ~threads'["main"].late =>
           \/ /\ At("main", "cache") /\ ~threads["main"].late
              /\ threads'["main"].st = threads["main"].st
              /\ threads'["main"].ver = threads["main"].ver
           \/ threads'["main"].ver = heap'[threads'["main"].st].ver
    <3>1. CASE x = "main"
      BY <1>1, <1>3, <3>1 DEF At, ThreadMoves
    <3>2. CASE x # "main"
      BY <1>3, <2>1, <3>2 DEF At
    <3> QED  BY <3>1, <3>2
  <2> QED  BY <1>2, <1>4, <2>1, <2>2, <2>3, <2>4, <2>5, CachesKept
<1> QED  BY <1>2, <1>3, <1>5, <1>6, <1>7, <1>8, <1>9, <1>10

(* Where a thread goes on: an idle one has forgotten its locals.           *)
LEMMA GoToFacts ==
  ASSUME NEW t \in ThreadRecord, NEW to \in MainPc \cup PromptPc \cup DirPc
  PROVE  /\ GoTo(t, to) \in ThreadRecord
         /\ GoTo(t, to).pc = to
         /\ GoTo(t, to).on = t.on /\ GoTo(t, to).armed = t.armed
         /\ to = "idle" => /\ GoTo(t, to).kind = "none" /\ GoTo(t, to).st = 0
                           /\ GoTo(t, to).cl = 0 /\ GoTo(t, to).todo = {}
         /\ to # "idle" => /\ GoTo(t, to).kind = t.kind /\ GoTo(t, to).path = t.path
                           /\ GoTo(t, to).cfg = t.cfg /\ GoTo(t, to).st = t.st
                           /\ GoTo(t, to).cl = t.cl /\ GoTo(t, to).todo = t.todo
                           /\ GoTo(t, to).ver = t.ver /\ GoTo(t, to).late = t.late
<1>1. CASE to = "idle"
  BY <1>1, ZenonT(30) DEF GoTo, IdleThread, ThreadRecord, Kind
<1>2. CASE to # "idle"
  BY <1>2 DEF GoTo, ThreadRecord
<1> QED  BY <1>1, <1>2

(* A thread record and what it is made of.                                 *)
LEMMA ThreadFields ==
  ASSUME NEW t \in ThreadRecord
  PROVE  /\ t.pc \in MainPc \cup PromptPc \cup DirPc /\ t.kind \in Kind
         /\ t.path \in Path \cup {None} /\ t.cfg \in Config \cup {None}
         /\ t.st \in Nat /\ t.cl \in Nat /\ t.ver \in Nat
         /\ t.armed \in BOOLEAN /\ t.on \in BOOLEAN /\ t.late \in BOOLEAN
         /\ t.todo \in SUBSET (Nat \cup Dir)
BY DEF ThreadRecord

(* Where resolveStateForPath and resolveClientForPath end.                 *)
LEMMA AfterFacts ==
  ASSUME ThreadsTyped, ThreadsFit, NEW x \in Thread,
         threads[x].pc \in {"find", "load", "watch", "loadClient"}
  PROVE  /\ x = "main" => /\ After(x) \in {"access", "initClient", "idle"}
                          /\ After(x) = "initClient" => threads[x].kind = "init"
                          /\ threads[x].kind = "init" => After(x) = "initClient"
         /\ x = "prompt" => After(x) = "created" /\ threads[x].kind = "created"
         /\ x \in Dir => After(x) = IF threads[x].cl # 0 THEN "client" ELSE "index"
         /\ After(x) \in MainPc \cup PromptPc \cup DirPc
         /\ After(x) \notin {"start", "watch", "record", "cache", "find", "load", "loadClient",
                             "reloadAll", "reload"}
<1>1. ThreadFits(x, threads[x])
  BY DEF ThreadsFit
<1>2. CASE x = "main"
  <2>1. threads[x].kind \in {"none", "init", "open", "client", "import", "access", "reloadAll"}
    BY <1>1, <1>2 DEF ThreadFits, MainFits
  <2> QED  BY <1>2, <2>1, Constants DEF After, MainPc
<1>3. CASE x = "prompt"
  <2>1. threads[x].kind = "created"
    BY <1>1, <1>3 DEF ThreadFits, PromptFits, PromptPc
  <2> QED  BY <1>3, <2>1, Constants DEF After, PromptPc
<1>4. CASE x \in Dir
  <2>1. threads[x].kind = "reload"
    BY <1>1, <1>4 DEF ThreadFits, DirFits
  <2> QED  BY <1>4, <2>1, Constants DEF After, DirPc
<1> QED  BY <1>2, <1>3, <1>4, Constants

(* A thread that gets there, with a state or without, fits.                *)
LEMMA AfterFits ==
  ASSUME ThreadsTyped, ThreadsFit, MapsTyped, NEW x \in Thread,
         threads[x].pc \in {"find", "load", "watch", "loadClient"},
         NEW s \in ThreadRecord, s.st \in 0 .. Len(heap),
         s.kind = threads[x].kind, s.path = threads[x].path, s.cl = threads[x].cl,
         s.armed = threads[x].armed, s.on = threads[x].on, s.todo = threads[x].todo,
         s.cfg = threads[x].cfg \/ threads[x].kind # "init"
  PROVE  ThreadFits(x, GoTo(s, After(x)))
<1> DEFINE t == GoTo(s, After(x))
           o == threads[x]
<1>1. After(x) \in MainPc \cup PromptPc \cup DirPc
  BY AfterFacts
<1>2. /\ t \in ThreadRecord /\ t.pc = After(x) /\ t.on = o.on /\ t.armed = o.armed
      /\ After(x) = "idle" => t.kind = "none" /\ t.st = 0 /\ t.cl = 0 /\ t.todo = {}
      /\ After(x) # "idle" => /\ t.kind = o.kind /\ t.path = o.path /\ t.cfg = s.cfg
                              /\ t.st = s.st /\ t.cl = o.cl /\ t.todo = o.todo
  BY <1>1, GoToFacts
<1> HIDE DEF t
<1>3. ThreadFits(x, o) /\ Len(heap) \in Nat
  BY DEF ThreadsFit, MapsTyped
<1>4. ResolveFits(t)
  BY <1>2, <1>3, AfterFacts DEF ThreadFits, ResolveFits
<1>5. ASSUME x = "main" PROVE MainFits(t)
  BY <1>2, <1>3, <1>5, AfterFacts DEF ThreadFits, MainFits, MainPc
<1>6. ASSUME x = "prompt" PROVE PromptFits(t)
  BY <1>2, <1>3, <1>6, AfterFacts DEF ThreadFits, PromptFits, PromptPc
<1>7. ASSUME x \in Dir PROVE DirFits(x, t)
  BY <1>2, <1>3, <1>7, AfterFacts DEF ThreadFits, DirFits, DirPc
<1> QED  BY <1>4, <1>5, <1>6, <1>7 DEF ThreadFits, t

(* A thread that resolves is past the initialization.                      *)
LEMMA ResolveStarted ==
  ASSUME NotStarted, NEW x \in Thread, threads[x].pc \notin {"start", "idle"}
  PROVE  ~At("main", "start")
BY DEF NotStarted, At

(* lookupOrFindConfig.                                                     *)
LEMMA FindKeeps ==
  ASSUME CoreInv, NEW x \in Thread, Find(x)
  PROVE  /\ CoreInv'
         /\ x = "prompt" => /\ threads'[x].pc \notin {"idle", "ask"}
                            /\ threads'[x].todo = threads[x].todo
         /\ \A y \in Thread \ {x} : threads'[y] = threads[y]
<1> DEFINE o == threads[x]
           p == o.path
           c == IF index[p] # None THEN index[p] ELSE FindNearest(p)
           to == IF index[p] # None THEN "load" ELSE IF c # None THEN "record" ELSE After(x)
           s == [o EXCEPT !.cfg = c, !.late = FALSE, !.st = 0]
           t == GoTo(s, to)
<1>1. /\ ThreadsTyped /\ ThreadsFit /\ MapsTyped /\ IndexTyped /\ NotStarted
      /\ o \in ThreadRecord /\ ThreadFits(x, o) /\ o.pc = "find"
  BY DEF CoreInv, CoreTyped, CoreFits, ThreadsTyped, ThreadsFit, Find, At
<1>2. p \in Path
  BY <1>1 DEF ThreadFits, ResolveFits
<1>3. /\ c \in Dir \cup {None}
      /\ index[p] # None => c = index[p] /\ c \in Dir
      /\ index[p] = None /\ c # None => disk[c].state # "none"
  BY <1>1, <1>2, NearestFacts DEF IndexTyped
<1>4. threads' = [threads EXCEPT ![x] = t]
  BY DEF Find
<1>5. UNCHANGED <<fileVars, heap, states, clients, watchers, loops, index, caches, hist>>
  BY DEF Find, mapVars
<1> HIDE DEF c
<1>6. /\ s \in ThreadRecord /\ s.cfg = c /\ ~s.late /\ s.st = 0 /\ s.kind = o.kind
      /\ s.path = o.path /\ s.cl = o.cl /\ s.armed = o.armed /\ s.on = o.on
      /\ s.todo = o.todo
  BY <1>1, <1>3, Constants DEF ThreadRecord
<1>7. to \in {"load", "record", After(x)} /\ to \in MainPc \cup PromptPc \cup DirPc
  BY <1>1, AfterFacts DEF MainPc
<1>8. /\ t \in ThreadRecord /\ t.pc = to /\ t.on = o.on /\ t.armed = o.armed
      /\ to # "idle" => /\ t.kind = o.kind /\ t.path = o.path /\ t.cfg = c /\ t.st = 0
                        /\ t.cl = o.cl /\ t.todo = o.todo /\ ~t.late
  <2> HIDE DEF s, to
  <2> QED  BY <1>6, <1>7, GoToFacts
<1>9. ThreadFits(x, t)
  <2>1. CASE to = After(x)
    <3>1. o.kind # "init"
      BY <1>1, AfterFacts, Constants DEF ThreadFits, MainFits, PromptFits, DirFits
    <3>2. s.st \in 0 .. Len(heap)
      BY <1>1, <1>6 DEF MapsTyped
    <3>3. ThreadFits(x, GoTo(s, After(x)))
      <4> HIDE DEF s, t, to
      <4> QED  BY <1>1, <1>6, <3>1, <3>2, AfterFits
    <3> QED  BY <2>1, <3>3
  <2>2. CASE to # After(x)
    <3>1. /\ to \in {"load", "record"} /\ c \in Dir
      BY <1>3, <2>2
    <3>2. Len(heap) \in Nat
      BY <1>1 DEF MapsTyped
    <3> HIDE DEF s, t, to
    <3>3. ResolveFits(t)
      BY <1>1, <1>2, <1>8, <3>1, <3>2, Constants DEF ThreadFits, ResolveFits
    <3>4. x = "main" => MainFits(t)
      BY <1>1, <1>8, <3>1 DEF ThreadFits, MainFits, MainPc
    <3>5. x = "prompt" => PromptFits(t)
      BY <1>1, <1>8, <3>1 DEF ThreadFits, PromptFits, PromptPc
    <3>6. x \in Dir => DirFits(x, t)
      BY <1>1, <1>8, <3>1 DEF ThreadFits, DirFits, DirPc
    <3> QED  BY <3>3, <3>4, <3>5, <3>6 DEF ThreadFits
  <2> QED  BY <2>1, <2>2
<1>10. ThreadMoves(x, t)
  <2>1. ~At("main", "start")
    BY <1>1, ResolveStarted
  <2>2. t.pc \notin {"start", "watch", "cache"}
    BY <1>1, <1>7, <1>8, AfterFacts
  <2>3. t.pc = "record" => ~Gone(t.cfg)
    BY <1>1, <1>3, <1>8, AfterFacts DEF Gone
  <2>4. x \in Dir => t.pc \notin {"idle", "drop"}
    BY <1>1, <1>7, <1>8, AfterFacts
  <2> HIDE DEF t
  <2> QED  BY <1>1, <1>4, <1>5, <1>8, <1>9, <2>1, <2>2, <2>3, <2>4 DEF ThreadMoves
<1>11. CoreInv'
  <2> HIDE DEF t
  <2> QED  BY <1>10, ThreadMovesKeep
<1>12. threads'[x] = t /\ \A y \in Thread \ {x} : threads'[y] = threads[y]
  BY <1>1, <1>4 DEF ThreadsTyped
<1>13. x = "prompt" => t.pc \notin {"idle", "ask"} /\ t.todo = o.todo
  BY <1>1, <1>7, <1>8, AfterFacts
<1> QED  BY <1>11, <1>12, <1>13

(* loadState where there is a client or a state, or none can be loaded.    *)
LEMMA LoadFinds ==
  ASSUME CoreInv, NEW x \in Thread, threads[x].pc = "load",
         NEW id \in 0 .. Len(heap), NEW s, s = [threads[x] EXCEPT !.st = id],
         NEW to, threads' = [threads EXCEPT ![x] = GoTo(s, to)],
         \/ to = After(x)
         \/ /\ to = "loadClient" /\ threads[x].kind = "client"
            /\ id # 0 /\ id = states[threads[x].cfg],
         UNCHANGED <<fileVars, heap, states, clients, watchers, loops, index, caches, hist>>
  PROVE  /\ CoreInv'
         /\ x = "prompt" => /\ threads'[x].pc \notin {"idle", "ask"}
                            /\ threads'[x].todo = threads[x].todo
         /\ \A y \in Thread \ {x} : threads'[y] = threads[y]
<1> DEFINE o == threads[x]
           t == GoTo(s, to)
<1>1. /\ ThreadsTyped /\ ThreadsFit /\ MapsTyped /\ NotStarted /\ MapsFit
      /\ o \in ThreadRecord /\ ThreadFits(x, o) /\ o.pc = "load" /\ Len(heap) \in Nat
  BY DEF CoreInv, CoreTyped, CoreFits, ThreadsTyped, ThreadsFit, MapsTyped
<1>2. /\ s \in ThreadRecord /\ s.st = id /\ s.cfg = o.cfg /\ s.kind = o.kind
      /\ s.path = o.path /\ s.cl = o.cl /\ s.armed = o.armed /\ s.on = o.on
      /\ s.todo = o.todo /\ s.ver = o.ver /\ s.late = o.late
  <2>1. id \in Nat
    BY <1>1
  <2> QED  BY <1>1, <2>1 DEF ThreadRecord
<1>3. to \in MainPc \cup PromptPc \cup DirPc
  BY <1>1, AfterFacts DEF MainPc
<1>4. /\ t \in ThreadRecord /\ t.pc = to /\ t.on = o.on /\ t.armed = o.armed
      /\ to # "idle" => /\ t.kind = o.kind /\ t.path = o.path /\ t.cfg = o.cfg /\ t.st = id
                        /\ t.cl = o.cl /\ t.todo = o.todo
  BY ONLY <1>2, <1>3, GoToFacts
<1> HIDE DEF t
<1>5. ThreadFits(x, t)
  <2>1. CASE to = After(x)
    BY <1>1, <1>2, <2>1, AfterFits DEF t
  <2>2. CASE to # After(x)
    <3>1. to = "loadClient" /\ o.kind = "client" /\ id # 0 /\ id = states[o.cfg]
      BY <2>2
    <3>2. x = "main"
      BY <1>1, <3>1, Constants DEF ThreadFits, PromptFits, DirFits
    <3>3. o.cfg \in Config
      BY <1>1 DEF ThreadFits, ResolveFits
    <3>4. Fits(id, o.cfg)
      BY <1>1, <3>1, <3>3 DEF MapsFit
    <3>5. ResolveFits(t)
      BY <1>1, <1>4, <3>1, <3>3, <3>4 DEF ThreadFits, ResolveFits
    <3>6. MainFits(t)
      BY <1>1, <1>4, <3>1, <3>2 DEF ThreadFits, MainFits, MainPc
    <3> QED  BY <3>2, <3>5, <3>6, Constants DEF ThreadFits
  <2> QED  BY <2>1, <2>2
<1>6. ThreadMoves(x, t)
  <2>1. ~At("main", "start")
    BY <1>1, ResolveStarted
  <2>2. t.pc \notin {"start", "watch", "cache", "record"}
    BY <1>1, <1>4, AfterFacts
  <2>3. x \in Dir => t.pc \notin {"idle", "drop"}
    BY <1>1, <1>4, AfterFacts
  <2>4. threads' = [threads EXCEPT ![x] = t]
    BY DEF t
  <2> QED  BY <1>1, <1>4, <1>5, <2>1, <2>2, <2>3, <2>4 DEF ThreadMoves
<1>7. CoreInv'
  BY <1>6, ThreadMovesKeep
<1>8. threads'[x] = t /\ \A y \in Thread \ {x} : threads'[y] = threads[y]
  BY <1>1 DEF ThreadsTyped, t
<1>9. x = "prompt" => t.pc \notin {"idle", "ask"} /\ t.todo = o.todo
  <2>1. x = "prompt" => o.kind = "created"
    BY <1>1, AfterFacts
  <2> QED  BY <1>1, <1>4, <2>1, AfterFacts
<1> QED  BY <1>7, <1>8, <1>9

(* loadState where the file is loaded into a new state.                    *)
LEMMA LoadMakes ==
  ASSUME CoreInv, NEW x \in Thread, threads[x].pc = "load", Unlocked,
         NEW c, c = threads[x].cfg, states[c] = 0, disk[c].state = "good",
         heap' = Append(heap, [path |-> c, ver |-> disk[c].ver]),
         states' = [states EXCEPT ![c] = Len(heap) + 1],
         NEW t, t = [threads[x] EXCEPT !.pc = "watch", !.st = Len(heap) + 1],
         threads' = [threads EXCEPT ![x] = t],
         hist' = IF heap' # heap THEN [hist EXCEPT !.unseen = @ \ {c}] ELSE hist,
         UNCHANGED <<fileVars, clients, watchers, loops, index, caches>>
  PROVE  /\ CoreInv'
         /\ x = "prompt" => /\ threads'[x].pc \notin {"idle", "ask"}
                            /\ threads'[x].todo = threads[x].todo
         /\ \A y \in Thread \ {x} : threads'[y] = threads[y]
<1> DEFINE o == threads[x]
           n == Len(heap) + 1
<1>1. /\ FilesTyped /\ MapsTyped /\ LoopsTyped /\ ThreadsTyped /\ IndexTyped /\ CachesTyped
      /\ HistTyped /\ MapsFit /\ WatchersFit /\ LoopsFit /\ ThreadsFit /\ NotStarted
      /\ OneLoads /\ IndexDone /\ StatesDone /\ ClientsDone /\ CachesDone
      /\ o \in ThreadRecord /\ ThreadFits(x, o)
  BY DEF CoreInv, CoreTyped, CoreFits, CoreDone, ThreadsTyped, ThreadsFit
<1>2. c \in Config
  BY <1>1 DEF ThreadFits, ResolveFits
<1>3. /\ disk' = disk /\ writes' = writes /\ clients' = clients /\ watchers' = watchers
      /\ loops' = loops /\ index' = index /\ caches' = caches
  BY DEF fileVars
<1>4. FilesTyped' /\ LoopsTyped' /\ IndexTyped' /\ CachesTyped'
  BY <1>1, <1>3 DEF FilesTyped, LoopsTyped, IndexTyped, CachesTyped
<1>5. /\ [path |-> c, ver |-> disk[c].ver] \in Object
      /\ heap \in Seq(Object)
  <2>1. disk[c].ver \in 0 .. MaxWrites
    BY <1>1, <1>2 DEF FilesTyped, FileRecord
  <2> QED  BY <1>1, <1>2, <2>1 DEF Object, MapsTyped
<1>6. /\ heap' \in Seq(Object) /\ Len(heap') = n /\ Len(heap) \in Nat
      /\ \A i \in 1 .. Len(heap) : heap'[i] = heap[i]
      /\ heap'[n] = [path |-> c, ver |-> disk[c].ver]
  BY <1>5
<1>7. states'[c] = n /\ \A e \in Config \ {c} : states'[e] = states[e]
  BY <1>1, <1>2 DEF MapsTyped
<1>8. MapsTyped'
  <2>1. \A e \in Config : states[e] \in 0 .. Len(heap) /\ clients[e] \in 0 .. Len(heap)
    BY <1>1 DEF MapsTyped
  <2>2. \A i \in 0 .. Len(heap) : i \in 0 .. Len(heap')
    BY <1>6
  <2>3. \A e \in Config : states'[e] \in 0 .. Len(heap') /\ clients'[e] \in 0 .. Len(heap')
    BY <1>3, <1>6, <1>7, <2>1, <2>2
  <2>4. DOMAIN states' = Config /\ DOMAIN clients' = Config
        /\ states' = [e \in Config |-> states'[e]] /\ clients' = [e \in Config |-> clients'[e]]
    BY <1>1, <1>3 DEF MapsTyped
  <2> QED  BY <1>6, <2>3, <2>4 DEF MapsTyped
<1>9. HeapStep
  <2>1. \A e \in Config : states[e] \in 0 .. Len(heap)
    BY <1>1 DEF MapsTyped
  <2>2. \A i \in 1 .. Len(heap) : heap[i].path \in Config
    <3>1. \A i \in 1 .. Len(heap) : heap[i] \in Object
      BY <1>5
    <3> QED  BY <3>1 DEF Object
  <2> QED  BY <1>6, <1>7, <2>1, <2>2 DEF HeapStep
<1>10. /\ t \in ThreadRecord /\ t.pc = "watch" /\ t.st = n /\ t.kind = o.kind
       /\ t.path = o.path /\ t.cfg = c /\ t.cl = o.cl /\ t.armed = o.armed /\ t.on = o.on
       /\ t.todo = o.todo
  <2>1. n \in Nat /\ "watch" \in MainPc
    BY <1>6 DEF MainPc
  <2> HIDE DEF n
  <2>2. t = [o EXCEPT !.pc = "watch", !.st = n]
    BY DEF n
  <2> QED  BY ONLY <1>1, <2>1, <2>2, c = o.cfg DEF ThreadRecord
<1>11. /\ threads'[x] = t /\ \A y \in Thread \ {x} : threads'[y] = threads[y]
       /\ ThreadsTyped' /\ OthersLater(x)
  BY <1>1, <1>10 DEF ThreadsTyped, OthersLater, Later
<1>12. /\ HistTyped' /\ hist'.late = hist.late /\ hist'.orphans = hist.orphans
       /\ hist'.unseen \in {hist.unseen, hist.unseen \ {c}}
  BY <1>1 DEF HistTyped
<1>13. MapsFit'
  <2>1. Fits(states[c], c)'
    BY <1>6, <1>7 DEF Fits
  <2>2. \A e \in Config : states'[e] \in {0, states[e]} \/ Fits(states[e], e)'
    BY <1>7, <2>1
  <2>3. \A e \in Config : clients'[e] \in {0, clients[e]}
    BY <1>3
  <2> QED  BY <1>1, <1>8, <1>9, <2>2, <2>3, MapsKept
<1>14. WatchersFit' /\ LoopsFit'
  <2>1. WatchersFit'
    BY <1>1, <1>3 DEF WatchersFit
  <2>2. LoopsFit'
    BY <1>1, <1>3, <1>4, <1>8, <1>9, LoopsKept
  <2> QED  BY <2>1, <2>2
<1>15. ThreadFits(x, threads[x])'
  <2>1. \A id \in 1 .. Len(heap) : Home(id)' => Home(id)
    BY <1>9 DEF Home, HeapStep
  <2>2. \A id \in 1 .. Len(heap) : Fits(id, x) => Fits(id, x)'
    BY <1>1, <1>9, FitsStays
  <2>3. ResolveFits(t)'
    <3>1. o.st \in 0 .. Len(heap) /\ o.cl \in 0 .. Len(heap)
      BY <1>1 DEF ThreadFits, ResolveFits
    <3>2. Fits(t.st, t.cfg)'
      BY <1>6, <1>10 DEF Fits
    <3> QED  BY <1>2, <1>6, <1>10, <3>1, <3>2 DEF ResolveFits
  <2>4. x = "main" => MainFits(t)'
    <3>1. heap # << >> => heap' # << >> /\ heap'[1].path = heap[1].path
      BY <1>5, <1>6
    <3> QED  BY <1>1, <1>10, <3>1 DEF ThreadFits, MainFits, MainPc
  <2>5. x = "prompt" => PromptFits(t)'
    BY <1>1, <1>10 DEF ThreadFits, PromptFits, PromptPc
  <2>6. x \in Dir => DirFits(x, t)'
    <3>1. o.cl # 0 => o.cl \in 1 .. Len(heap)
      BY <1>1, <1>6 DEF ThreadFits, ResolveFits
    <3> QED  BY <1>1, <1>10, <2>1, <2>2, <3>1 DEF ThreadFits, DirFits, DirPc
  <2>7. ThreadFits(x, t)'
    BY <2>3, <2>4, <2>5, <2>6 DEF ThreadFits
  <2> QED  BY <1>11, <2>7
<1>16. ThreadsFit' /\ NotStarted' /\ OneLoads'
  <2>1. ~At("main", "start")
    BY <1>1, ResolveStarted
  <2> QED  BY <1>1, <1>3, <1>8, <1>9, <1>10, <1>11, <1>15, <2>1, ThreadsKept
<1>17. IndexDone'
  <2>1. \A e \in Dir : Gone(e)' => Gone(e)
    BY <1>3, <1>12 DEF Gone
  <2>2. \A p \in Path : \/ index'[p] = None \/ p \in hist'.late
                        \/ index'[p] = index[p] /\ p \notin hist.late
    BY <1>3, <1>12
  <2>3. ASSUME NEW y \in Thread, At(y, "record")', ~threads'[y].late
        PROVE  /\ threads'[y].cfg \in Dir
               /\ At(y, "record") /\ ~threads[y].late /\ threads'[y].cfg = threads[y].cfg
    <3>1. ResolveFits(threads[y])'
      BY <1>16 DEF ThreadsFit, ThreadFits
    <3> QED  BY <1>10, <1>11, <2>3, <3>1 DEF ResolveFits, At
  <2>4. ASSUME NEW e \in Dir, IndexDue(e) PROVE IndexDue(e)'
    BY <1>3, <1>10, <1>11, <2>4, Constants DEF IndexDue
  <2> QED  BY <1>1, <1>4, <2>1, <2>2, <2>3, <2>4, IndexKept
<1>18. StatesDone'
  <2>1. \A e \in Config : StateDue(e) /\ states'[e] = states[e] => StateDue(e)'
    BY <1>3 DEF StateDue
  <2>2. \A e \in Config : \/ states'[e] = states[e]
                          \/ disk[e].state = "good" /\ heap'[states'[e]].ver = disk[e].ver
    BY <1>6, <1>7
  <2> QED  BY <1>1, <1>3, <1>8, <1>9, <1>12, <2>1, <2>2, StatesKept
<1>19. ClientsDone'
  <2>1. \A e \in Config : ClientDue(e) => ClientDue(e)'
    BY <1>3 DEF ClientDue
  <2> QED  BY <1>1, <1>3, <1>8, <1>9, <1>12, <2>1, ClientsKept
<1>20. CachesDone'
  <2>1. "main" \in Thread /\ ThreadFits("main", threads["main"])
        /\ ThreadFits("main", threads["main"])'
    BY <1>1, <1>16, Constants DEF ThreadsFit
  <2>2. \A e \in Config : caches'[e] \in {NoCache, caches[e]}
    BY <1>3
  <2>3. \A id \in 1 .. Len(heap) : ~(heap'[id].ver # heap[id].ver)
    BY <1>6
  <2>4. ASSUME NEW e \in Config, CacheDue(e) PROVE CacheDue(e)'
    BY <1>3, <1>10, <1>11, <2>4, Constants DEF CacheDue
  <2>5. At("main", "cache")' /\ ~threads'["main"].late =>
              /\ At("main", "cache") /\ ~threads["main"].late
              /\ threads'["main"].st = threads["main"].st
              /\ threads'["main"].ver = threads["main"].ver
    BY <1>10, <1>11, <2>1 DEF At
  <2> QED  BY <1>1, <1>8, <1>9, <2>1, <2>2, <2>3, <2>4, <2>5, CachesKept
<1> QED  BY <1>4, <1>8, <1>10, <1>11, <1>12, <1>13, <1>14, <1>16, <1>17, <1>18, <1>19, <1>20
         DEF CoreInv, CoreTyped, CoreFits, CoreDone

-----------------------------------------------------------------------------
(* The loops of before are there, and do what they did.                    *)
LoopsGrow == \A w \in DOMAIN loops : w \in DOMAIN loops' /\ loops'[w] = loops[w]

(* Where a thread of a directory moves, what it has due stays due.         *)
StillDue(x) ==
  x \in Dir =>
    /\ threads[x].armed => threads'[x].armed
    /\ threads[x].pc \notin {"idle", "drop"} => threads'[x].pc \notin {"idle", "drop"}
    /\ threads[x].pc \in {"reload", "gone", "drop"} =>
         threads'[x].pc \in {"reload", "gone", "drop"}

LEMMA DueStays ==
  ASSUME LoopsGrow, NEW x \in Thread, OthersLater(x), StillDue(x)
  PROVE  /\ \A c \in Config : IndexDue(c) => IndexDue(c)'
         /\ \A c \in Config : CacheDue(c) => CacheDue(c)'
         /\ \A c \in Config : states'[c] = states[c] /\ StateDue(c) => StateDue(c)'
         /\ \A c \in Config : clients'[c] = clients[c] /\ ClientDue(c) => ClientDue(c)'
<1>1. \A y \in Thread \ {x} : threads'[y].pc = threads[y].pc /\ threads'[y].armed = threads[y].armed
  BY DEF OthersLater, Later
<1>2. \A c \in Config : IndexDue(c) => IndexDue(c)'
  BY <1>1, Constants DEF IndexDue, LoopsGrow, StillDue
<1>3. \A c \in Config : CacheDue(c) => CacheDue(c)'
  BY <1>1, Constants DEF CacheDue, LoopsGrow, StillDue
<1>4. \A c \in Config : states'[c] = states[c] /\ StateDue(c) => StateDue(c)'
  BY DEF StateDue, LoopsGrow
<1>5. \A c \in Config : clients'[c] = clients[c] /\ ClientDue(c) => ClientDue(c)'
  BY DEF ClientDue, LoopsGrow
<1> QED  BY <1>2, <1>3, <1>4, <1>5

(* The index, where thread x moves and neither records nor finds.          *)
LEMMA IndexQuiet ==
  ASSUME IndexTyped, IndexDone, ThreadsFit', index' = index, hist'.late = hist.late,
         \A c \in Dir : Gone(c)' => Gone(c),
         NEW x \in Thread, OthersLater(x),
         threads'[x].pc # "record" \/ Later(threads[x], threads'[x]),
         \A c \in Dir : IndexDue(c) => IndexDue(c)'
  PROVE  IndexDone'
<1>1. IndexTyped'
  BY DEF IndexTyped
<1>2. \A p \in Path : \/ index'[p] = None \/ p \in hist'.late
                      \/ index'[p] = index[p] /\ p \notin hist.late
  OBVIOUS
<1>3. ASSUME NEW y \in Thread, At(y, "record")', ~threads'[y].late
      PROVE  /\ threads'[y].cfg \in Dir
             /\ At(y, "record") /\ ~threads[y].late /\ threads'[y].cfg = threads[y].cfg
  <2>1. ResolveFits(threads[y])'
    BY DEF ThreadsFit, ThreadFits
  <2>2. Later(threads[y], threads'[y])
    BY <1>3 DEF OthersLater, At
  <2> QED  BY <1>3, <2>1, <2>2 DEF ResolveFits, At, Later
<1> QED  BY <1>1, <1>2, <1>3, IndexKept

(* The caches, where thread x moves and neither builds nor caches.         *)
LEMMA CachesQuiet ==
  ASSUME MapsTyped, MapsTyped', HeapStep, CachesTyped, CachesDone, ThreadsFit, ThreadsFit',
         caches' = caches, \A id \in 1 .. Len(heap) : heap'[id].ver = heap[id].ver,
         NEW x \in Thread, OthersLater(x),
         threads'[x].pc # "cache" \/ Later(threads[x], threads'[x]),
         \A c \in Config :
           CacheDue(c) => CacheDue(c)' \/ \A id \in 1 .. Len(heap) : states'[c] # id
  PROVE  CachesDone'
<1>1. "main" \in Thread /\ ThreadFits("main", threads["main"])
      /\ ThreadFits("main", threads["main"])'
  BY Constants DEF ThreadsFit
<1>2. \A c \in Config : caches'[c] \in {NoCache, caches[c]}
  OBVIOUS
<1>3. \A id \in 1 .. Len(heap) : ~(heap'[id].ver # heap[id].ver)
  OBVIOUS
<1>4. ASSUME At("main", "cache")', ~threads'["main"].late
      PROVE  /\ At("main", "cache") /\ ~threads["main"].late
             /\ threads'["main"].st = threads["main"].st
             /\ threads'["main"].ver = threads["main"].ver
  <2>1. Later(threads["main"], threads'["main"])
    BY <1>1, <1>4 DEF OthersLater, At
  <2> QED  BY <1>4, <2>1 DEF Later, At
<1> QED  BY <1>1, <1>2, <1>3, <1>4, CachesKept

(* The path of an object.                                                  *)
LEMMA ObjectFields ==
  ASSUME MapsTyped, NEW id \in 1 .. Len(heap)
  PROVE  heap[id] \in Object /\ heap[id].path \in Config /\ heap[id].ver \in 0 .. MaxWrites
<1>1. heap[id] \in Object
  BY DEF MapsTyped
<1> QED  BY <1>1 DEF Object

(* Its second critical section.                                            *)
LEMMA RecordKeeps ==
  ASSUME CoreInv, NEW x \in Thread, Record(x)
  PROVE  /\ CoreInv'
         /\ x = "prompt" => /\ threads'[x].pc \notin {"idle", "ask"}
                            /\ threads'[x].todo = threads[x].todo
         /\ \A y \in Thread \ {x} : threads'[y] = threads[y]
<1> DEFINE o == threads[x]
<1>0. PICK t : t = [o EXCEPT !.pc = "load"]
  OBVIOUS
<1>1. /\ FilesTyped /\ MapsTyped /\ LoopsTyped /\ ThreadsTyped /\ IndexTyped /\ CachesTyped
      /\ HistTyped /\ MapsFit /\ WatchersFit /\ LoopsFit /\ ThreadsFit /\ NotStarted
      /\ OneLoads /\ IndexDone /\ StatesDone /\ ClientsDone /\ CachesDone
      /\ o \in ThreadRecord /\ ThreadFits(x, o)
  BY DEF CoreInv, CoreTyped, CoreFits, CoreDone, ThreadsTyped, ThreadsFit
<1>2. /\ disk' = disk /\ writes' = writes /\ heap' = heap /\ states' = states
      /\ clients' = clients /\ watchers' = watchers /\ loops' = loops /\ caches' = caches
  BY DEF Record, fileVars, mapVars
<1>3. o.pc = "record" /\ o.path \in Path /\ o.cfg \in Dir
  BY <1>1 DEF Record, At, ThreadFits, ResolveFits
<1>4. /\ t \in ThreadRecord /\ t.pc = "load" /\ t.kind = o.kind
      /\ t.path = o.path /\ t.cfg = o.cfg /\ t.st = o.st /\ t.cl = o.cl
      /\ t.armed = o.armed /\ t.on = o.on /\ t.todo = o.todo
  BY <1>0, <1>1 DEF ThreadRecord, MainPc
<1>5. /\ threads' = [threads EXCEPT ![x] = t] /\ threads'[x] = t
      /\ \A y \in Thread \ {x} : threads'[y] = threads[y]
      /\ ThreadsTyped' /\ OthersLater(x)
  <2>1. threads' = [threads EXCEPT ![x] = t]
    BY <1>0 DEF Record
  <2> QED  BY <1>1, <1>4, <2>1 DEF ThreadsTyped, OthersLater, Later
<1>6. /\ IndexTyped' /\ index'[o.path] = o.cfg
      /\ \A p \in Path \ {o.path} : index'[p] = index[p]
  BY <1>1, <1>3 DEF Record, IndexTyped
<1>7. /\ HistTyped' /\ hist'.orphans = hist.orphans /\ hist'.unseen = hist.unseen
      /\ hist'.late = IF o.late THEN hist.late \cup {o.path} ELSE hist.late \ {o.path}
  BY <1>1, <1>3 DEF Record, HistTyped
<1>8. FilesTyped' /\ MapsTyped' /\ LoopsTyped' /\ CachesTyped' /\ HeapStep
  BY <1>1, <1>2, HeapStays DEF FilesTyped, MapsTyped, LoopsTyped, CachesTyped
<1>9. MapsFit' /\ WatchersFit' /\ LoopsFit'
  <2>1. MapsFit'
    BY <1>1, <1>2 DEF MapsFit, Fits
  <2>2. WatchersFit'
    BY <1>1, <1>2 DEF WatchersFit
  <2>3. LoopsFit'
    BY <1>1, <1>2, <1>8, LoopsKept
  <2> QED  BY <2>1, <2>2, <2>3
<1>10. ThreadFits(x, threads[x])'
  <2>1. ResolveFits(t)
    BY <1>1, <1>3, <1>4, Constants DEF ThreadFits, ResolveFits
  <2>2. x = "main" => MainFits(t)
    BY <1>1, <1>3, <1>4 DEF ThreadFits, MainFits, MainPc
  <2>3. x = "prompt" => PromptFits(t)
    BY <1>1, <1>3, <1>4 DEF ThreadFits, PromptFits, PromptPc
  <2>4. x \in Dir => DirFits(x, t)
    BY <1>1, <1>3, <1>4 DEF ThreadFits, DirFits, DirPc
  <2>5. ThreadFits(x, t) /\ Later(t, t)
    BY <1>4, <2>1, <2>2, <2>3, <2>4 DEF ThreadFits, Later
  <2>6. ThreadFits(x, t)'
    BY <1>1, <1>2, <1>8, <2>5, ThreadFitsStays
  <2> QED  BY <1>5, <2>6
<1>11. ThreadsFit' /\ NotStarted' /\ OneLoads'
  <2>1. ~At("main", "start")
    BY <1>1, <1>3, ResolveStarted
  <2> QED  BY <1>1, <1>2, <1>4, <1>5, <1>8, <1>10, <2>1, ThreadsKept
<1>12. LoopsGrow /\ StillDue(x)
  BY <1>2, <1>3, <1>4, <1>5 DEF LoopsGrow, StillDue
<1>13. IndexDone'
  <2>1. \A e \in Dir : Gone(e)' => Gone(e)
    BY <1>2, <1>7 DEF Gone
  <2>2. ASSUME NEW p \in Path
        PROVE  \/ index'[p] = None \/ p \in hist'.late
               \/ index'[p] = index[p] /\ p \notin hist.late
               \/ \E y \in Thread : At(y, "record") /\ ~threads[y].late
                    /\ threads[y].cfg = index'[p]
    BY <1>3, <1>6, <1>7 DEF At
  <2>3. ASSUME NEW y \in Thread, At(y, "record")', ~threads'[y].late
        PROVE  /\ threads'[y].cfg \in Dir
               /\ At(y, "record") /\ ~threads[y].late /\ threads'[y].cfg = threads[y].cfg
    <3>1. ResolveFits(threads[y])'
      BY <1>11 DEF ThreadsFit, ThreadFits
    <3> QED  BY <1>4, <1>5, <2>3, <3>1 DEF ResolveFits, At
  <2>4. \A e \in Dir : IndexDue(e) => IndexDue(e)'
    BY <1>5, <1>12, DueStays, Constants
  <2> QED  BY <1>1, <1>6, <2>1, <2>2, <2>3, <2>4, IndexKept
<1>14. StatesDone' /\ ClientsDone'
  <2>1. StatesDone'
    BY <1>1, <1>2, <1>7 DEF StatesDone, StateDue
  <2>2. ClientsDone'
    BY <1>1, <1>2, <1>7 DEF ClientsDone, ClientDue
  <2> QED  BY <2>1, <2>2
<1>15. CachesDone'
  <2>1. \A c \in Config : CacheDue(c) => CacheDue(c)'
    BY <1>5, <1>12, DueStays
  <2> QED  BY <1>1, <1>2, <1>4, <1>5, <1>8, <1>11, <2>1, CachesQuiet
<1>16. CoreInv'
  BY <1>5, <1>6, <1>7, <1>8, <1>9, <1>11, <1>13, <1>14, <1>15
     DEF CoreInv, CoreTyped, CoreFits, CoreDone
<1> QED  BY <1>4, <1>5, <1>16

(* ensureWatcherLocked: a new loop is idle, and its configuration's.       *)
LEMMA EnsureWatcherFacts ==
  ASSUME LoopsTyped, WatchersFit, NEW c \in Config, EnsureWatcher(c)
  PROVE  /\ LoopsTyped' /\ WatchersFit' /\ LoopsGrow
         /\ \A w \in DOMAIN loops' :
              (w \in DOMAIN loops /\ loops'[w] = loops[w]) \/ loops'[w] = NewLoop(c)
<1>1. CASE watchers[c] # 0
  <2>1. watchers' = watchers /\ loops' = loops
    BY <1>1 DEF EnsureWatcher
  <2>2. LoopsTyped' /\ WatchersFit'
    BY <2>1 DEF LoopsTyped, WatchersFit
  <2> QED  BY <2>1, <2>2 DEF LoopsGrow
<1>2. CASE watchers[c] = 0
  <2>1. /\ loops' = Append(loops, NewLoop(c))
        /\ watchers' = [watchers EXCEPT ![c] = Len(loops) + 1]
    BY <1>2 DEF EnsureWatcher
  <2>2. NewLoop(c) \in LoopRecord /\ NewLoop(c).cfg = c
    BY DEF NewLoop, LoopRecord, LoopPc
  <2>3. loops \in Seq(LoopRecord)
    BY DEF LoopsTyped
  <2>4. /\ loops' \in Seq(LoopRecord) /\ Len(loops') = Len(loops) + 1 /\ Len(loops) \in Nat
        /\ \A w \in 1 .. Len(loops) : loops'[w] = loops[w]
        /\ loops'[Len(loops) + 1] = NewLoop(c)
        /\ DOMAIN loops = 1 .. Len(loops) /\ DOMAIN loops' = 1 .. Len(loops')
    BY <2>1, <2>2, <2>3
  <2>5. /\ watchers'[c] = Len(loops) + 1
        /\ \A e \in Config \ {c} : watchers'[e] = watchers[e]
        /\ \A e \in Config : watchers[e] \in 0 .. Len(loops)
    BY <2>1 DEF LoopsTyped
  <2>6. LoopsTyped'
    <3>1. \A e \in Config : watchers'[e] \in 0 .. Len(loops')
      BY <2>4, <2>5
    <3>2. watchers' = [e \in Config |-> watchers'[e]]
      BY <2>1 DEF LoopsTyped
    <3> QED  BY <2>4, <3>1, <3>2 DEF LoopsTyped
  <2>7. WatchersFit'
    BY <2>2, <2>4, <2>5 DEF WatchersFit
  <2>8. \A w \in DOMAIN loops' : w \in DOMAIN loops \/ w = Len(loops) + 1
    BY <2>4
  <2> QED  BY <2>4, <2>6, <2>7, <2>8 DEF LoopsGrow
<1>3. watchers[c] # 0 \/ watchers[c] = 0
  OBVIOUS
<1> QED  BY <1>1, <1>2, <1>3

(* A new loop fits.                                                        *)
LEMMA NewLoopFits ==
  ASSUME MapsTyped, NEW c
  PROVE  LoopFits(NewLoop(c))
BY DEF MapsTyped, LoopFits, NewLoop

(* The end of loadState.                                                   *)
LEMMA WatchKeeps ==
  ASSUME CoreInv, NEW x \in Thread, Watch(x)
  PROVE  /\ CoreInv'
         /\ x = "prompt" => /\ threads'[x].pc \notin {"idle", "ask"}
                            /\ threads'[x].todo = threads[x].todo
         /\ \A y \in Thread \ {x} : threads'[y] = threads[y]
<1> DEFINE o == threads[x]
           c == o.cfg
<1>0. PICK to : to = IF o.kind = "client" THEN "loadClient" ELSE After(x)
  OBVIOUS
<1>1. /\ FilesTyped /\ MapsTyped /\ LoopsTyped /\ ThreadsTyped /\ IndexTyped /\ CachesTyped
      /\ HistTyped /\ MapsFit /\ WatchersFit /\ LoopsFit /\ ThreadsFit /\ NotStarted
      /\ OneLoads /\ IndexDone /\ StatesDone /\ ClientsDone /\ CachesDone
      /\ o \in ThreadRecord /\ ThreadFits(x, o)
  BY DEF CoreInv, CoreTyped, CoreFits, CoreDone, ThreadsTyped, ThreadsFit
<1>2. /\ disk' = disk /\ writes' = writes /\ heap' = heap /\ states' = states
      /\ clients' = clients /\ index' = index /\ caches' = caches /\ hist' = hist
  BY DEF Watch, fileVars
<1>3. o.pc = "watch" /\ c \in Config /\ o.st # 0 /\ Fits(o.st, c) /\ o.st \in 0 .. Len(heap)
  BY <1>1 DEF Watch, At, ThreadFits, ResolveFits
<1>4. to \in MainPc \cup PromptPc \cup DirPc
  BY <1>0, <1>1, <1>3, AfterFacts DEF MainPc
<1>5. PICK t : t = GoTo(o, to)
  OBVIOUS
<1>6. /\ t \in ThreadRecord /\ t.pc = to /\ t.on = o.on /\ t.armed = o.armed
      /\ to # "idle" => /\ t.kind = o.kind /\ t.path = o.path /\ t.cfg = c /\ t.st = o.st
                        /\ t.cl = o.cl /\ t.todo = o.todo
  BY ONLY <1>1, <1>4, <1>5, GoToFacts
<1>7. /\ threads' = [threads EXCEPT ![x] = t] /\ threads'[x] = t
      /\ \A y \in Thread \ {x} : threads'[y] = threads[y]
      /\ ThreadsTyped' /\ OthersLater(x)
  <2>1. threads' = [threads EXCEPT ![x] = t]
    BY <1>0, <1>5 DEF Watch
  <2> QED  BY <1>1, <1>6, <2>1 DEF ThreadsTyped, OthersLater, Later
<1>8. /\ LoopsTyped' /\ WatchersFit' /\ LoopsGrow
      /\ \A w \in DOMAIN loops' :
           (w \in DOMAIN loops /\ loops'[w] = loops[w]) \/ loops'[w] = NewLoop(c)
  <2>1. EnsureWatcher(c)
    BY DEF Watch
  <2> HIDE DEF c
  <2> QED  BY <1>1, <1>3, <2>1, EnsureWatcherFacts
<1>9. FilesTyped' /\ MapsTyped' /\ IndexTyped' /\ CachesTyped' /\ HistTyped' /\ HeapStep
  BY <1>1, <1>2, HeapStays DEF FilesTyped, MapsTyped, IndexTyped, CachesTyped, HistTyped
<1>10. MapsFit' /\ LoopsFit'
  <2>1. MapsFit'
    BY <1>1, <1>2 DEF MapsFit, Fits
  <2>2. ASSUME NEW w \in DOMAIN loops'
        PROVE  (w \in DOMAIN loops /\ loops'[w] = loops[w]) \/ LoopFits(loops[w])'
    <3>1. PICK e : e = c
      OBVIOUS
    <3>2. LoopFits(NewLoop(e))'
      BY <1>9, NewLoopFits DEF MapsTyped, LoopFits, NewLoop
    <3> QED  BY <1>8, <3>1, <3>2
  <2>3. LoopsFit'
    BY <1>1, <1>2, <1>8, <1>9, <2>2, LoopsKept
  <2> QED  BY <2>1, <2>3
<1>11. ThreadFits(x, t)
  <2>1. CASE o.kind = "client"
    <3>1. x = "main"
      BY <1>1, <2>1, Constants DEF ThreadFits, PromptFits, DirFits, Watch, At
    <3>2. to = "loadClient"
      BY <1>0, <2>1
    <3>3. ResolveFits(t)
      BY <1>1, <1>3, <1>6, <3>2 DEF ThreadFits, ResolveFits
    <3>4. MainFits(t)
      BY <1>1, <1>6, <2>1, <3>1, <3>2 DEF ThreadFits, MainFits, MainPc
    <3> QED  BY <3>1, <3>3, <3>4, Constants DEF ThreadFits
  <2>2. CASE o.kind # "client"
    <3>1. to = After(x)
      BY <1>0, <2>2
    <3> QED  BY <1>1, <1>3, <1>5, <3>1, AfterFits
  <2> QED  BY <2>1, <2>2
<1>13. x \in Dir => t.pc \in {"client", "index"}
  BY <1>0, <1>1, <1>3, <1>6, AfterFacts DEF ThreadFits, DirFits
<1>14. t.pc \notin {"start", "watch", "record", "cache"}
  BY <1>0, <1>1, <1>3, <1>6, AfterFacts
<1>15. ThreadsFit' /\ NotStarted' /\ OneLoads'
  <2>1. ~At("main", "start")
    BY <1>1, <1>3, ResolveStarted
  <2>2. Later(t, t)
    BY <1>6 DEF Later
  <2>3. ThreadFits(x, t)'
    BY <1>1, <1>2, <1>9, <1>11, <2>2, ThreadFitsStays
  <2>4. ThreadFits(x, threads[x])'
    BY <1>7, <2>3
  <2> QED  BY <1>1, <1>2, <1>14, <1>7, <1>9, <2>1, <2>4, ThreadsKept
<1>16. StillDue(x)
  BY <1>3, <1>6, <1>7, <1>13 DEF StillDue
<1>17. IndexDone'
  <2>1. \A e \in Dir : Gone(e)' => Gone(e)
    BY <1>2 DEF Gone
  <2>2. \A e \in Dir : IndexDue(e) => IndexDue(e)'
    BY <1>7, <1>8, <1>16, DueStays, Constants
  <2> QED  BY <1>1, <1>2, <1>7, <1>14, <1>15, <2>1, <2>2, IndexQuiet
<1>18. StatesDone' /\ ClientsDone'
  <2>1. \A e \in Config : (StateDue(e) => StateDue(e)') /\ (ClientDue(e) => ClientDue(e)')
    BY <1>2, <1>7, <1>8, <1>16, DueStays
  <2>2. StatesDone'
    BY <1>1, <1>2, <2>1 DEF StatesDone
  <2>3. ClientsDone'
    BY <1>1, <1>2, <2>1 DEF ClientsDone
  <2> QED  BY <2>2, <2>3
<1>19. CachesDone'
  <2>1. \A e \in Config : CacheDue(e) => CacheDue(e)'
    BY <1>7, <1>8, <1>16, DueStays
  <2> QED  BY <1>1, <1>2, <1>7, <1>9, <1>14, <1>15, <2>1, CachesQuiet
<1>20. CoreInv'
  BY <1>7, <1>8, <1>9, <1>10, <1>15, <1>17, <1>18, <1>19
     DEF CoreInv, CoreTyped, CoreFits, CoreDone
<1>21. x = "prompt" => t.pc = "created" /\ t.todo = o.todo
  <2>1. x = "prompt" => o.kind = "created"
    BY <1>1, <1>3, AfterFacts
  <2> QED  BY <1>0, <1>1, <1>3, <1>6, <2>1, AfterFacts
<1> QED  BY <1>7, <1>20, <1>21

(* loadClient.                                                             *)
LEMMA LoadClientKeeps ==
  ASSUME CoreInv, NEW x \in Thread, LoadClient(x)
  PROVE  /\ CoreInv'
         /\ x # "prompt"
         /\ \A y \in Thread \ {x} : threads'[y] = threads[y]
<1> DEFINE o == threads[x]
           c == o.cfg
<1>1. /\ FilesTyped /\ MapsTyped /\ LoopsTyped /\ ThreadsTyped /\ IndexTyped /\ CachesTyped
      /\ HistTyped /\ MapsFit /\ WatchersFit /\ LoopsFit /\ ThreadsFit /\ NotStarted
      /\ OneLoads /\ IndexDone /\ StatesDone /\ ClientsDone /\ CachesDone
      /\ o \in ThreadRecord /\ ThreadFits(x, o)
  BY DEF CoreInv, CoreTyped, CoreFits, CoreDone, ThreadsTyped, ThreadsFit
<1>2. /\ disk' = disk /\ writes' = writes /\ heap' = heap /\ states' = states
      /\ watchers' = watchers /\ loops' = loops /\ index' = index /\ caches' = caches
  BY DEF LoadClient, fileVars
<1>3. /\ o.pc = "loadClient" /\ c \in Config /\ o.st \in 1 .. Len(heap) /\ Fits(o.st, c)
      /\ Len(heap) \in Nat
  BY <1>1 DEF LoadClient, At, ThreadFits, ResolveFits, MapsTyped
<1>4. x = "main"
  BY <1>1, <1>3, Constants DEF ThreadFits, PromptFits, DirFits, PromptPc, DirPc
<1>5. PICK t : t = GoTo(o, After(x))
  OBVIOUS
<1>6. t \in ThreadRecord /\ t.pc = After(x)
  <2>1. After(x) \in MainPc \cup PromptPc \cup DirPc
    BY <1>1, <1>3, AfterFacts
  <2> QED  BY ONLY <1>1, <2>1, <1>5, GoToFacts
<1>7. /\ threads' = [threads EXCEPT ![x] = t] /\ threads'[x] = t
      /\ \A y \in Thread \ {x} : threads'[y] = threads[y]
      /\ ThreadsTyped' /\ OthersLater(x)
  <2>1. threads' = [threads EXCEPT ![x] = t]
    BY <1>5 DEF LoadClient
  <2> QED  BY <1>1, <1>6, <2>1 DEF ThreadsTyped, OthersLater, Later
<1>8. t.pc \notin {"start", "watch", "record", "cache"}
  BY <1>1, <1>3, <1>6, AfterFacts
<1>9. \/ clients' = clients /\ hist' = hist
      \/ /\ clients[c] = 0 /\ clients' = [clients EXCEPT ![c] = o.st]
         /\ hist' = IF states[c] # o.st /\ heap[o.st].ver # disk[c].ver
                    THEN [hist EXCEPT !.orphans = @ \cup {o.st}] ELSE hist
  <2>1. CASE clients[c] # 0
    BY <1>1, <1>3, <2>1 DEF LoadClient, MapsTyped
  <2>2. CASE clients[c] = 0 /\ accounts
    BY <1>1, <1>3, <2>2 DEF LoadClient, MapsTyped
  <2>3. CASE clients[c] = 0 /\ ~accounts
    BY <2>3 DEF LoadClient
  <2> QED  BY <2>1, <2>2, <2>3
<1>10. /\ FilesTyped' /\ MapsTyped' /\ LoopsTyped' /\ IndexTyped' /\ CachesTyped' /\ HistTyped'
       /\ HeapStep
  <2>1. FilesTyped' /\ LoopsTyped' /\ IndexTyped' /\ CachesTyped' /\ HeapStep
    BY <1>1, <1>2, HeapStays DEF FilesTyped, LoopsTyped, IndexTyped, CachesTyped
  <2>2. MapsTyped'
    BY <1>1, <1>2, <1>3, <1>9 DEF MapsTyped
  <2>3. HistTyped'
    BY <1>1, <1>3, <1>9 DEF HistTyped
  <2> QED  BY <2>1, <2>2, <2>3
<1>11. /\ hist'.late = hist.late /\ hist'.unseen = hist.unseen
       /\ \A id \in Nat : id \in hist.orphans => id \in hist'.orphans
  BY <1>1, <1>9 DEF HistTyped
<1>12. \A e \in Config : \/ clients'[e] = clients[e]
                         \/ /\ e = c /\ clients'[e] = o.st
                            /\ \/ states[c] = o.st \/ heap[o.st].ver = disk[c].ver
                               \/ o.st \in hist'.orphans
  <2>1. CASE clients' = clients
    BY <2>1
  <2>2. CASE /\ clients' = [clients EXCEPT ![c] = o.st]
             /\ hist' = IF states[c] # o.st /\ heap[o.st].ver # disk[c].ver
                        THEN [hist EXCEPT !.orphans = @ \cup {o.st}] ELSE hist
    BY <1>1, <1>3, <2>2 DEF MapsTyped, HistTyped
  <2> QED  BY <1>9, <2>1, <2>2
<1>13. MapsFit' /\ WatchersFit' /\ LoopsFit'
  <2>1. \A e \in Config : clients'[e] \in {0, clients[e]} \/ Fits(clients[e], e)'
    BY <1>2, <1>3, <1>12 DEF Fits
  <2>2. \A e \in Config : states'[e] \in {0, states[e]}
    BY <1>2
  <2>3. MapsFit'
    BY <1>1, <1>10, <2>1, <2>2, MapsKept
  <2>4. WatchersFit'
    BY <1>1, <1>2 DEF WatchersFit
  <2>5. LoopsFit'
    BY <1>1, <1>2, <1>10, LoopsKept
  <2> QED  BY <2>3, <2>4, <2>5
<1>14. ThreadsFit' /\ NotStarted' /\ OneLoads'
  <2>1. ~At("main", "start")
    BY <1>1, <1>3, ResolveStarted
  <2>2. ThreadFits(x, t) /\ Later(t, t)
    <3>1. Later(t, t)
      BY <1>6 DEF Later
    <3> QED  BY <1>1, <1>3, <1>5, <3>1, AfterFits
  <2>3. ThreadFits(x, t)'
    BY <1>1, <1>2, <1>8, <1>10, <2>2, ThreadFitsStays
  <2>4. ThreadFits(x, threads[x])'
    BY <1>7, <2>3
  <2> QED  BY <1>1, <1>2, <1>7, <1>8, <1>10, <2>1, <2>4, ThreadsKept
<1>15. LoopsGrow /\ StillDue(x)
  BY <1>2, <1>4, Constants DEF LoopsGrow, StillDue
<1>16. IndexDone'
  <2>1. \A e \in Dir : Gone(e)' => Gone(e)
    BY <1>2, <1>11 DEF Gone
  <2>2. \A e \in Dir : IndexDue(e) => IndexDue(e)'
    BY <1>7, <1>15, DueStays, Constants
  <2> QED  BY <1>1, <1>2, <1>7, <1>8, <1>11, <1>14, <2>1, <2>2, IndexQuiet
<1>17. StatesDone'
  <2>1. \A e \in Config : StateDue(e) => StateDue(e)'
    BY <1>2, <1>7, <1>15, DueStays
  <2> QED  BY <1>1, <1>2, <1>10, <1>11, <2>1, StatesKept
<1>18. ClientsDone'
  <2>1. \A e \in Config : clients'[e] = clients[e] /\ ClientDue(e) => ClientDue(e)'
    BY <1>7, <1>15, DueStays
  <2>2. ASSUME NEW e \in Config, clients'[e] # clients[e], heap'[clients'[e]].path = e,
               clients'[e] \notin hist'.orphans, heap'[clients'[e]].ver # disk[e].ver,
               clients'[e] # 0
        PROVE  ClientDue(e)'
    <3>1. e = c /\ clients'[c] = o.st /\ states[c] = o.st /\ heap[o.st].path = c
      BY <1>2, <1>12, <2>2
    <3>2. states[c] # 0 /\ states[c] \notin hist.orphans /\ heap[states[c]].ver # disk[c].ver
      BY <1>2, <1>3, <1>11, <2>2, <3>1
    <3>3. StateDue(c)
      BY <1>1, <1>3, <3>1, <3>2 DEF StatesDone
    <3> QED  BY <1>2, <3>1, <3>3 DEF StateDue, ClientDue
  <2> QED  BY <1>1, <1>2, <1>10, <1>11, <2>1, <2>2, ClientsKept
<1>19. CachesDone'
  <2>1. \A e \in Config : CacheDue(e) => CacheDue(e)'
    BY <1>7, <1>15, DueStays
  <2> QED  BY <1>1, <1>2, <1>7, <1>8, <1>10, <1>14, <2>1, CachesQuiet
<1>20. CoreInv'
  BY <1>7, <1>10, <1>13, <1>14, <1>16, <1>17, <1>18, <1>19
     DEF CoreInv, CoreTyped, CoreFits, CoreDone
<1> QED  BY <1>4, <1>7, <1>20

(* loadState.                                                              *)
LEMMA LoadStateKeeps ==
  ASSUME CoreInv, NEW x \in Thread, LoadState(x)
  PROVE  /\ CoreInv'
         /\ x = "prompt" => /\ threads'[x].pc \notin {"idle", "ask"}
                            /\ threads'[x].todo = threads[x].todo
         /\ \A y \in Thread \ {x} : threads'[y] = threads[y]
<1> DEFINE o == threads[x]
           c == o.cfg
           client == o.kind = "client"
<1>1. /\ ThreadsTyped /\ MapsTyped /\ ThreadFits(x, o) /\ o \in ThreadRecord
      /\ o.pc = "load" /\ Unlocked
  BY DEF CoreInv, CoreTyped, CoreFits, ThreadsTyped, ThreadsFit, LoadState, At
<1>2. UNCHANGED <<fileVars, clients, watchers, loops, index, caches>>
  BY DEF LoadState
<1>3. c \in Config /\ o.st \in 0 .. Len(heap) /\ states[c] \in 0 .. Len(heap)
      /\ 0 \in 0 .. Len(heap)
  BY <1>1 DEF ThreadFits, ResolveFits, MapsTyped
<1>4. hist' = IF heap' # heap THEN [hist EXCEPT !.unseen = @ \ {c}] ELSE hist
  BY DEF LoadState
<1>5. CASE client /\ clients[c] # 0
  <2>1. threads' = [threads EXCEPT ![x] = GoTo(o, After(x))] /\ heap' = heap /\ states' = states
    BY <1>5 DEF LoadState
  <2>2. PICK s : s = [o EXCEPT !.st = o.st]
    OBVIOUS
  <2>3. s = o
    BY <1>1, <2>2 DEF ThreadRecord
  <2>4. threads' = [threads EXCEPT ![x] = GoTo(s, After(x))]
    BY <2>1, <2>3
  <2>5. UNCHANGED <<fileVars, heap, states, clients, watchers, loops, index, caches, hist>>
    BY <1>2, <1>4, <2>1
  <2> QED  BY <1>1, <1>3, <2>2, <2>4, <2>5, LoadFinds
<1>6. CASE ~(client /\ clients[c] # 0) /\ states[c] # 0
  <2>1. PICK to : to = IF client THEN "loadClient" ELSE After(x)
    OBVIOUS
  <2>2. PICK s : s = [o EXCEPT !.st = states[c]]
    OBVIOUS
  <2>3. threads' = [threads EXCEPT ![x] = GoTo(s, to)] /\ heap' = heap /\ states' = states
    BY <1>6, <2>1, <2>2 DEF LoadState
  <2>4. UNCHANGED <<fileVars, heap, states, clients, watchers, loops, index, caches, hist>>
    BY <1>2, <1>4, <2>3
  <2>5. \/ to = After(x)
        \/ to = "loadClient" /\ o.kind = "client" /\ states[c] # 0
    BY <1>6, <2>1
  <2> QED  BY <1>1, <1>3, <2>2, <2>3, <2>4, <2>5, LoadFinds
<1>7. CASE ~(client /\ clients[c] # 0) /\ states[c] = 0 /\ disk[c].state = "good"
  <2>1. PICK t : t = [o EXCEPT !.pc = "watch", !.st = Len(heap) + 1]
    OBVIOUS
  <2>2. /\ heap' = Append(heap, [path |-> c, ver |-> disk[c].ver])
        /\ states' = [states EXCEPT ![c] = Len(heap) + 1]
        /\ threads' = [threads EXCEPT ![x] = t]
    BY <1>7, <2>1 DEF LoadState
  <2> QED  BY <1>1, <1>2, <1>4, <1>7, <2>1, <2>2, LoadMakes
<1>8. CASE ~(client /\ clients[c] # 0) /\ states[c] = 0 /\ disk[c].state # "good"
  <2>1. PICK s : s = [o EXCEPT !.st = 0]
    OBVIOUS
  <2>2. threads' = [threads EXCEPT ![x] = GoTo(s, After(x))] /\ heap' = heap /\ states' = states
    BY <1>8, <2>1 DEF LoadState
  <2>3. UNCHANGED <<fileVars, heap, states, clients, watchers, loops, index, caches, hist>>
    BY <1>2, <1>4, <2>2
  <2> QED  BY <1>1, <1>3, <2>1, <2>2, <2>3, LoadFinds
<1> QED  BY <1>5, <1>6, <1>7, <1>8

(* A thread that resolves keeps the invariant.                             *)
LEMMA ResolveKeeps ==
  ASSUME CfgInv, NEW x \in Thread, Resolve(x)
  PROVE  CfgInv'
<1>1. CoreInv /\ RestTyped /\ PromptsDone
  BY DEF CfgInv
<1>2. /\ CoreInv'
      /\ x = "prompt" => /\ threads'[x].pc \notin {"idle", "ask"}
                         /\ threads'[x].todo = threads[x].todo
      /\ \A y \in Thread \ {x} : threads'[y] = threads[y]
  BY <1>1, FindKeeps, RecordKeeps, LoadStateKeeps, WatchKeeps, LoadClientKeeps DEF Resolve
<1>3. /\ initConfig' = initConfig /\ accounts' = accounts /\ promptShown' = promptShown
      /\ asked' = asked
  BY DEF Resolve, Find, Record, LoadState, Watch, LoadClient, optionVars, promptVars
<1>4. threads[x].pc \notin {"idle", "ask"}
  BY DEF Resolve, Find, Record, LoadState, Watch, LoadClient, At
<1>5. RestTyped' /\ PromptsDone'
  <2>1. RestTyped'
    BY <1>1, <1>3 DEF RestTyped
  <2>2. PromptsDone'
    BY <1>1, <1>2, <1>3, <1>4, Constants DEF PromptsDone
  <2> QED  BY <2>1, <2>2
<1> QED  BY <1>2, <1>5 DEF CfgInv

-----------------------------------------------------------------------------
(* A loop moves to record l.                                               *)
LEMMA LoopMoves ==
  ASSUME LoopsTyped, NEW w \in DOMAIN loops, NEW l \in LoopRecord,
         loops' = [loops EXCEPT ![w] = l]
  PROVE  /\ loops' \in Seq(LoopRecord) /\ Len(loops') = Len(loops)
         /\ DOMAIN loops' = DOMAIN loops /\ loops'[w] = l
         /\ \A v \in DOMAIN loops \ {w} : loops'[v] = loops[v]
         /\ watchers' = watchers => LoopsTyped'
<1>1. loops \in Seq(LoopRecord) /\ w \in 1 .. Len(loops)
  BY DEF LoopsTyped
<1>2. /\ loops' \in Seq(LoopRecord) /\ Len(loops') = Len(loops)
      /\ DOMAIN loops' = DOMAIN loops /\ loops'[w] = l
      /\ \A v \in DOMAIN loops \ {w} : loops'[v] = loops[v]
  BY <1>1, ExceptSeq
<1> QED  BY <1>2 DEF LoopsTyped

(* A step of loop w: what it keeps whatever it does.                       *)
LEMMA LoopStepFits ==
  ASSUME CoreInv, NEW w \in DOMAIN loops, NEW l \in LoopRecord,
         loops' = [loops EXCEPT ![w] = l], LoopFits(l)', HeapStep, MapsTyped',
         UNCHANGED <<fileVars, hist>>, ThreadsTyped',
         \A y \in Thread : Later(threads[y], threads'[y])
  PROVE  /\ FilesTyped' /\ HistTyped' /\ LoopsFit' /\ ThreadsFit' /\ NotStarted' /\ OneLoads'
         /\ OthersLater("main") /\ disk' = disk
<1>1. /\ FilesTyped /\ MapsTyped /\ LoopsTyped /\ ThreadsTyped /\ HistTyped /\ LoopsFit
      /\ ThreadsFit /\ NotStarted /\ OneLoads
  BY DEF CoreInv, CoreTyped, CoreFits
<1>2. FilesTyped' /\ HistTyped' /\ disk' = disk
  BY <1>1 DEF FilesTyped, HistTyped, fileVars
<1>3. /\ loops' \in Seq(LoopRecord) /\ DOMAIN loops' = DOMAIN loops /\ loops'[w] = l
      /\ \A v \in DOMAIN loops \ {w} : loops'[v] = loops[v]
  BY <1>1, LoopMoves
<1>4. LoopsFit'
  <2> SUFFICES ASSUME NEW v \in DOMAIN loops PROVE LoopFits(loops[v])'
    BY <1>3 DEF LoopsFit
  <2>1. CASE v = w
    BY <1>3, <2>1
  <2>2. CASE v # w
    <3>1. PICK k : k = loops[v] /\ LoopFits(k)
      BY <1>1 DEF LoopsFit
    <3>2. LoopFits(k)'
      BY <1>1, <1>2, <3>1, LoopFitsStays
    <3> QED  BY <1>3, <2>2, <3>1, <3>2
  <2> QED  BY <2>1, <2>2
<1>5. ~At("main", "start")
  BY <1>1 DEF NotStarted
<1>6. ThreadsFit' /\ NotStarted' /\ OneLoads'
  BY <1>1, <1>2, <1>5, ThreadsLater
<1>7. OthersLater("main")
  BY DEF OthersLater
<1> QED  BY <1>2, <1>4, <1>6, <1>7

(* The parts of the invariant.                                             *)
LEMMA CoreParts ==
  ASSUME CoreInv
  PROVE  /\ FilesTyped /\ MapsTyped /\ LoopsTyped /\ ThreadsTyped /\ IndexTyped /\ CachesTyped
         /\ HistTyped /\ MapsFit /\ WatchersFit /\ LoopsFit /\ ThreadsFit /\ NotStarted
         /\ OneLoads /\ IndexDone /\ StatesDone /\ ClientsDone /\ CachesDone
         /\ Len(heap) \in Nat
BY DEF CoreInv, CoreTyped, CoreFits, CoreDone, MapsTyped

(* What a loop has is typed.                                               *)
LEMMA LoopFields ==
  ASSUME CoreInv, NEW w \in DOMAIN loops
  PROVE  /\ loops[w] \in LoopRecord /\ LoopFits(loops[w])
         /\ loops[w].cfg \in Config /\ loops[w].armed \in BOOLEAN
         /\ loops[w].moving \in BOOLEAN /\ loops[w].pc \in LoopPc
         /\ loops[w].st \in 0 .. Len(heap) /\ loops[w].cl \in 0 .. Len(heap)
         /\ loops[w].ok \in BOOLEAN
<1>1. loops[w] \in LoopRecord
  BY CoreParts DEF LoopsTyped
<1>2. LoopFits(loops[w])
  BY CoreParts DEF LoopsFit
<1> QED  BY <1>1, <1>2 DEF LoopRecord, LoopFits

(* What moves from key c to key d is gone from c.                          *)
LEMMA MovedFacts ==
  ASSUME NEW S, 0 \in S, NEW f \in [Config -> S], NEW c \in Config, NEW d \in Config, c # d,
         NEW g, g = IF f[c] = 0 THEN f ELSE [f EXCEPT ![c] = 0, ![d] = f[c]]
  PROVE  /\ g \in [Config -> S] /\ g[c] = 0
         /\ g[d] = f[d] \/ (f[c] # 0 /\ g[d] = f[c])
         /\ \A e \in Config \ {c, d} : g[e] = f[e]
<1>1. CASE f[c] = 0
  BY <1>1
<1>2. CASE f[c] # 0
  <2>1. PICK h : h = [f EXCEPT ![c] = 0]
    OBVIOUS
  <2>2. h \in [Config -> S] /\ h[c] = 0 /\ \A e \in Config \ {c} : h[e] = f[e]
    BY <2>1
  <2>3. g = [h EXCEPT ![d] = f[c]]
    BY <1>2, <2>1
  <2>4. f[c] \in S
    OBVIOUS
  <2> QED  BY <1>2, <2>2, <2>3, <2>4
<1> QED  BY <1>1, <1>2

(* A flow.json appears next to the Custom file.                            *)
LEMMA WatchMoveKeeps ==
  ASSUME CoreInv, NEW w \in DOMAIN loops, WatchMove(w)
  PROVE  CoreInv'
<1> DEFINE o == loops[w]
           d == CustomDir
<1>1. /\ o \in LoopRecord /\ LoopFits(o) /\ o.pc = "idle" /\ o.cfg = Custom
  BY LoopFields DEF WatchMove, LoopFits
<1>2. /\ Custom \in Config /\ d \in Config /\ d \in Dir /\ Custom \notin Dir /\ Custom # d
      /\ DirOf(Custom) = d
  BY Constants DEF DirOf
<1>3. PICK l : l = [o EXCEPT !.cfg = d, !.moving = FALSE, !.armed = TRUE]
  OBVIOUS
<1>4. /\ l \in LoopRecord /\ l.cfg = d /\ l.pc = "idle" /\ l.armed /\ ~l.moving /\ l.st = o.st
      /\ l.cl = o.cl
  BY <1>1, <1>2, <1>3 DEF LoopRecord
<1>5. /\ loops' = [loops EXCEPT ![w] = l]
      /\ watchers' = [watchers EXCEPT ![Custom] = 0, ![d] = w]
      /\ states' = IF states[Custom] = 0 THEN states
                   ELSE [states EXCEPT ![Custom] = 0, ![d] = states[Custom]]
      /\ clients' = IF clients[Custom] = 0 THEN clients
                    ELSE [clients EXCEPT ![Custom] = 0, ![d] = clients[Custom]]
      /\ heap' = heap /\ threads' = threads /\ index' = index /\ caches' = caches
      /\ UNCHANGED <<fileVars, hist>>
  BY <1>1, <1>2, <1>3 DEF WatchMove, LoopUnchanged
<1>6. /\ FilesTyped /\ MapsTyped /\ LoopsTyped /\ ThreadsTyped /\ IndexTyped /\ CachesTyped
      /\ MapsFit /\ WatchersFit /\ LoopsFit /\ ThreadsFit
      /\ IndexDone /\ StatesDone /\ ClientsDone /\ CachesDone /\ Len(heap) \in Nat
  BY CoreParts
<1>7. /\ states'[Custom] = 0 /\ clients'[Custom] = 0
      /\ states'[d] = states[d] \/ (states[Custom] # 0 /\ states'[d] = states[Custom])
      /\ clients'[d] = clients[d] \/ (clients[Custom] # 0 /\ clients'[d] = clients[Custom])
      /\ \A e \in Config \ {Custom, d} : states'[e] = states[e] /\ clients'[e] = clients[e]
      /\ states' \in [Config -> 0 .. Len(heap)] /\ clients' \in [Config -> 0 .. Len(heap)]
  <2>1. states \in [Config -> 0 .. Len(heap)] /\ clients \in [Config -> 0 .. Len(heap)]
    BY <1>6 DEF MapsTyped
  <2>2. 0 \in 0 .. Len(heap)
    BY <1>6
  <2>3. /\ states' \in [Config -> 0 .. Len(heap)] /\ states'[Custom] = 0
        /\ states'[d] = states[d] \/ (states[Custom] # 0 /\ states'[d] = states[Custom])
        /\ \A e \in Config \ {Custom, d} : states'[e] = states[e]
    BY ONLY <1>2, <1>5, <2>1, <2>2, MovedFacts
  <2>4. /\ clients' \in [Config -> 0 .. Len(heap)] /\ clients'[Custom] = 0
        /\ clients'[d] = clients[d] \/ (clients[Custom] # 0 /\ clients'[d] = clients[Custom])
        /\ \A e \in Config \ {Custom, d} : clients'[e] = clients[e]
    BY ONLY <1>2, <1>5, <2>1, <2>2, MovedFacts
  <2> QED  BY <2>3, <2>4
<1>8. MapsTyped' /\ IndexTyped' /\ CachesTyped' /\ ThreadsTyped'
      /\ \A y \in Thread : Later(threads[y], threads'[y])
  <2>1. MapsTyped'
    BY <1>5, <1>6, <1>7 DEF MapsTyped
  <2>2. IndexTyped' /\ CachesTyped'
    BY <1>5, <1>6 DEF IndexTyped, CachesTyped
  <2> QED  BY <1>5, <1>6, <2>1, <2>2, SameLater
<1>9. /\ DOMAIN loops' = DOMAIN loops /\ loops'[w] = l /\ Len(loops') = Len(loops)
      /\ loops' \in Seq(LoopRecord)
      /\ \A v \in DOMAIN loops \ {w} : loops'[v] = loops[v]
  BY <1>4, <1>5, <1>6, LoopMoves
<1>10. /\ watchers'[Custom] = 0 /\ watchers'[d] = w
       /\ \A e \in Config \ {Custom, d} : watchers'[e] = watchers[e]
       /\ LoopsTyped'
  <2>1. w \in 0 .. Len(loops) /\ 0 \in 0 .. Len(loops)
    BY <1>6 DEF LoopsTyped
  <2> QED  BY <1>2, <1>5, <1>6, <1>9, <2>1 DEF LoopsTyped
<1>11. /\ states[Custom] # 0 => heap[states[Custom]].path = Custom
       /\ clients[Custom] # 0 => heap[clients[Custom]].path = Custom
  BY <1>2, <1>6 DEF MapsFit, Fits
<1>12. HeapStep
  <2>1. ASSUME NEW i \in 1 .. Len(heap), states'[heap[i].path] = i
        PROVE  states[heap[i].path] = i
    <3>1. heap[i].path \in Config
      BY <1>6, ObjectFields
    <3> QED  BY <1>2, <1>7, <1>11, <2>1, <3>1
  <2>2. heap' = heap /\ Len(heap) \in Nat
    BY <1>5, <1>6
  <2> QED  BY ONLY <2>1, <2>2 DEF HeapStep
<1>13. MapsFit'
  <2>1. ASSUME states'[d] # states[d] PROVE Fits(states[d], d)'
    BY <1>2, <1>5, <1>7, <1>11, <2>1 DEF Fits
  <2>2. ASSUME clients'[d] # clients[d] PROVE Fits(clients[d], d)'
    <3>1. clients[Custom] # 0 /\ clients'[d] = clients[Custom] /\ heap[clients[Custom]].path = Custom
      BY <1>7, <1>11, <2>2
    <3> QED  BY <1>2, <1>5, <1>7, <3>1 DEF Fits
  <2> QED  BY <1>6, <1>7, <1>8, <1>12, <2>1, <2>2, MapsKept
<1>14. WatchersFit'
  <2>1. ASSUME NEW e \in Config \ {Custom, d}, watchers[e] # 0
        PROVE  loops'[watchers[e]].cfg = e
    <3>1. watchers[e] \in DOMAIN loops /\ loops[watchers[e]].cfg = e
      BY <1>6, <2>1 DEF LoopsTyped, WatchersFit
    <3> QED  BY <1>1, <1>9, <3>1
  <2> QED  BY <1>4, <1>9, <1>10, <2>1 DEF WatchersFit
<1>15. LoopFits(l)'
  BY <1>1, <1>4, <1>5 DEF LoopFits
<1>16. /\ FilesTyped' /\ HistTyped' /\ LoopsFit' /\ ThreadsFit' /\ NotStarted' /\ OneLoads'
       /\ OthersLater("main") /\ disk' = disk
  BY <1>4, <1>5, <1>8, <1>12, <1>15, LoopStepFits
<1>17. IndexDone'
  <2>1. \A e \in Dir : IndexDue(e) => IndexDue(e)'
    BY <1>1, <1>2, <1>5, <1>9 DEF IndexDue
  <2>2. \A e \in Dir : Gone(e)' => Gone(e)
    BY <1>5, <1>16 DEF Gone
  <2> QED  BY <1>5, <1>6, <1>8, <1>16, <2>1, <2>2, IndexQuiet, Constants
<1>18. StatesDone'
  <2>1. \A e \in Config : states[e] # 0 /\ states'[e] = states[e] /\ StateDue(e) => StateDue(e)'
    BY <1>1, <1>7, <1>9, SMTT(20) DEF StateDue
  <2>2. \A e \in Config : states'[e] = 0 \/ states'[e] = states[e] \/ heap'[states'[e]].path # e
    BY <1>2, <1>5, <1>7, <1>11
  <2> QED  BY <1>5, <1>6, <1>8, <1>12, <1>16, <2>1, <2>2, StatesKept
<1>19. ClientsDone'
  <2>1. \A e \in Config : clients[e] # 0 /\ clients'[e] = clients[e] /\ ClientDue(e) => ClientDue(e)'
    BY <1>1, <1>7, <1>9, SMTT(20) DEF ClientDue
  <2>2. \A e \in Config : clients'[e] = 0 \/ clients'[e] = clients[e] \/ heap'[clients'[e]].path # e
    BY <1>2, <1>5, <1>7, <1>11
  <2> QED  BY <1>5, <1>6, <1>8, <1>12, <1>16, <2>1, <2>2, ClientsKept
<1>20. CachesDone'
  <2>1. ASSUME NEW e \in Config, CacheDue(e)
        PROVE  CacheDue(e)' \/ \A id \in 1 .. Len(heap) : states'[e] # id
    <3>1. CASE e = Custom
      BY <1>7, <3>1
    <3>2. CASE e # Custom
      BY <1>1, <1>5, <1>9, <2>1, <3>2 DEF CacheDue
    <3> QED  BY <3>1, <3>2
  <2> QED  BY <1>5, <1>6, <1>8, <1>12, <1>16, <2>1, CachesQuiet, Constants
<1> QED  BY <1>8, <1>10, <1>13, <1>14, <1>16, <1>17, <1>18, <1>19, <1>20
         DEF CoreInv, CoreTyped, CoreFits, CoreDone

(* The debounce timer of a loop fires.                                     *)
LEMMA WatchFireKeeps ==
  ASSUME CoreInv, NEW w \in DOMAIN loops, WatchFire(w)
  PROVE  CoreInv'
<1> DEFINE o == loops[w]
           c == o.cfg
<1>1. o \in LoopRecord /\ LoopFits(o) /\ o.pc = "idle" /\ c \in Config
  BY LoopFields DEF WatchFire
<1>2. /\ FilesTyped /\ MapsTyped /\ LoopsTyped /\ ThreadsTyped /\ IndexTyped /\ CachesTyped
      /\ MapsFit /\ WatchersFit /\ LoopsFit /\ ThreadsFit
      /\ IndexDone /\ StatesDone /\ ClientsDone /\ CachesDone /\ Len(heap) \in Nat
  BY CoreParts
<1>3. PICK to : to = IF states[c] # 0 THEN "reload"
                     ELSE IF clients[c] # 0 THEN "client" ELSE "index"
  OBVIOUS
<1>4. PICK l : l = [o EXCEPT !.armed = FALSE, !.st = states[c], !.cl = clients[c], !.pc = to]
  OBVIOUS
<1>5. states[c] \in 0 .. Len(heap) /\ clients[c] \in 0 .. Len(heap)
  BY <1>1, <1>2 DEF MapsTyped
<1>6. /\ l \in LoopRecord /\ l.cfg = c /\ l.pc = to /\ ~l.armed /\ l.moving = o.moving
      /\ l.st = states[c] /\ l.cl = clients[c]
  <2>1. to \in LoopPc /\ states[c] \in Nat /\ clients[c] \in Nat
    BY <1>2, <1>3, <1>5 DEF LoopPc
  <2> QED  BY <1>1, <1>4, <2>1 DEF LoopRecord
<1>7. /\ loops' = [loops EXCEPT ![w] = l] /\ watchers' = watchers
      /\ states' = states /\ clients' = clients
      /\ heap' = heap /\ threads' = threads /\ index' = index /\ caches' = caches
      /\ UNCHANGED <<fileVars, hist>>
  BY <1>3, <1>4 DEF WatchFire, LoopUnchanged
<1>8. /\ DOMAIN loops' = DOMAIN loops /\ loops'[w] = l /\ LoopsTyped'
      /\ \A v \in DOMAIN loops \ {w} : loops'[v] = loops[v]
  BY <1>2, <1>6, <1>7, LoopMoves
<1>9. /\ MapsTyped' /\ IndexTyped' /\ CachesTyped' /\ ThreadsTyped' /\ HeapStep
      /\ \A y \in Thread : Later(threads[y], threads'[y])
  <2>1. MapsTyped' /\ HeapStep
    BY <1>2, <1>7, HeapStays DEF MapsTyped
  <2>2. IndexTyped' /\ CachesTyped'
    BY <1>2, <1>7 DEF IndexTyped, CachesTyped
  <2> QED  BY <1>2, <1>7, <2>1, <2>2, SameLater
<1>10. LoopFits(l)
  <2>1. /\ states[c] # 0 => Fits(states[c], c)
        /\ clients[c] # 0 => Fits(clients[c], c)
    BY <1>1, <1>2 DEF MapsFit
  <2>2. clients[c] # 0 /\ Home(clients[c]) => clients[c] = states[c]
    BY <2>1 DEF Home, Fits
  <2>3. o.moving => c = Custom
    BY <1>1 DEF LoopFits
  <2> QED  BY <1>3, <1>5, <1>6, <2>1, <2>2, <2>3 DEF LoopFits
<1>11. LoopFits(l)'
  BY <1>2, <1>7, <1>9, <1>10, LoopFitsStays DEF fileVars
<1>12. /\ FilesTyped' /\ HistTyped' /\ LoopsFit' /\ ThreadsFit' /\ NotStarted' /\ OneLoads'
       /\ OthersLater("main") /\ disk' = disk
  BY <1>6, <1>7, <1>9, <1>11, LoopStepFits
<1>13. MapsFit' /\ WatchersFit'
  <2>1. MapsFit'
    BY <1>2, <1>7 DEF MapsFit, Fits
  <2>2. WatchersFit'
    <3>1. \A e \in Config : watchers[e] # 0 => watchers[e] \in DOMAIN loops
      BY <1>2 DEF LoopsTyped
    <3>2. \A v \in DOMAIN loops : loops'[v].cfg = loops[v].cfg
      BY <1>6, <1>8
    <3> QED  BY <1>2, <1>7, <3>1, <3>2 DEF WatchersFit
  <2> QED  BY <2>1, <2>2
<1>14. IndexDone'
  <2>1. \A e \in Dir : IndexDue(e) => IndexDue(e)'
    BY <1>3, <1>6, <1>7, <1>8 DEF IndexDue
  <2>2. \A e \in Dir : Gone(e)' => Gone(e)
    BY <1>7, <1>12 DEF Gone
  <2> QED  BY <1>2, <1>7, <1>9, <1>12, <2>1, <2>2, IndexQuiet, Constants
<1>15. StatesDone'
  <2>1. \A e \in Config : states[e] # 0 /\ StateDue(e) => StateDue(e)'
    BY <1>1, <1>3, <1>6, <1>7, <1>8 DEF StateDue
  <2> QED  BY <1>2, <1>7, <1>9, <1>12, <2>1, StatesKept
<1>16. ClientsDone'
  <2>1. \A e \in Config : clients[e] # 0 /\ ClientDue(e) => ClientDue(e)'
    BY <1>1, <1>3, <1>6, <1>7, <1>8 DEF ClientDue
  <2> QED  BY <1>2, <1>7, <1>9, <1>12, <2>1, ClientsKept
<1>17. CachesDone'
  <2>1. ASSUME NEW e \in Config, CacheDue(e)
        PROVE  CacheDue(e)' \/ \A id \in 1 .. Len(heap) : states'[e] # id
    <3>1. CASE states[e] = 0
      BY <1>7, <3>1
    <3>2. CASE states[e] # 0
      BY <1>1, <1>3, <1>6, <1>7, <1>8, <2>1, <3>2 DEF CacheDue
    <3> QED  BY <3>1, <3>2
  <2> QED  BY <1>2, <1>7, <1>9, <1>12, <2>1, CachesQuiet, Constants
<1> QED  BY <1>8, <1>9, <1>12, <1>13, <1>14, <1>15, <1>16, <1>17
         DEF CoreInv, CoreTyped, CoreFits, CoreDone

(* What a reload does to the objects.                                      *)
LEMMA ReloadFacts ==
  ASSUME CoreInv, NEW id \in 1 .. Len(heap), heap' = Reloaded(heap, id),
         states' = states, clients' = clients, disk' = disk
  PROVE  /\ MapsTyped' /\ HeapStep /\ Len(heap') = Len(heap)
         /\ \A i \in 1 .. Len(heap) :
              /\ heap'[i].path = heap[i].path
              /\ i # id => heap'[i].ver = heap[i].ver
         /\ Readable(id) => heap'[id].ver = disk[heap[id].path].ver
         /\ ~Readable(id) => heap'[id].ver = heap[id].ver
         /\ Current(id)'
         /\ Current(id) => heap'[id].ver = heap[id].ver
         /\ \A i \in 1 .. Len(heap) : Home(i)' => Home(i)
<1>1. FilesTyped /\ MapsTyped /\ Len(heap) \in Nat
  BY CoreParts
<1>2. heap \in Seq(Object) /\ heap[id] \in Object /\ heap[id].path \in Config
  BY <1>1, ObjectFields DEF MapsTyped
<1>3. /\ heap' \in Seq(Object) /\ Len(heap') = Len(heap)
      /\ \A i \in 1 .. Len(heap) : i # id => heap'[i] = heap[i]
      /\ heap'[id].path = heap[id].path
      /\ Readable(id) => heap'[id].ver = disk[heap[id].path].ver
      /\ ~Readable(id) => heap'[id].ver = heap[id].ver
  <2>1. CASE ~Readable(id)
    BY <1>2, <2>1 DEF Reloaded
  <2>2. CASE Readable(id)
    <3>1. PICK r : r = [heap[id] EXCEPT !.ver = disk[heap[id].path].ver]
      OBVIOUS
    <3>2. disk[heap[id].path].ver \in 0 .. MaxWrites
      BY <1>1, <1>2 DEF FilesTyped, FileRecord
    <3>3. r \in Object /\ r.path = heap[id].path /\ r.ver = disk[heap[id].path].ver
      BY <1>2, <3>1, <3>2 DEF Object
    <3>4. heap' = [heap EXCEPT ![id] = r]
      BY <2>2, <3>1 DEF Reloaded
    <3> QED  BY <1>2, <2>2, <3>3, <3>4, ExceptSeq
  <2> QED  BY <2>1, <2>2
<1>4. MapsTyped'
  BY <1>1, <1>3 DEF MapsTyped
<1>5. /\ HeapStep
      /\ \A i \in 1 .. Len(heap) :
           heap'[i].path = heap[i].path /\ (i # id => heap'[i].ver = heap[i].ver)
  BY <1>1, <1>3 DEF HeapStep
<1>6. Current(id)' /\ (Current(id) => heap'[id].ver = heap[id].ver)
  BY <1>3 DEF Current, Readable
<1>7. \A i \in 1 .. Len(heap) : Home(i)' => Home(i)
  BY <1>5 DEF Home
<1> QED  BY <1>3, <1>4, <1>5, <1>6, <1>7

(* A loop reloads the state that it took.                                  *)
LEMMA WatchReloadKeeps ==
  ASSUME CoreInv, NEW w \in DOMAIN loops, WatchReload(w)
  PROVE  CoreInv'
<1> DEFINE o == loops[w]
           c == o.cfg
<1>1. /\ o \in LoopRecord /\ LoopFits(o) /\ o.pc = "reload" /\ c \in Config
      /\ o.st \in 1 .. Len(heap) /\ Fits(o.st, c)
  <2>1. o \in LoopRecord /\ LoopFits(o) /\ o.pc = "reload" /\ c \in Config
    BY LoopFields DEF WatchReload
  <2> QED  BY <2>1, CoreParts DEF LoopFits
<1>2. /\ FilesTyped /\ MapsTyped /\ LoopsTyped /\ ThreadsTyped /\ IndexTyped /\ CachesTyped
      /\ MapsFit /\ WatchersFit /\ LoopsFit /\ ThreadsFit
      /\ IndexDone /\ StatesDone /\ ClientsDone /\ CachesDone /\ Len(heap) \in Nat
  BY CoreParts
<1>3. PICK l : l = [o EXCEPT !.pc = "apply", !.ok = Readable(o.st)]
  OBVIOUS
<1>4. /\ l \in LoopRecord /\ l.cfg = c /\ l.pc = "apply" /\ l.armed = o.armed
      /\ l.moving = o.moving /\ l.st = o.st /\ l.cl = o.cl /\ (l.ok <=> Readable(o.st))
  <2>1. Readable(o.st) \in BOOLEAN /\ "apply" \in LoopPc
    BY DEF Readable, LoopPc
  <2> QED  BY <1>1, <1>3, <2>1 DEF LoopRecord
<1>5. /\ loops' = [loops EXCEPT ![w] = l] /\ watchers' = watchers
      /\ states' = states /\ clients' = clients /\ heap' = Reloaded(heap, o.st)
      /\ threads' = threads /\ index' = index /\ caches' = caches
      /\ UNCHANGED <<fileVars, hist>> /\ disk' = disk
  BY <1>3 DEF WatchReload, LoopUnchanged, fileVars
<1>6. /\ DOMAIN loops' = DOMAIN loops /\ loops'[w] = l /\ LoopsTyped'
      /\ \A v \in DOMAIN loops \ {w} : loops'[v] = loops[v]
  BY <1>2, <1>4, <1>5, LoopMoves
<1>7. /\ MapsTyped' /\ HeapStep /\ Len(heap') = Len(heap)
      /\ \A i \in 1 .. Len(heap) :
           heap'[i].path = heap[i].path /\ (i # o.st => heap'[i].ver = heap[i].ver)
      /\ Readable(o.st) => heap'[o.st].ver = disk[heap[o.st].path].ver
      /\ \A i \in 1 .. Len(heap) : Home(i)' => Home(i)
  BY <1>1, <1>5, ReloadFacts
<1>8. PICK id \in 1 .. Len(heap) : id = o.st
  BY <1>1
<1>9. Current(id)'
  BY <1>5, <1>8, ReloadFacts
<1>10. /\ IndexTyped' /\ CachesTyped' /\ ThreadsTyped'
       /\ \A y \in Thread : Later(threads[y], threads'[y])
  <2>1. IndexTyped' /\ CachesTyped'
    BY <1>2, <1>5 DEF IndexTyped, CachesTyped
  <2> QED  BY <1>2, <1>5, <2>1, SameLater
<1>11. LoopFits(l)'
  <2>1. /\ o.cl \in 0 .. Len(heap) /\ o.st # 0 /\ (o.cl # 0 => Fits(o.cl, c))
        /\ o.cl # 0 /\ Home(o.cl) => o.cl = o.st
    BY <1>1 DEF LoopFits
  <2>2. o.moving => c = Custom
    BY <1>1 DEF LoopFits
  <2>3. Fits(l.st, l.cfg)' /\ (l.cl # 0 => Fits(l.cl, l.cfg)')
    <3>1. \A i \in 1 .. Len(heap) : \A e : Fits(i, e) => Fits(i, e)'
      BY <1>2, <1>7, FitsStays
    <3>2. l.st \in 1 .. Len(heap) /\ Fits(l.st, l.cfg)
      BY <1>1, <1>4
    <3>3. l.cl # 0 => l.cl \in 1 .. Len(heap) /\ Fits(l.cl, l.cfg)
      BY <1>2, <1>4, <2>1
    <3> QED  BY <3>1, <3>2, <3>3
  <2>4. l.cl # 0 /\ Home(l.cl)' => l.cl = l.st
    <3>1. l.cl # 0 => l.cl \in 1 .. Len(heap)
      BY <1>2, <1>4, <2>1
    <3> QED  BY <1>4, <1>7, <2>1, <3>1
  <2>5. l.st = id
    BY <1>4, <1>8
  <2> QED  BY <1>2, <1>4, <1>7, <1>9, <2>1, <2>2, <2>3, <2>4, <2>5 DEF LoopFits
<1>12. /\ FilesTyped' /\ HistTyped' /\ LoopsFit' /\ ThreadsFit' /\ NotStarted' /\ OneLoads'
       /\ OthersLater("main")
  BY <1>4, <1>5, <1>7, <1>10, <1>11, LoopStepFits
<1>13. MapsFit' /\ WatchersFit'
  <2>1. MapsFit'
    BY <1>2, <1>5, <1>7, MapsKept
  <2>2. WatchersFit'
    <3>1. \A e \in Config : watchers[e] # 0 => watchers[e] \in DOMAIN loops
      BY <1>2 DEF LoopsTyped
    <3>2. \A v \in DOMAIN loops : loops'[v].cfg = loops[v].cfg
      BY <1>4, <1>6
    <3> QED  BY <1>2, <1>5, <3>1, <3>2 DEF WatchersFit
  <2> QED  BY <2>1, <2>2
<1>14. IndexDone'
  <2>1. \A e \in Dir : IndexDue(e) => IndexDue(e)'
    BY <1>4, <1>5, <1>6 DEF IndexDue
  <2>2. \A e \in Dir : Gone(e)' => Gone(e)
    BY <1>5 DEF Gone
  <2> QED  BY <1>2, <1>5, <1>10, <1>12, <2>1, <2>2, IndexQuiet, Constants
<1>15. StatesDone'
  <2>1. ASSUME NEW e \in Config, states[e] # 0, heap[states[e]].path = e, StateDue(e)
        PROVE  \/ StateDue(e)'
               \/ disk[e].state = "good" /\ heap'[states[e]].ver = disk[e].ver
    <3>1. PICK v \in DOMAIN loops :
            /\ loops[v].cfg = e
            /\ \/ loops[v].armed
               \/ loops[v].pc = "reload" /\ loops[v].st = states[e]
               \/ loops[v].pc = "apply" /\ ~loops[v].ok
      BY <2>1 DEF StateDue
    <3>2. CASE v # w
      BY <1>5, <1>6, <3>1, <3>2 DEF StateDue
    <3>3. CASE v = w /\ o.armed
      BY <1>4, <1>6, <3>1, <3>3 DEF StateDue
    <3>4. CASE v = w /\ ~o.armed
      <4>1. o.st = states[e] /\ c = e
        BY <1>1, <3>1, <3>4
      <4>2. CASE Readable(o.st)
        BY <1>7, <2>1, <4>1, <4>2 DEF Readable
      <4>3. CASE ~Readable(o.st)
        BY <1>4, <1>6, <4>1, <4>3 DEF StateDue
      <4> QED  BY <4>2, <4>3
    <3> QED  BY <3>2, <3>3, <3>4
  <2> QED  BY <1>2, <1>5, <1>7, <2>1, StatesKept
<1>16. ClientsDone'
  <2>1. ASSUME NEW e \in Config, clients[e] # 0, heap[clients[e]].path = e, ClientDue(e),
               disk[e].state = "good"
        PROVE  ClientDue(e)' \/ heap'[clients[e]].ver = disk[e].ver
    <3>1. PICK v \in DOMAIN loops :
            /\ loops[v].cfg = e
            /\ \/ loops[v].armed
               \/ loops[v].pc \in {"reload", "apply", "client"} /\ loops[v].cl = clients[e]
               \/ loops[v].pc = "reload" /\ loops[v].st = clients[e]
               \/ loops[v].pc = "apply" /\ ~loops[v].ok
      BY <2>1 DEF ClientDue
    <3>2. CASE v # w
      BY <1>5, <1>6, <3>1, <3>2 DEF ClientDue
    <3>3. CASE v = w /\ (o.armed \/ o.cl = clients[e])
      BY <1>4, <1>5, <1>6, <3>1, <3>3 DEF ClientDue
    <3>4. CASE v = w /\ ~(o.armed \/ o.cl = clients[e])
      <4>1. o.st = clients[e]
        BY <1>1, <3>1, <3>4
      <4> QED  BY <1>7, <2>1, <4>1 DEF Readable
    <3> QED  BY <3>2, <3>3, <3>4
  <2> QED  BY <1>2, <1>5, <1>7, <2>1, ClientsKept
<1>17. CachesDone'
  <2>1. "main" \in Thread /\ ThreadFits("main", threads["main"])
        /\ ThreadFits("main", threads["main"])'
    BY <1>2, <1>12, Constants DEF ThreadsFit
  <2>2. \A e \in Config : caches'[e] \in {NoCache, caches[e]}
    BY <1>5
  <2>3. ASSUME NEW i \in 1 .. Len(heap), Home(i)', heap'[i].ver # heap[i].ver
        PROVE  CacheDue(heap[i].path)'
    <3>1. i = o.st /\ Home(i)
      BY <1>7, <2>3
    <3>2. heap[i].path = c
      BY <1>1, <3>1 DEF Fits, Home
    <3>3. heap'[i].path = c
      BY <1>7, <3>2
    <3> QED  BY <1>4, <1>6, <3>3 DEF CacheDue
  <2>4. \A e \in Config : CacheDue(e) => CacheDue(e)'
    BY <1>4, <1>5, <1>6 DEF CacheDue
  <2>5. At("main", "cache")' /\ ~threads'["main"].late =>
              /\ At("main", "cache") /\ ~threads["main"].late
              /\ threads'["main"].st = threads["main"].st
              /\ threads'["main"].ver = threads["main"].ver
    BY <1>5 DEF At
  <2> QED  BY <1>2, <1>7, <2>1, <2>2, <2>3, <2>4, <2>5, CachesKept
<1> QED  BY <1>6, <1>7, <1>10, <1>12, <1>13, <1>14, <1>15, <1>16, <1>17
         DEF CoreInv, CoreTyped, CoreFits, CoreDone

(* Main learns that the cache of c was invalidated.                        *)
LEMMA RacedFacts ==
  ASSUME NEW u \in [Thread -> ThreadRecord], NEW c, NEW v, v = RacedBy(c, u)
  PROVE  /\ v \in [Thread -> ThreadRecord]
         /\ \A y \in Thread : Later(u[y], v[y])
         /\ v["main"].pc = "cache" /\ heap[v["main"].st].path = c => v["main"].late
<1>1. "main" \in Thread /\ u["main"] \in ThreadRecord
  BY Constants
<1>2. CASE u["main"].pc = "cache" /\ heap[u["main"].st].path = c
  <2>1. PICK m : m = [u["main"] EXCEPT !.late = TRUE]
    OBVIOUS
  <2>2. m \in ThreadRecord /\ m.late /\ Later(u["main"], m)
    BY <1>1, <2>1 DEF ThreadRecord, Later
  <2>3. v = [u EXCEPT !["main"] = m]
    BY <1>2, <2>1 DEF RacedBy
  <2>4. \A y \in Thread : Later(u[y], u[y])
    BY DEF Later
  <2> QED  BY <1>1, <2>2, <2>3, <2>4
<1>3. CASE ~(u["main"].pc = "cache" /\ heap[u["main"].st].path = c)
  <2>1. v = u
    BY <1>3 DEF RacedBy
  <2> QED  BY <1>3, <2>1 DEF Later
<1> QED  BY <1>2, <1>3

(* Lookups that found c before learn that they are late.                   *)
LEMMA LateFacts ==
  ASSUME NEW u \in [Thread -> ThreadRecord], NEW c, NEW v, v = LateBy(c, u)
  PROVE  /\ v \in [Thread -> ThreadRecord]
         /\ \A y \in Thread : Later(u[y], v[y])
         /\ \A y \in Thread : v[y].pc = "record" /\ v[y].cfg = c => v[y].late
<1>1. ASSUME NEW y \in Thread
      PROVE  /\ v[y] \in ThreadRecord /\ Later(u[y], v[y])
             /\ v[y].pc = "record" /\ v[y].cfg = c => v[y].late
  <2>1. u[y] \in ThreadRecord
    OBVIOUS
  <2>2. v[y] = IF u[y].pc = "record" /\ u[y].cfg = c THEN [u[y] EXCEPT !.late = TRUE] ELSE u[y]
    BY DEF LateBy
  <2>3. CASE u[y].pc = "record" /\ u[y].cfg = c
    <3>1. PICK r : r = [u[y] EXCEPT !.late = TRUE]
      OBVIOUS
    <3>2. r \in ThreadRecord /\ r.late /\ Later(u[y], r)
      BY <2>1, <3>1 DEF ThreadRecord, Later
    <3> QED  BY <2>2, <2>3, <3>1, <3>2
  <2>4. CASE ~(u[y].pc = "record" /\ u[y].cfg = c)
    BY <2>1, <2>2, <2>4 DEF Later
  <2> QED  BY <2>3, <2>4
<1>2. v = [y \in Thread |-> v[y]]
  BY DEF LateBy
<1> QED  BY <1>1, <1>2

(* The result of a reload is applied.                                      *)
LEMMA WatchApplyKeeps ==
  ASSUME CoreInv, NEW w \in DOMAIN loops, WatchApply(w)
  PROVE  CoreInv'
<1> DEFINE o == loops[w]
           c == o.cfg
<1>1. /\ o \in LoopRecord /\ LoopFits(o) /\ o.pc = "apply" /\ c \in Config
      /\ o.st \in 1 .. Len(heap) /\ Fits(o.st, c) /\ o.cl \in 0 .. Len(heap)
  <2>1. o \in LoopRecord /\ LoopFits(o) /\ o.pc = "apply" /\ c \in Config
    BY LoopFields DEF WatchApply
  <2> QED  BY <2>1, CoreParts DEF LoopFits
<1>2. /\ FilesTyped /\ MapsTyped /\ LoopsTyped /\ ThreadsTyped /\ IndexTyped /\ CachesTyped
      /\ MapsFit /\ WatchersFit /\ LoopsFit /\ ThreadsFit
      /\ IndexDone /\ StatesDone /\ ClientsDone /\ CachesDone /\ Len(heap) \in Nat
  BY CoreParts
<1>3. PICK l : l = [o EXCEPT !.pc = IF o.cl # 0 THEN "client" ELSE "index"]
  OBVIOUS
<1>4. /\ l \in LoopRecord /\ l.cfg = c /\ l.pc = (IF o.cl # 0 THEN "client" ELSE "index")
      /\ l.armed = o.armed /\ l.moving = o.moving /\ l.st = o.st /\ l.cl = o.cl
  BY <1>1, <1>3 DEF LoopRecord, LoopPc
<1>5. /\ loops' = [loops EXCEPT ![w] = l] /\ watchers' = watchers /\ heap' = heap
      /\ index' = index /\ UNCHANGED <<fileVars, hist>> /\ disk' = disk
      /\ \/ /\ o.ok /\ caches' = [caches EXCEPT ![c] = NoCache]
            /\ threads' = RacedBy(c, threads) /\ states' = states /\ clients' = clients
         \/ /\ ~o.ok /\ states' = [states EXCEPT ![c] = 0]
            /\ clients' = [clients EXCEPT ![c] = 0] /\ caches' = caches /\ threads' = threads
  BY <1>3 DEF WatchApply, LoopUnchanged, fileVars, Invalidated
<1>6. /\ DOMAIN loops' = DOMAIN loops /\ loops'[w] = l /\ LoopsTyped'
      /\ \A v \in DOMAIN loops \ {w} : loops'[v] = loops[v]
  BY <1>2, <1>4, <1>5, LoopMoves
<1>7. /\ \A e \in Config \ {c} : states'[e] = states[e] /\ clients'[e] = clients[e]
      /\ \A e \in Config : states'[e] \in {0, states[e]} /\ clients'[e] \in {0, clients[e]}
      /\ ~o.ok => states'[c] = 0 /\ clients'[c] = 0
      /\ MapsTyped'
  <2>1. /\ states \in [Config -> 0 .. Len(heap)] /\ clients \in [Config -> 0 .. Len(heap)]
        /\ heap \in Seq(Object) /\ 0 \in 0 .. Len(heap)
    BY <1>2 DEF MapsTyped
  <2>2. c \in Config /\ heap' = heap
    BY <1>1, <1>5
  <2>3. \/ o.ok /\ states' = states /\ clients' = clients
        \/ /\ ~o.ok /\ states' = [states EXCEPT ![c] = 0]
           /\ clients' = [clients EXCEPT ![c] = 0]
    BY <1>5
  <2> HIDE DEF o, c
  <2>4. CASE o.ok /\ states' = states /\ clients' = clients
    BY ONLY <2>1, <2>2, <2>4 DEF MapsTyped
  <2>5. CASE ~o.ok /\ states' = [states EXCEPT ![c] = 0] /\ clients' = [clients EXCEPT ![c] = 0]
    <3>1. /\ states' \in [Config -> 0 .. Len(heap)] /\ states'[c] = 0
          /\ \A e \in Config \ {c} : states'[e] = states[e]
      BY ONLY <2>1, <2>2, <2>5
    <3>2. /\ clients' \in [Config -> 0 .. Len(heap)] /\ clients'[c] = 0
          /\ \A e \in Config \ {c} : clients'[e] = clients[e]
      BY ONLY <2>1, <2>2, <2>5
    <3>3. MapsTyped'
      BY ONLY <2>1, <2>2, <3>1, <3>2 DEF MapsTyped
    <3>4. \A e \in Config : e = c \/ e \in Config \ {c}
      OBVIOUS
    <3> QED  BY ONLY <3>1, <3>2, <3>3, <3>4
  <2> QED  BY <2>3, <2>4, <2>5
<1>8. /\ \A e \in Config : caches'[e] \in {NoCache, caches[e]}
      /\ o.ok => caches'[c] = NoCache
      /\ CachesTyped' /\ IndexTyped'
  <2>1. NoCache \in CacheRecord
    BY DEF NoCache, CacheRecord
  <2> QED  BY <1>1, <1>2, <1>5, <2>1 DEF CachesTyped, IndexTyped
<1>9. /\ ThreadsTyped' /\ \A y \in Thread : Later(threads[y], threads'[y])
      /\ o.ok /\ threads'["main"].pc = "cache" /\ heap[threads'["main"].st].path = c =>
           threads'["main"].late
  <2>1. CASE o.ok
    <3>1. threads' = RacedBy(c, threads) /\ threads \in [Thread -> ThreadRecord]
      BY <1>2, <1>5, <2>1 DEF ThreadsTyped
    <3> QED  BY <3>1, RacedFacts DEF ThreadsTyped
  <2>2. CASE ~o.ok
    BY <1>2, <1>5, <2>2, SameLater
  <2> QED  BY <2>1, <2>2
<1>10. HeapStep
  <2>1. \A i \in 1 .. Len(heap) : heap[i].path \in Config
    BY <1>2, ObjectFields
  <2> QED  BY <1>2, <1>5, <1>7, <2>1 DEF HeapStep
<1>11. LoopFits(l)'
  <2>1. /\ o.cl # 0 => Fits(o.cl, c)
        /\ o.cl # 0 /\ Home(o.cl) => o.cl = o.st
        /\ Home(o.st) => Current(o.st) \/ o.armed
        /\ o.moving => c = Custom
    BY <1>1 DEF LoopFits
  <2>2. l.cl # 0 => Fits(l.cl, l.cfg)'
    <3>1. l.cl # 0 => l.cl \in 1 .. Len(heap) /\ Fits(l.cl, l.cfg)
      BY <1>1, <1>2, <1>4, <2>1
    <3> QED  BY <1>2, <1>10, <3>1, FitsStays
  <2>3. ASSUME l.cl # 0, Home(l.cl)' PROVE Current(l.cl)' \/ l.armed
    <3>1. l.cl \in 1 .. Len(heap) /\ Home(l.cl)
      BY <1>1, <1>2, <1>4, <1>10, <2>3 DEF Home, HeapStep
    <3>2. l.cl = o.st /\ (Current(l.cl) \/ l.armed)
      BY <1>4, <2>1, <2>3, <3>1
    <3> QED  BY <1>5, <3>2 DEF Current, Readable
  <2> QED  BY <1>1, <1>4, <1>5, <2>1, <2>2, <2>3 DEF LoopFits
<1>12. /\ FilesTyped' /\ HistTyped' /\ LoopsFit' /\ ThreadsFit' /\ NotStarted' /\ OneLoads'
       /\ OthersLater("main")
  BY <1>4, <1>5, <1>7, <1>9, <1>10, <1>11, LoopStepFits
<1>13. MapsFit' /\ WatchersFit'
  <2>1. MapsFit'
    BY <1>2, <1>7, <1>10, MapsKept
  <2>2. WatchersFit'
    <3>1. \A e \in Config : watchers[e] # 0 => watchers[e] \in DOMAIN loops
      BY <1>2 DEF LoopsTyped
    <3>2. \A v \in DOMAIN loops : loops'[v].cfg = loops[v].cfg
      BY <1>4, <1>6
    <3> QED  BY <1>2, <1>5, <3>1, <3>2 DEF WatchersFit
  <2> QED  BY <2>1, <2>2
<1>14. \A e \in Dir : threads'[e].pc = threads[e].pc /\ threads'[e].armed = threads[e].armed
  BY <1>9, Constants DEF Later
<1>15. IndexDone'
  <2>1. \A e \in Dir : IndexDue(e) => IndexDue(e)'
    BY <1>4, <1>6, <1>14 DEF IndexDue
  <2>2. \A e \in Dir : Gone(e)' => Gone(e)
    BY <1>5 DEF Gone
  <2>3. "main" \in Thread
    BY Constants
  <2> QED  BY <1>2, <1>5, <1>9, <1>12, <2>1, <2>2, <2>3, IndexQuiet
<1>16. StatesDone'
  <2>1. ASSUME NEW e \in Config, states[e] # 0, states'[e] = states[e], StateDue(e)
        PROVE  StateDue(e)'
    <3>1. PICK v \in DOMAIN loops :
            /\ loops[v].cfg = e
            /\ \/ loops[v].armed
               \/ loops[v].pc = "reload" /\ loops[v].st = states[e]
               \/ loops[v].pc = "apply" /\ ~loops[v].ok
      BY <2>1 DEF StateDue
    <3>2. v = w => o.armed
      BY <1>1, <1>7, <2>1, <3>1
    <3> QED  BY <1>4, <1>6, <2>1, <3>1, <3>2 DEF StateDue
  <2> QED  BY <1>2, <1>5, <1>7, <1>10, <2>1, StatesKept
<1>17. ClientsDone'
  <2>1. ASSUME NEW e \in Config, clients[e] # 0, clients'[e] = clients[e], ClientDue(e)
        PROVE  ClientDue(e)'
    <3>1. PICK v \in DOMAIN loops :
            /\ loops[v].cfg = e
            /\ \/ loops[v].armed
               \/ loops[v].pc \in {"reload", "apply", "client"} /\ loops[v].cl = clients[e]
               \/ loops[v].pc = "reload" /\ loops[v].st = clients[e]
               \/ loops[v].pc = "apply" /\ ~loops[v].ok
      BY <2>1 DEF ClientDue
    <3>2. v = w => o.armed \/ o.cl = clients[e]
      BY <1>1, <1>7, <2>1, <3>1
    <3> QED  BY <1>4, <1>6, <2>1, <3>1, <3>2 DEF ClientDue
  <2> QED  BY <1>2, <1>5, <1>7, <1>10, <2>1, ClientsKept
<1>18. CachesDone'
  <2>1. "main" \in Thread /\ ThreadFits("main", threads["main"])
        /\ ThreadFits("main", threads["main"])'
    BY <1>2, <1>12, Constants DEF ThreadsFit
  <2>2. \A i \in 1 .. Len(heap) : ~(heap'[i].ver # heap[i].ver)
    BY <1>5
  <2>3. ASSUME NEW e \in Config, CacheDue(e)
        PROVE  CacheDue(e)' \/ Told(e) \/ \A id \in 1 .. Len(heap) : states'[e] # id
    <3>1. CASE e = c /\ o.ok
      BY <1>5, <1>8, <1>9, <3>1 DEF Told
    <3>2. CASE e = c /\ ~o.ok
      BY <1>7, <3>2
    <3>3. CASE e # c
      BY <1>6, <1>14, <2>3, <3>3 DEF CacheDue
    <3> QED  BY <3>1, <3>2, <3>3
  <2>4. At("main", "cache")' /\ ~threads'["main"].late =>
              /\ At("main", "cache") /\ ~threads["main"].late
              /\ threads'["main"].st = threads["main"].st
              /\ threads'["main"].ver = threads["main"].ver
    BY <1>9, <2>1 DEF At, Later
  <2> QED  BY <1>2, <1>7, <1>8, <1>10, <2>1, <2>2, <2>3, <2>4, CachesKept
<1> QED  BY <1>6, <1>7, <1>8, <1>9, <1>12, <1>13, <1>15, <1>16, <1>17, <1>18
         DEF CoreInv, CoreTyped, CoreFits, CoreDone

(* A loop has the client reload its own state.                             *)
LEMMA WatchClientKeeps ==
  ASSUME CoreInv, NEW w \in DOMAIN loops, WatchClient(w)
  PROVE  CoreInv'
<1> DEFINE o == loops[w]
           c == o.cfg
<1>1. /\ o \in LoopRecord /\ LoopFits(o) /\ o.pc = "client" /\ c \in Config
      /\ o.cl \in 1 .. Len(heap) /\ Fits(o.cl, c) /\ o.st \in 0 .. Len(heap)
      /\ Home(o.cl) => Current(o.cl) \/ o.armed
  <2>1. o \in LoopRecord /\ LoopFits(o) /\ o.pc = "client" /\ c \in Config
    BY LoopFields DEF WatchClient
  <2> QED  BY <2>1, CoreParts DEF LoopFits
<1>2. /\ FilesTyped /\ MapsTyped /\ LoopsTyped /\ ThreadsTyped /\ IndexTyped /\ CachesTyped
      /\ MapsFit /\ WatchersFit /\ LoopsFit /\ ThreadsFit
      /\ IndexDone /\ StatesDone /\ ClientsDone /\ CachesDone /\ Len(heap) \in Nat
  BY CoreParts
<1>3. PICK l : l = [o EXCEPT !.pc = "index"]
  OBVIOUS
<1>4. /\ l \in LoopRecord /\ l.cfg = c /\ l.pc = "index" /\ l.armed = o.armed
      /\ l.moving = o.moving /\ l.st = o.st /\ l.cl = o.cl
  BY <1>1, <1>3 DEF LoopRecord, LoopPc
<1>5. /\ loops' = [loops EXCEPT ![w] = l] /\ watchers' = watchers
      /\ states' = states /\ clients' = clients /\ heap' = Reloaded(heap, o.cl)
      /\ threads' = threads /\ index' = index /\ caches' = caches
      /\ UNCHANGED <<fileVars, hist>> /\ disk' = disk
  BY <1>3 DEF WatchClient, LoopUnchanged, fileVars
<1>6. /\ DOMAIN loops' = DOMAIN loops /\ loops'[w] = l /\ LoopsTyped'
      /\ \A v \in DOMAIN loops \ {w} : loops'[v] = loops[v]
  BY <1>2, <1>4, <1>5, LoopMoves
<1>7. /\ MapsTyped' /\ HeapStep /\ Len(heap') = Len(heap)
      /\ \A i \in 1 .. Len(heap) :
           heap'[i].path = heap[i].path /\ (i # o.cl => heap'[i].ver = heap[i].ver)
      /\ Readable(o.cl) => heap'[o.cl].ver = disk[heap[o.cl].path].ver
      /\ Current(o.cl) => heap'[o.cl].ver = heap[o.cl].ver
      /\ \A i \in 1 .. Len(heap) : Home(i)' => Home(i)
  BY <1>1, <1>5, ReloadFacts
<1>8. /\ IndexTyped' /\ CachesTyped' /\ ThreadsTyped'
      /\ \A y \in Thread : Later(threads[y], threads'[y])
  <2>1. IndexTyped' /\ CachesTyped'
    BY <1>2, <1>5 DEF IndexTyped, CachesTyped
  <2> QED  BY <1>2, <1>5, <2>1, SameLater
<1>9. LoopFits(l)'
  <2>1. (o.moving => c = Custom) /\ l.cl \in 1 .. Len(heap) /\ Fits(l.cl, l.cfg)
    BY <1>1, <1>4 DEF LoopFits
  <2>2. Fits(l.cl, l.cfg)'
    BY <1>2, <1>7, <2>1, FitsStays
  <2> QED  BY <1>1, <1>2, <1>4, <1>7, <2>1, <2>2 DEF LoopFits
<1>10. /\ FilesTyped' /\ HistTyped' /\ LoopsFit' /\ ThreadsFit' /\ NotStarted' /\ OneLoads'
       /\ OthersLater("main")
  BY <1>4, <1>5, <1>7, <1>8, <1>9, LoopStepFits
<1>11. MapsFit' /\ WatchersFit'
  <2>1. MapsFit'
    BY <1>2, <1>5, <1>7, MapsKept
  <2>2. WatchersFit'
    <3>1. \A e \in Config : watchers[e] # 0 => watchers[e] \in DOMAIN loops
      BY <1>2 DEF LoopsTyped
    <3>2. \A v \in DOMAIN loops : loops'[v].cfg = loops[v].cfg
      BY <1>4, <1>6
    <3> QED  BY <1>2, <1>5, <3>1, <3>2 DEF WatchersFit
  <2> QED  BY <2>1, <2>2
<1>12. IndexDone'
  <2>1. \A e \in Dir : IndexDue(e) => IndexDue(e)'
    BY <1>4, <1>5, <1>6 DEF IndexDue
  <2>2. \A e \in Dir : Gone(e)' => Gone(e)
    BY <1>5 DEF Gone
  <2> QED  BY <1>2, <1>5, <1>8, <1>10, <2>1, <2>2, IndexQuiet, Constants
<1>13. StatesDone'
  <2>1. \A e \in Config : StateDue(e) => StateDue(e)'
    BY <1>1, <1>4, <1>5, <1>6 DEF StateDue
  <2> QED  BY <1>2, <1>5, <1>7, <2>1, StatesKept
<1>14. ClientsDone'
  <2>1. ASSUME NEW e \in Config, clients[e] # 0, heap[clients[e]].path = e, ClientDue(e),
               disk[e].state = "good"
        PROVE  ClientDue(e)' \/ heap'[clients[e]].ver = disk[e].ver
    <3>1. CASE o.cl = clients[e]
      BY <1>7, <2>1, <3>1 DEF Readable
    <3>2. CASE o.cl # clients[e]
      BY <1>1, <1>4, <1>5, <1>6, <2>1, <3>2 DEF ClientDue
    <3> QED  BY <3>1, <3>2
  <2> QED  BY <1>2, <1>5, <1>7, <2>1, ClientsKept
<1>15. CachesDone'
  <2>1. "main" \in Thread /\ ThreadFits("main", threads["main"])
        /\ ThreadFits("main", threads["main"])'
    BY <1>2, <1>10, Constants DEF ThreadsFit
  <2>2. \A e \in Config : caches'[e] \in {NoCache, caches[e]}
    BY <1>5
  <2>3. ASSUME NEW i \in 1 .. Len(heap), Home(i)', heap'[i].ver # heap[i].ver
        PROVE  CacheDue(heap[i].path)'
    <3>1. i = o.cl /\ Home(i)
      BY <1>7, <2>3
    <3>2. heap[i].path = c /\ o.armed
      BY <1>1, <1>7, <2>3, <3>1 DEF Fits, Home
    <3>3. heap'[i].path = c
      BY <1>7, <3>2
    <3> QED  BY <1>4, <1>6, <3>2, <3>3 DEF CacheDue
  <2>4. \A e \in Config : CacheDue(e) => CacheDue(e)'
    BY <1>1, <1>4, <1>5, <1>6 DEF CacheDue
  <2>5. At("main", "cache")' /\ ~threads'["main"].late =>
              /\ At("main", "cache") /\ ~threads["main"].late
              /\ threads'["main"].st = threads["main"].st
              /\ threads'["main"].ver = threads["main"].ver
    BY <1>5 DEF At
  <2> QED  BY <1>2, <1>7, <2>1, <2>2, <2>3, <2>4, <2>5, CachesKept
<1> QED  BY <1>6, <1>7, <1>8, <1>10, <1>11, <1>12, <1>13, <1>14, <1>15
         DEF CoreInv, CoreTyped, CoreFits, CoreDone

(* A loop ends with invalidateIndexForConfig.                              *)
LEMMA WatchIndexKeeps ==
  ASSUME CoreInv, NEW w \in DOMAIN loops, WatchIndex(w)
  PROVE  CoreInv'
<1> DEFINE o == loops[w]
           c == o.cfg
<1>1. o \in LoopRecord /\ LoopFits(o) /\ o.pc = "index" /\ c \in Config
  BY LoopFields DEF WatchIndex
<1>2. /\ FilesTyped /\ MapsTyped /\ LoopsTyped /\ ThreadsTyped /\ IndexTyped /\ CachesTyped
      /\ MapsFit /\ WatchersFit /\ LoopsFit /\ ThreadsFit
      /\ IndexDone /\ StatesDone /\ ClientsDone /\ CachesDone /\ Len(heap) \in Nat
  BY CoreParts
<1>3. PICK l : l = [NewLoop(c) EXCEPT !.armed = o.armed, !.moving = o.moving]
  OBVIOUS
<1>4. /\ l \in LoopRecord /\ l.cfg = c /\ l.pc = "idle" /\ l.armed = o.armed
      /\ l.moving = o.moving /\ l.st = 0 /\ l.cl = 0
  <2>1. o.armed \in BOOLEAN /\ o.moving \in BOOLEAN
    BY <1>1 DEF LoopRecord
  <2> QED  BY <1>1, <1>3, <2>1 DEF NewLoop, LoopRecord, LoopPc
<1>5. /\ loops' = [loops EXCEPT ![w] = l] /\ watchers' = watchers
      /\ states' = states /\ clients' = clients /\ heap' = heap /\ caches' = caches
      /\ UNCHANGED <<fileVars, hist>> /\ disk' = disk
      /\ threads' = LateBy(c, threads) /\ index' = WithoutConfig(c)
  BY <1>3 DEF WatchIndex, LoopUnchanged, fileVars
<1>6. /\ DOMAIN loops' = DOMAIN loops /\ loops'[w] = l /\ LoopsTyped'
      /\ \A v \in DOMAIN loops \ {w} : loops'[v] = loops[v]
  BY <1>2, <1>4, <1>5, LoopMoves
<1>7. /\ ThreadsTyped' /\ \A y \in Thread : Later(threads[y], threads'[y])
      /\ \A y \in Thread : threads'[y].pc = "record" /\ threads'[y].cfg = c => threads'[y].late
  BY <1>2, <1>5, LateFacts DEF ThreadsTyped
<1>8. /\ IndexTyped' /\ \A p \in Path : index'[p] = IF index[p] = c THEN None ELSE index[p]
  BY <1>2, <1>5 DEF IndexTyped, WithoutConfig
<1>9. MapsTyped' /\ CachesTyped' /\ HeapStep
  BY <1>2, <1>5, HeapStays DEF MapsTyped, CachesTyped
<1>10. LoopFits(l)'
  <2>1. o.moving => c = Custom
    BY <1>1 DEF LoopFits
  <2> QED  BY <1>2, <1>4, <1>5, <2>1 DEF LoopFits
<1>11. /\ FilesTyped' /\ HistTyped' /\ LoopsFit' /\ ThreadsFit' /\ NotStarted' /\ OneLoads'
       /\ OthersLater("main")
  BY <1>4, <1>5, <1>7, <1>9, <1>10, LoopStepFits
<1>12. MapsFit' /\ WatchersFit'
  <2>1. MapsFit'
    BY <1>2, <1>5 DEF MapsFit, Fits
  <2>2. WatchersFit'
    <3>1. \A e \in Config : watchers[e] # 0 => watchers[e] \in DOMAIN loops
      BY <1>2 DEF LoopsTyped
    <3>2. \A v \in DOMAIN loops : loops'[v].cfg = loops[v].cfg
      BY <1>4, <1>6
    <3> QED  BY <1>2, <1>5, <3>1, <3>2 DEF WatchersFit
  <2> QED  BY <2>1, <2>2
<1>13. \A e \in Dir : threads'[e].pc = threads[e].pc /\ threads'[e].armed = threads[e].armed
  BY <1>7, Constants DEF Later
<1>14. IndexDone'
  <2>1. \A e \in Dir : Gone(e)' => Gone(e)
    BY <1>5 DEF Gone
  <2>2. \A p \in Path : \/ index'[p] = None \/ p \in hist'.late
                        \/ index'[p] = index[p] /\ p \notin hist.late
    BY <1>5, <1>8
  <2>3. ASSUME NEW y \in Thread, At(y, "record")', ~threads'[y].late
        PROVE  /\ threads'[y].cfg \in Dir
               /\ At(y, "record") /\ ~threads[y].late /\ threads'[y].cfg = threads[y].cfg
    <3>1. ResolveFits(threads[y])' /\ Later(threads[y], threads'[y])
      BY <1>7, <1>11 DEF ThreadsFit, ThreadFits
    <3> QED  BY <2>3, <3>1 DEF ResolveFits, At, Later
  <2>4. ASSUME NEW e \in Dir, IndexDue(e)
        PROVE  \/ IndexDue(e)'
               \/ /\ \A p \in Path : index'[p] # e
                  /\ \A y \in Thread : At(y, "record")' /\ threads'[y].cfg = e => threads'[y].late
    <3>1. CASE e = c
      BY <1>7, <1>8, <3>1, Constants DEF At
    <3>2. CASE e # c
      BY <1>6, <1>13, <2>4, <3>2 DEF IndexDue
    <3> QED  BY <3>1, <3>2
  <2> QED  BY <1>2, <1>8, <2>1, <2>2, <2>3, <2>4, IndexKept
<1>15. StatesDone'
  <2>1. \A e \in Config : StateDue(e) => StateDue(e)'
    BY <1>1, <1>4, <1>5, <1>6 DEF StateDue
  <2> QED  BY <1>2, <1>5, <1>9, <2>1, StatesKept
<1>16. ClientsDone'
  <2>1. \A e \in Config : ClientDue(e) => ClientDue(e)'
    BY <1>1, <1>4, <1>5, <1>6 DEF ClientDue
  <2> QED  BY <1>2, <1>5, <1>9, <2>1, ClientsKept
<1>17. CachesDone'
  <2>1. \A e \in Config : CacheDue(e) => CacheDue(e)'
    BY <1>1, <1>4, <1>6, <1>13 DEF CacheDue
  <2>2. "main" \in Thread
    BY Constants
  <2> QED  BY <1>2, <1>5, <1>7, <1>9, <1>11, <2>1, <2>2, CachesQuiet
<1> QED  BY <1>6, <1>7, <1>8, <1>9, <1>11, <1>12, <1>14, <1>15, <1>16, <1>17
         DEF CoreInv, CoreTyped, CoreFits, CoreDone

(* A loop keeps the invariant.                                             *)
LEMMA WatchLoopKeeps ==
  ASSUME CfgInv, NEW w \in DOMAIN loops, WatchLoop(w)
  PROVE  CfgInv'
<1>1. CoreInv /\ RestTyped /\ PromptsDone /\ ThreadsTyped
  BY DEF CfgInv, CoreInv, CoreTyped
<1>2. CoreInv'
  BY <1>1, WatchMoveKeeps, WatchFireKeeps, WatchReloadKeeps, WatchApplyKeeps, WatchClientKeeps,
     WatchIndexKeeps DEF WatchLoop
<1>3. /\ initConfig' = initConfig /\ accounts' = accounts /\ promptShown' = promptShown
      /\ asked' = asked
  BY DEF WatchLoop, WatchMove, WatchFire, WatchReload, WatchApply, WatchClient, WatchIndex,
         LoopUnchanged, optionVars, promptVars
<1>4. \A y \in Thread : Later(threads[y], threads'[y])
  <2>1. PICK c : /\ c = loops[w].cfg
                 /\ \/ threads' = threads \/ threads' = RacedBy(c, threads)
                    \/ threads' = LateBy(c, threads)
    BY DEF WatchLoop, WatchMove, WatchFire, WatchReload, WatchApply, WatchClient, WatchIndex
  <2> QED  BY <1>1, <2>1, SameLater, RacedFacts, LateFacts DEF ThreadsTyped
<1>5. RestTyped'
  BY <1>1, <1>3 DEF RestTyped
<1>6. PromptsDone'
  BY <1>1, <1>3, <1>4, Constants DEF PromptsDone, Later
<1> QED  BY <1>2, <1>5, <1>6 DEF CfgInv

(* What thread d of a directory has between its timer and its end.         *)
LEMMA DirFields ==
  ASSUME CoreInv, NEW d \in Dir, threads[d].pc # "idle"
  PROVE  /\ d \in Thread /\ d \in Config /\ d # "main" /\ d # "prompt"
         /\ threads[d] \in ThreadRecord /\ ResolveFits(threads[d]) /\ DirFits(d, threads[d])
         /\ threads[d].on /\ threads[d].kind = "reload"
         /\ threads[d].st \in 0 .. Len(heap) /\ threads[d].cl \in 0 .. Len(heap)
         /\ ~At("main", "start")
<1>1. d \in Thread /\ d \in Config /\ d # "main" /\ d # "prompt"
  BY Constants
<1>2. threads[d] \in ThreadRecord /\ ThreadFits(d, threads[d])
  BY <1>1, CoreParts DEF ThreadsTyped, ThreadsFit
<1>3. ResolveFits(threads[d]) /\ DirFits(d, threads[d])
  BY <1>2 DEF ThreadFits
<1>4. ~At("main", "start")
  BY <1>1, CoreParts DEF NotStarted
<1> QED  BY <1>1, <1>2, <1>3, <1>4 DEF ResolveFits, DirFits

(* A step of the thread of directory d: what it keeps whatever it does.    *)
LEMMA DirStepFits ==
  ASSUME CoreInv, NEW d \in Dir, threads[d].pc # "idle", ThreadsTyped', OthersLater(d),
         ThreadFits(d, threads[d])', threads'[d].pc \notin {"start", "watch"},
         HeapStep, MapsTyped', UNCHANGED <<fileVars, watchers, loops, hist>>
  PROVE  /\ FilesTyped' /\ LoopsTyped' /\ HistTyped' /\ WatchersFit' /\ LoopsFit'
         /\ ThreadsFit' /\ NotStarted' /\ OneLoads' /\ disk' = disk /\ loops' = loops
         /\ \A e \in Config : Gone(e)' => Gone(e)
         /\ \A e \in Dir \ {d} :
              threads'[e].pc = threads[e].pc /\ threads'[e].armed = threads[e].armed
<1>1. d \in Thread /\ ~At("main", "start")
  BY DirFields
<1>2. /\ FilesTyped /\ MapsTyped /\ LoopsTyped /\ ThreadsTyped /\ HistTyped
      /\ WatchersFit /\ LoopsFit /\ ThreadsFit /\ NotStarted /\ OneLoads
  BY CoreParts
<1>3. FilesTyped' /\ LoopsTyped' /\ HistTyped' /\ WatchersFit' /\ disk' = disk /\ loops' = loops
  BY <1>2 DEF fileVars, FilesTyped, LoopsTyped, HistTyped, WatchersFit
<1>4. LoopsFit'
  BY <1>2, <1>3, LoopsKept
<1>5. ThreadsFit' /\ NotStarted' /\ OneLoads'
  BY <1>1, <1>2, <1>3, ThreadsKept
<1>6. \A e \in Config : Gone(e)' => Gone(e)
  BY <1>3 DEF Gone
<1>7. \A e \in Dir \ {d} :
        threads'[e].pc = threads[e].pc /\ threads'[e].armed = threads[e].armed
  BY Constants DEF OthersLater, Later
<1> QED  BY <1>3, <1>4, <1>5, <1>6, <1>7

(* The states and the clients need no repair from the thread of d.         *)
LEMMA DirStepDone ==
  ASSUME CoreInv, HeapStep, MapsTyped', UNCHANGED <<fileVars, loops, hist>>,
         \A e \in Config : states'[e] \in {0, states[e]} /\ clients'[e] \in {0, clients[e]}
  PROVE  MapsFit' /\ StatesDone' /\ ClientsDone'
<1>1. /\ FilesTyped /\ MapsTyped /\ MapsFit /\ StatesDone /\ ClientsDone /\ disk' = disk
      /\ hist' = hist /\ loops' = loops
  BY CoreParts DEF fileVars
<1>2. \A e \in Config : states'[e] = states[e] /\ StateDue(e) => StateDue(e)'
  BY <1>1 DEF StateDue
<1>3. \A e \in Config : clients'[e] = clients[e] /\ ClientDue(e) => ClientDue(e)'
  BY <1>1 DEF ClientDue
<1>4. MapsFit'
  BY <1>1, MapsKept
<1>5. StatesDone'
  BY <1>1, <1>2, StatesKept
<1>6. ClientsDone'
  BY <1>1, <1>3, ClientsKept
<1> QED  BY <1>4, <1>5, <1>6

(* The timer of a directory fires.                                         *)
LEMMA DirFireKeeps ==
  ASSUME CoreInv, NEW d \in Dir, DirFire(d)
  PROVE  CoreInv' /\ OthersLater(d)
<1> DEFINE o == threads[d]
<1>1. /\ MapsTyped /\ ThreadsTyped /\ MapsFit /\ ThreadsFit /\ NotStarted /\ Len(heap) \in Nat
  BY CoreParts
<1>2. /\ d \in Thread /\ d \in Config /\ d \in Path /\ d # "main" /\ d # "prompt"
      /\ o \in ThreadRecord /\ ThreadFits(d, o)
  BY <1>1, Constants DEF ThreadsTyped, ThreadsFit
<1>3. o.armed /\ o.on /\ ~At("main", "start")
  BY <1>1, <1>2 DEF DirFire, NotStarted, ThreadFits, DirFits
<1>4. PICK to : to = IF disk[d].state = "none" THEN "gone"
                     ELSE IF states[d] # 0 THEN "reload" ELSE "find"
  OBVIOUS
<1>5. PICK t : t = [o EXCEPT !.armed = FALSE, !.pc = to, !.kind = "reload", !.path = d,
                             !.cfg = d, !.st = states[d], !.cl = clients[d]]
  OBVIOUS
<1>6. states[d] \in 0 .. Len(heap) /\ clients[d] \in 0 .. Len(heap)
  BY <1>1, <1>2 DEF MapsTyped
<1>7. /\ t \in ThreadRecord /\ t.pc = to /\ t.kind = "reload" /\ t.path = d /\ t.cfg = d
      /\ t.st = states[d] /\ t.cl = clients[d] /\ t.on /\ to \in {"gone", "reload", "find"}
  <2>1. /\ to \in {"gone", "reload", "find"} /\ to \in DirPc /\ "reload" \in Kind
        /\ states[d] \in Nat /\ clients[d] \in Nat
    BY <1>1, <1>4, <1>6 DEF DirPc, Kind
  <2> QED  BY <1>2, <1>3, <1>5, <2>1 DEF ThreadRecord
<1>8. ThreadFits(d, t)
  <2>1. /\ states[d] # 0 => Fits(states[d], d)
        /\ clients[d] # 0 => Fits(clients[d], d)
    BY <1>1, <1>2 DEF MapsFit
  <2>2. clients[d] # 0 /\ Home(clients[d]) => clients[d] = states[d]
    BY <2>1 DEF Home, Fits
  <2>3. DirFits(d, t)
    BY <1>4, <1>7, <2>1, <2>2 DEF DirFits, DirPc
  <2>4. ResolveFits(t)
    BY <1>2, <1>6, <1>7 DEF ResolveFits
  <2> QED  BY <1>2, <2>3, <2>4 DEF ThreadFits
<1>9. /\ threads' = [threads EXCEPT ![d] = t]
      /\ UNCHANGED <<fileVars, heap, states, clients, watchers, loops, index, caches, hist>>
  BY <1>4, <1>5 DEF DirFire, DirUnchanged
<1>10. ThreadMoves(d, t)
  BY <1>2, <1>3, <1>4, <1>7, <1>8, <1>9 DEF ThreadMoves
<1>11. CoreInv'
  BY <1>2, <1>10, ThreadMovesKeep
<1>12. OthersLater(d)
  BY <1>1, <1>9 DEF OthersLater, Later, ThreadsTyped
<1> QED  BY <1>11, <1>12

(* It reloads the state that it took, and the resolvers are told.          *)
LEMMA DirReloadKeeps ==
  ASSUME CoreInv, NEW d \in Dir, DirReload(d)
  PROVE  CoreInv' /\ OthersLater(d)
<1> DEFINE o == threads[d]
<1>1. o.pc = "reload"
  BY DEF DirReload, At
<1>2. /\ d \in Thread /\ d \in Config /\ d # "main" /\ d # "prompt" /\ o \in ThreadRecord
      /\ ResolveFits(o) /\ DirFits(d, o) /\ o.on /\ o.kind = "reload"
      /\ o.st \in 0 .. Len(heap) /\ o.cl \in 0 .. Len(heap)
  BY <1>1, DirFields
<1>3. /\ MapsTyped /\ ThreadsTyped /\ IndexTyped /\ CachesTyped /\ ThreadsFit
      /\ IndexDone /\ CachesDone /\ Len(heap) \in Nat
  BY CoreParts
<1>4. /\ o.st \in 1 .. Len(heap) /\ Fits(o.st, d)
      /\ o.cl # 0 => Fits(o.cl, d) /\ (Home(o.cl) => o.cl = o.st)
  BY <1>1, <1>2, <1>3 DEF DirFits
<1>5. PICK t : t = [o EXCEPT !.pc = After(d)]
  OBVIOUS
<1>6. /\ t \in ThreadRecord /\ t.pc = (IF o.cl # 0 THEN "client" ELSE "index")
      /\ t.armed = o.armed /\ t.on /\ t.kind = "reload" /\ t.st = o.st /\ t.cl = o.cl
  <2>1. After(d) = IF o.cl # 0 THEN "client" ELSE "index"
    BY <1>2 DEF After
  <2> QED  BY <1>2, <1>5, <2>1 DEF ThreadRecord, DirPc
<1>7. PICK u : u = [threads EXCEPT ![d] = t]
  OBVIOUS
<1>8. /\ threads' = RacedBy(d, u) /\ heap' = Reloaded(heap, o.st) /\ states' = states
      /\ caches' = [caches EXCEPT ![d] = NoCache]
      /\ clients' = clients /\ index' = index /\ UNCHANGED <<fileVars, watchers, loops, hist>>
  BY <1>5, <1>7 DEF DirReload, DirUnchanged, Invalidated
<1>9. /\ u \in [Thread -> ThreadRecord] /\ u[d] = t
      /\ \A y \in Thread \ {d} : u[y] = threads[y]
  BY <1>2, <1>3, <1>6, <1>7 DEF ThreadsTyped
<1>10. /\ ThreadsTyped' /\ \A y \in Thread : Later(u[y], threads'[y])
       /\ threads'["main"].pc = "cache" /\ heap[threads'["main"].st].path = d =>
            threads'["main"].late
  BY <1>8, <1>9, RacedFacts DEF ThreadsTyped
<1>11. OthersLater(d) /\ threads'[d] = t
  <2>1. threads'[d] = u[d]
    BY <1>2, <1>8, <1>9 DEF RacedBy
  <2> QED  BY <1>9, <1>10, <2>1 DEF OthersLater
<1>12. /\ MapsTyped' /\ HeapStep /\ Len(heap') = Len(heap)
       /\ \A i \in 1 .. Len(heap) :
            heap'[i].path = heap[i].path /\ (i # o.st => heap'[i].ver = heap[i].ver)
       /\ Current(t.st)' /\ \A i \in 1 .. Len(heap) : Home(i)' => Home(i)
  <2>1. t.st = o.st /\ t.st \in 1 .. Len(heap) /\ heap' = Reloaded(heap, t.st)
    BY <1>4, <1>6, <1>8
  <2> QED  BY <1>8, <2>1, ReloadFacts DEF fileVars
<1>13. /\ CachesTyped' /\ IndexTyped' /\ caches'[d] = NoCache
       /\ \A e \in Config : caches'[e] \in {NoCache, caches[e]}
  <2>1. NoCache \in CacheRecord
    BY DEF NoCache, CacheRecord
  <2> QED  BY <1>2, <1>3, <1>8, <2>1 DEF CachesTyped, IndexTyped
<1>14. ThreadFits(d, threads[d])'
  <2>1. t.cl # 0 => Fits(t.cl, d)'
    <3>1. t.cl # 0 => t.cl \in 1 .. Len(heap) /\ Fits(t.cl, d)
      BY <1>2, <1>3, <1>4, <1>6
    <3> QED  BY <1>3, <1>12, <3>1, FitsStays
  <2>2. t.cl # 0 /\ Home(t.cl)' => Current(t.cl)'
    <3>1. t.cl # 0 => t.cl \in 1 .. Len(heap)
      BY <1>2, <1>3, <1>6
    <3>2. t.cl # 0 /\ Home(t.cl)' => t.cl = t.st
      BY <1>4, <1>6, <1>12, <3>1
    <3> QED  BY <1>12, <3>2
  <2>3. DirFits(d, t)'
    BY <1>6, <2>1, <2>2 DEF DirFits, DirPc
  <2>4. ResolveFits(t)'
    BY <1>2, <1>6, <1>12 DEF ResolveFits
  <2>5. ThreadFits(d, t)'
    BY <1>2, <2>3, <2>4 DEF ThreadFits
  <2> QED  BY <1>11, <2>5
<1>15. /\ FilesTyped' /\ LoopsTyped' /\ HistTyped' /\ WatchersFit' /\ LoopsFit'
       /\ ThreadsFit' /\ NotStarted' /\ OneLoads' /\ disk' = disk /\ loops' = loops
       /\ \A e \in Config : Gone(e)' => Gone(e)
       /\ \A e \in Dir \ {d} :
            threads'[e].pc = threads[e].pc /\ threads'[e].armed = threads[e].armed
  BY <1>1, <1>6, <1>8, <1>10, <1>11, <1>12, <1>14, DirStepFits
<1>16. MapsFit' /\ StatesDone' /\ ClientsDone'
  BY <1>8, <1>12, DirStepDone
<1>17. IndexDone'
  <2>1. \A e \in Dir : IndexDue(e) => IndexDue(e)'
    BY <1>6, <1>11, <1>15 DEF IndexDue
  <2>2. \A e \in Dir : Gone(e)' => Gone(e)
    BY <1>15, Constants
  <2>3. hist' = hist
    BY <1>8
  <2> QED  BY <1>2, <1>3, <1>6, <1>8, <1>11, <1>15, <2>1, <2>2, <2>3, IndexQuiet
<1>18. CachesDone'
  <2>1. "main" \in Thread /\ ThreadFits("main", threads["main"])
        /\ ThreadFits("main", threads["main"])' /\ Later(threads["main"], threads'["main"])
    BY <1>2, <1>3, <1>11, <1>15, Constants DEF ThreadsFit, OthersLater
  <2>2. Told(d)
    <3>1. threads'["main"].pc = "cache" => threads'["main"].st \in 1 .. Len(heap)
      BY <1>3, <2>1, <1>12 DEF ThreadFits, ResolveFits
    <3> QED  BY <1>10, <1>12, <1>13, <3>1 DEF Told
  <2>3. ASSUME NEW i \in 1 .. Len(heap), Home(i)', heap'[i].ver # heap[i].ver
        PROVE  Told(heap[i].path)
    <3>1. i = o.st /\ Home(i)
      BY <1>12, <2>3
    <3>2. heap[i].path = d
      BY <1>4, <3>1 DEF Fits, Home
    <3> QED  BY <2>2, <3>2
  <2>4. ASSUME NEW e \in Config, CacheDue(e)
        PROVE  CacheDue(e)' \/ Told(e)
    <3>1. CASE e = d
      BY <2>2, <3>1
    <3>2. CASE e # d
      BY <1>15, <2>4, <3>2 DEF CacheDue
    <3> QED  BY <3>1, <3>2
  <2>5. At("main", "cache")' /\ ~threads'["main"].late =>
              /\ At("main", "cache") /\ ~threads["main"].late
              /\ threads'["main"].st = threads["main"].st
              /\ threads'["main"].ver = threads["main"].ver
    BY <2>1 DEF At, Later
  <2> QED  BY <1>3, <1>12, <1>13, <2>1, <2>3, <2>4, <2>5, CachesKept
<1> QED  BY <1>10, <1>11, <1>12, <1>13, <1>15, <1>16, <1>17, <1>18
         DEF CoreInv, CoreTyped, CoreFits, CoreDone

(* It has the client reload its own state.                                 *)
LEMMA DirClientKeeps ==
  ASSUME CoreInv, NEW d \in Dir, DirClient(d)
  PROVE  CoreInv' /\ OthersLater(d)
<1> DEFINE o == threads[d]
<1>1. o.pc = "client"
  BY DEF DirClient, At
<1>2. /\ d \in Thread /\ d \in Config /\ d # "main" /\ d # "prompt" /\ o \in ThreadRecord
      /\ ResolveFits(o) /\ DirFits(d, o) /\ o.on /\ o.kind = "reload"
      /\ o.st \in 0 .. Len(heap) /\ o.cl \in 0 .. Len(heap)
  BY <1>1, DirFields
<1>3. /\ MapsTyped /\ ThreadsTyped /\ IndexTyped /\ CachesTyped /\ ThreadsFit
      /\ IndexDone /\ CachesDone /\ Len(heap) \in Nat
  BY CoreParts
<1>4. /\ o.cl \in 1 .. Len(heap) /\ Fits(o.cl, d) /\ (Home(o.cl) => Current(o.cl) \/ o.armed)
  BY <1>1, <1>2, <1>3 DEF DirFits
<1>5. PICK t : t = [o EXCEPT !.pc = "index"]
  OBVIOUS
<1>6. /\ t \in ThreadRecord /\ t.pc = "index" /\ t.armed = o.armed /\ t.on
      /\ t.kind = "reload" /\ t.st = o.st /\ t.cl = o.cl
  BY <1>2, <1>5 DEF ThreadRecord, DirPc
<1>7. /\ threads' = [threads EXCEPT ![d] = t] /\ heap' = Reloaded(heap, o.cl)
      /\ states' = states /\ caches' = caches
      /\ clients' = clients /\ index' = index /\ UNCHANGED <<fileVars, watchers, loops, hist>>
  BY <1>5 DEF DirClient, DirUnchanged
<1>8. ThreadsTyped' /\ OthersLater(d) /\ threads'[d] = t
  BY <1>2, <1>3, <1>6, <1>7 DEF ThreadsTyped, OthersLater, Later
<1>9. /\ MapsTyped' /\ HeapStep /\ Len(heap') = Len(heap)
      /\ \A i \in 1 .. Len(heap) :
           heap'[i].path = heap[i].path /\ (i # o.cl => heap'[i].ver = heap[i].ver)
      /\ Current(o.cl) => heap'[o.cl].ver = heap[o.cl].ver
      /\ \A i \in 1 .. Len(heap) : Home(i)' => Home(i)
  BY <1>4, <1>7, ReloadFacts DEF fileVars
<1>10. CachesTyped' /\ IndexTyped'
  BY <1>3, <1>7 DEF CachesTyped, IndexTyped
<1>11. ThreadFits(d, threads[d])'
  <2>1. Fits(t.cl, d)'
    BY <1>3, <1>4, <1>6, <1>9, FitsStays
  <2>2. DirFits(d, t)'
    BY <1>6, <2>1 DEF DirFits, DirPc
  <2>3. ResolveFits(t)'
    BY <1>2, <1>6, <1>9 DEF ResolveFits
  <2>4. ThreadFits(d, t)'
    BY <1>2, <2>2, <2>3 DEF ThreadFits
  <2> QED  BY <1>8, <2>4
<1>12. /\ FilesTyped' /\ LoopsTyped' /\ HistTyped' /\ WatchersFit' /\ LoopsFit'
       /\ ThreadsFit' /\ NotStarted' /\ OneLoads' /\ disk' = disk /\ loops' = loops
       /\ \A e \in Config : Gone(e)' => Gone(e)
       /\ \A e \in Dir \ {d} :
            threads'[e].pc = threads[e].pc /\ threads'[e].armed = threads[e].armed
  BY <1>1, <1>6, <1>7, <1>8, <1>9, <1>11, DirStepFits
<1>13. MapsFit' /\ StatesDone' /\ ClientsDone'
  BY <1>7, <1>9, DirStepDone
<1>14. IndexDone'
  <2>1. \A e \in Dir : IndexDue(e) => IndexDue(e)'
    BY <1>6, <1>8, <1>12 DEF IndexDue
  <2>2. \A e \in Dir : Gone(e)' => Gone(e)
    BY <1>12, Constants
  <2>3. hist' = hist
    BY <1>7
  <2> QED  BY <1>2, <1>3, <1>6, <1>7, <1>8, <1>12, <2>1, <2>2, <2>3, IndexQuiet
<1>15. CachesDone'
  <2>1. "main" \in Thread /\ ThreadFits("main", threads["main"])
        /\ ThreadFits("main", threads["main"])' /\ Later(threads["main"], threads'["main"])
    BY <1>2, <1>3, <1>8, <1>12, Constants DEF ThreadsFit, OthersLater
  <2>2. ASSUME NEW i \in 1 .. Len(heap), Home(i)', heap'[i].ver # heap[i].ver
        PROVE  CacheDue(heap[i].path)'
    <3>1. i = o.cl /\ Home(i)
      BY <1>9, <2>2
    <3>2. heap[i].path = d /\ o.armed
      BY <1>4, <1>9, <2>2, <3>1 DEF Fits, Home
    <3>3. heap'[i].path = d
      BY <1>9, <3>2
    <3> QED  BY <1>6, <1>8, <3>2, <3>3 DEF CacheDue
  <2>3. \A e \in Config : CacheDue(e) => CacheDue(e)'
    BY <1>1, <1>6, <1>8, <1>12 DEF CacheDue
  <2>4. At("main", "cache")' /\ ~threads'["main"].late =>
              /\ At("main", "cache") /\ ~threads["main"].late
              /\ threads'["main"].st = threads["main"].st
              /\ threads'["main"].ver = threads["main"].ver
    BY <2>1 DEF At, Later
  <2>5. \A e \in Config : caches'[e] \in {NoCache, caches[e]}
    BY <1>7
  <2> QED  BY <1>3, <1>9, <2>1, <2>2, <2>3, <2>4, <2>5, CachesKept
<1> QED  BY <1>8, <1>9, <1>10, <1>12, <1>13, <1>14, <1>15
         DEF CoreInv, CoreTyped, CoreFits, CoreDone

(* A thread of a directory at rest.                                        *)
LEMMA DirRestFacts ==
  ASSUME ThreadsTyped, NEW d \in Dir
  PROVE  /\ DirRest(d) \in ThreadRecord /\ DirRest(d).pc = "idle" /\ DirRest(d).on
         /\ DirRest(d).armed = threads[d].armed /\ DirRest(d).kind = "none"
         /\ DirRest(d).st = 0 /\ DirRest(d).cl = 0
<1>1. threads[d].armed \in BOOLEAN
  BY Constants DEF ThreadsTyped, ThreadRecord
<1>2. IdleThread \in ThreadRecord /\ IdleThread.pc = "idle" /\ IdleThread.st = 0
      /\ IdleThread.cl = 0 /\ IdleThread.kind = "none"
  BY DEF IdleThread, ThreadRecord, MainPc, Kind
<1> QED  BY <1>1, <1>2 DEF DirRest, ThreadRecord

(* It drops the index entries, and rests if flow.json is there.            *)
LEMMA DirIndexKeeps ==
  ASSUME CoreInv, NEW d \in Dir, DirIndex(d)
  PROVE  CoreInv' /\ OthersLater(d)
<1> DEFINE o == threads[d]
<1>1. o.pc \in {"index", "gone"}
  BY DEF DirIndex
<1>2. /\ d \in Thread /\ d \in Config /\ d # "main" /\ d # "prompt" /\ o \in ThreadRecord
      /\ ResolveFits(o) /\ DirFits(d, o) /\ o.on /\ o.kind = "reload"
      /\ o.st \in 0 .. Len(heap) /\ o.cl \in 0 .. Len(heap)
  BY <1>1, DirFields
<1>3. /\ MapsTyped /\ ThreadsTyped /\ IndexTyped /\ CachesTyped /\ ThreadsFit
      /\ IndexDone /\ CachesDone /\ Len(heap) \in Nat
  BY CoreParts
<1>4. PICK t : t = IF o.pc = "gone" THEN [o EXCEPT !.pc = "drop"] ELSE DirRest(d)
  OBVIOUS
<1>5. /\ t \in ThreadRecord /\ t.armed = o.armed /\ t.on
      /\ t.pc = (IF o.pc = "gone" THEN "drop" ELSE "idle")
      /\ t.pc = "drop" => t.kind = "reload" /\ t.st = o.st /\ t.cl = o.cl
      /\ t.pc = "idle" => t.st = 0 /\ t.cl = 0
  <2>1. CASE o.pc = "gone"
    BY <1>2, <1>4, <2>1 DEF ThreadRecord, DirPc
  <2>2. CASE o.pc # "gone"
    BY <1>3, <1>4, <2>2, DirRestFacts
  <2> QED  BY <2>1, <2>2
<1>6. PICK u : u = [threads EXCEPT ![d] = t]
  OBVIOUS
<1>7. /\ threads' = LateBy(d, u) /\ heap' = heap /\ states' = states /\ caches' = caches
      /\ clients' = clients /\ index' = WithoutConfig(d)
      /\ UNCHANGED <<fileVars, watchers, loops, hist>>
  BY <1>4, <1>6 DEF DirIndex, DirUnchanged
<1>8. /\ u \in [Thread -> ThreadRecord] /\ u[d] = t
      /\ \A y \in Thread \ {d} : u[y] = threads[y]
  BY <1>2, <1>3, <1>5, <1>6 DEF ThreadsTyped
<1>9. /\ ThreadsTyped' /\ \A y \in Thread : Later(u[y], threads'[y])
      /\ \A y \in Thread : threads'[y].pc = "record" /\ threads'[y].cfg = d => threads'[y].late
  BY <1>7, <1>8, LateFacts DEF ThreadsTyped
<1>10. OthersLater(d) /\ threads'[d] = t
  <2>1. threads'[d] = u[d]
    BY <1>2, <1>5, <1>7, <1>8 DEF LateBy
  <2> QED  BY <1>8, <1>9, <2>1 DEF OthersLater
<1>11. /\ IndexTyped' /\ CachesTyped' /\ MapsTyped' /\ HeapStep
       /\ \A p \in Path : index'[p] = IF index[p] = d THEN None ELSE index[p]
  <2>1. MapsTyped' /\ HeapStep /\ CachesTyped'
    BY <1>3, <1>7, HeapStays DEF MapsTyped, CachesTyped
  <2>2. IndexTyped' /\ \A p \in Path : index'[p] = IF index[p] = d THEN None ELSE index[p]
    BY <1>3, <1>7 DEF IndexTyped, WithoutConfig
  <2> QED  BY <2>1, <2>2
<1>12. ThreadFits(d, threads[d])'
  <2>1. o.cl # 0 => Fits(o.cl, d)
    BY <1>1, <1>2 DEF DirFits
  <2>2. DirFits(d, t)
    BY <1>5, <2>1 DEF DirFits, DirPc
  <2>3. ResolveFits(t)
    BY <1>2, <1>3, <1>5 DEF ResolveFits
  <2>4. ThreadFits(d, t)
    BY <1>2, <2>2, <2>3 DEF ThreadFits
  <2>5. ThreadFits(d, t)'
    BY <1>2, <1>3, <1>5, <1>7, <1>11, <2>4, ThreadFitsStays DEF Later, fileVars
  <2> QED  BY <1>10, <2>5
<1>13. /\ FilesTyped' /\ LoopsTyped' /\ HistTyped' /\ WatchersFit' /\ LoopsFit'
       /\ ThreadsFit' /\ NotStarted' /\ OneLoads' /\ disk' = disk /\ loops' = loops
       /\ \A e \in Config : Gone(e)' => Gone(e)
       /\ \A e \in Dir \ {d} :
            threads'[e].pc = threads[e].pc /\ threads'[e].armed = threads[e].armed
  BY <1>1, <1>5, <1>7, <1>9, <1>10, <1>11, <1>12, DirStepFits
<1>14. MapsFit' /\ StatesDone' /\ ClientsDone'
  BY <1>7, <1>11, DirStepDone
<1>15. IndexDone'
  <2>1. \A e \in Dir : Gone(e)' => Gone(e)
    BY <1>13, Constants
  <2>2. \A p \in Path : \/ index'[p] = None \/ p \in hist'.late
                        \/ index'[p] = index[p] /\ p \notin hist.late
    BY <1>7, <1>11
  <2>3. ASSUME NEW y \in Thread, At(y, "record")', ~threads'[y].late
        PROVE  /\ threads'[y].cfg \in Dir
               /\ At(y, "record") /\ ~threads[y].late /\ threads'[y].cfg = threads[y].cfg
    <3>1. y # d
      BY <1>5, <1>10, <2>3 DEF At
    <3>2. ResolveFits(threads[y])' /\ Later(threads[y], threads'[y])
      BY <1>10, <1>13, <3>1 DEF ThreadsFit, ThreadFits, OthersLater
    <3> QED  BY <2>3, <3>2 DEF ResolveFits, At, Later
  <2>4. ASSUME NEW e \in Dir, IndexDue(e)
        PROVE  \/ IndexDue(e)'
               \/ /\ \A p \in Path : index'[p] # e
                  /\ \A y \in Thread : At(y, "record")' /\ threads'[y].cfg = e => threads'[y].late
    <3>1. CASE e = d
      BY <1>9, <1>11, <3>1, Constants DEF At
    <3>2. CASE e # d
      BY <1>13, <2>4, <3>2 DEF IndexDue
    <3> QED  BY <3>1, <3>2
  <2> QED  BY <1>3, <1>11, <2>1, <2>2, <2>3, <2>4, IndexKept
<1>16. CachesDone'
  <2>1. \A e \in Config : CacheDue(e) => CacheDue(e)'
    BY <1>1, <1>5, <1>10, <1>13 DEF CacheDue
  <2>2. \A id \in 1 .. Len(heap) : heap'[id].ver = heap[id].ver
    BY <1>7
  <2> QED  BY <1>2, <1>3, <1>5, <1>7, <1>10, <1>11, <1>13, <2>1, <2>2, CachesQuiet
<1> QED  BY <1>9, <1>10, <1>11, <1>13, <1>14, <1>15, <1>16
         DEF CoreInv, CoreTyped, CoreFits, CoreDone

(* State and client of a flow.json that is gone are dropped.               *)
LEMMA DirDropKeeps ==
  ASSUME CoreInv, NEW d \in Dir, DirDrop(d)
  PROVE  CoreInv' /\ OthersLater(d)
<1> DEFINE o == threads[d]
<1>1. o.pc = "drop"
  BY DEF DirDrop, At
<1>2. d \in Thread /\ d \in Config /\ d # "main" /\ d # "prompt" /\ o \in ThreadRecord
  BY <1>1, DirFields
<1>3. /\ MapsTyped /\ ThreadsTyped /\ IndexTyped /\ CachesTyped /\ ThreadsFit
      /\ IndexDone /\ CachesDone /\ Len(heap) \in Nat
  BY CoreParts
<1>4. PICK t : t = DirRest(d)
  OBVIOUS
<1>5. /\ t \in ThreadRecord /\ t.armed = o.armed /\ t.on /\ t.pc = "idle" /\ t.st = 0
      /\ t.cl = 0
  BY <1>3, <1>4, DirRestFacts
<1>6. /\ threads' = [threads EXCEPT ![d] = t] /\ heap' = heap /\ caches' = caches
      /\ states' = [states EXCEPT ![d] = 0] /\ clients' = [clients EXCEPT ![d] = 0]
      /\ index' = index /\ UNCHANGED <<fileVars, watchers, loops, hist>>
  BY <1>4 DEF DirDrop, DirUnchanged
<1>7. ThreadsTyped' /\ OthersLater(d) /\ threads'[d] = t
  BY <1>2, <1>3, <1>5, <1>6 DEF ThreadsTyped, OthersLater, Later
<1>8. /\ MapsTyped' /\ states'[d] = 0
      /\ \A e \in Config : states'[e] \in {0, states[e]} /\ clients'[e] \in {0, clients[e]}
  <2>1. /\ states \in [Config -> 0 .. Len(heap)] /\ clients \in [Config -> 0 .. Len(heap)]
        /\ heap \in Seq(Object) /\ 0 \in 0 .. Len(heap)
    BY <1>3 DEF MapsTyped
  <2>2. /\ states' \in [Config -> 0 .. Len(heap)] /\ states'[d] = 0
        /\ \A e \in Config : states'[e] \in {0, states[e]}
    BY ONLY <1>2, <1>6, <2>1
  <2>3. /\ clients' \in [Config -> 0 .. Len(heap)]
        /\ \A e \in Config : clients'[e] \in {0, clients[e]}
    BY ONLY <1>2, <1>6, <2>1
  <2> QED  BY <1>6, <2>1, <2>2, <2>3 DEF MapsTyped
<1>9. HeapStep
  <2>1. \A i \in 1 .. Len(heap) : heap[i].path \in Config
    BY <1>3, ObjectFields
  <2> QED  BY <1>3, <1>6, <1>8, <2>1 DEF HeapStep
<1>10. CachesTyped' /\ IndexTyped'
  BY <1>3, <1>6 DEF CachesTyped, IndexTyped
<1>11. ThreadFits(d, threads[d])'
  <2>1. DirFits(d, t)'
    BY <1>5 DEF DirFits, DirPc
  <2>2. ResolveFits(t)'
    BY <1>3, <1>5, <1>6 DEF ResolveFits
  <2>3. ThreadFits(d, t)'
    BY <1>2, <2>1, <2>2 DEF ThreadFits
  <2> QED  BY <1>7, <2>3
<1>12. /\ FilesTyped' /\ LoopsTyped' /\ HistTyped' /\ WatchersFit' /\ LoopsFit'
       /\ ThreadsFit' /\ NotStarted' /\ OneLoads' /\ disk' = disk /\ loops' = loops
       /\ \A e \in Config : Gone(e)' => Gone(e)
       /\ \A e \in Dir \ {d} :
            threads'[e].pc = threads[e].pc /\ threads'[e].armed = threads[e].armed
  BY <1>1, <1>5, <1>6, <1>7, <1>8, <1>9, <1>11, DirStepFits
<1>13. MapsFit' /\ StatesDone' /\ ClientsDone'
  BY <1>6, <1>8, <1>9, DirStepDone
<1>14. IndexDone'
  <2>1. \A e \in Dir : IndexDue(e) => IndexDue(e)'
    BY <1>1, <1>5, <1>7, <1>12 DEF IndexDue
  <2>2. \A e \in Dir : Gone(e)' => Gone(e)
    BY <1>12, Constants
  <2>3. hist' = hist
    BY <1>6
  <2> QED  BY <1>2, <1>3, <1>5, <1>6, <1>7, <1>12, <2>1, <2>2, <2>3, IndexQuiet
<1>15. CachesDone'
  <2>1. ASSUME NEW e \in Config, CacheDue(e)
        PROVE  CacheDue(e)' \/ \A id \in 1 .. Len(heap) : states'[e] # id
    <3>1. CASE e = d
      BY <1>8, <3>1
    <3>2. CASE e # d
      BY <1>12, <2>1, <3>2 DEF CacheDue
    <3> QED  BY <3>1, <3>2
  <2>2. \A id \in 1 .. Len(heap) : heap'[id].ver = heap[id].ver
    BY <1>6
  <2> QED  BY <1>2, <1>3, <1>5, <1>6, <1>7, <1>8, <1>9, <1>12, <2>1, <2>2, CachesQuiet
<1> QED  BY <1>7, <1>8, <1>10, <1>12, <1>13, <1>14, <1>15
         DEF CoreInv, CoreTyped, CoreFits, CoreDone

(* The thread of a directory keeps the invariant.                          *)
LEMMA DirLoopKeeps ==
  ASSUME CfgInv, NEW d \in Dir, DirLoop(d)
  PROVE  CfgInv'
<1>1. CoreInv /\ RestTyped /\ PromptsDone
  BY DEF CfgInv
<1>2. CoreInv' /\ OthersLater(d)
  BY <1>1, DirFireKeeps, DirReloadKeeps, DirClientKeeps, DirIndexKeeps, DirDropKeeps DEF DirLoop
<1>3. /\ initConfig' = initConfig /\ accounts' = accounts /\ promptShown' = promptShown
      /\ asked' = asked
  BY DEF DirLoop, DirFire, DirReload, DirClient, DirIndex, DirDrop, DirUnchanged, optionVars,
         promptVars
<1>4. RestTyped'
  BY <1>1, <1>3 DEF RestTyped
<1>5. PromptsDone'
  BY <1>1, <1>2, <1>3, Constants DEF PromptsDone, OthersLater, Later
<1> QED  BY <1>2, <1>4, <1>5 DEF CfgInv

(* An idle thread.                                                         *)
LEMMA IdleFacts ==
  ASSUME MapsTyped
  PROVE  /\ IdleThread \in ThreadRecord /\ IdleThread.pc = "idle" /\ IdleThread.kind = "none"
         /\ IdleThread.path = None /\ IdleThread.cfg = None /\ IdleThread.st = 0
         /\ IdleThread.cl = 0 /\ ~IdleThread.armed /\ ~IdleThread.on /\ ~IdleThread.late
         /\ IdleThread.ver = 0 /\ IdleThread.todo = {}
         /\ ThreadFits("main", IdleThread) /\ ThreadFits("prompt", IdleThread)
<1>1. /\ IdleThread \in ThreadRecord /\ IdleThread.pc = "idle" /\ IdleThread.kind = "none"
      /\ IdleThread.path = None /\ IdleThread.cfg = None /\ IdleThread.st = 0
      /\ IdleThread.cl = 0 /\ ~IdleThread.armed /\ ~IdleThread.on /\ ~IdleThread.late
      /\ IdleThread.ver = 0 /\ IdleThread.todo = {}
  BY DEF IdleThread, ThreadRecord, MainPc, Kind
<1>2. ResolveFits(IdleThread)
  BY <1>1 DEF ResolveFits, MapsTyped
<1>3. MainFits(IdleThread) /\ PromptFits(IdleThread)
  BY <1>1 DEF MainFits, PromptFits, MainPc, PromptPc
<1> QED  BY <1>1, <1>2, <1>3, Constants DEF ThreadFits

(* What main has.                                                          *)
LEMMA MainFields ==
  ASSUME CoreInv
  PROVE  /\ "main" \in Thread /\ threads["main"] \in ThreadRecord
         /\ ThreadFits("main", threads["main"])
         /\ ResolveFits(threads["main"]) /\ MainFits(threads["main"])
         /\ threads["main"].st \in 0 .. Len(heap) /\ threads["main"].cl \in 0 .. Len(heap)
<1>1. /\ "main" \in Thread /\ threads["main"] \in ThreadRecord
      /\ ThreadFits("main", threads["main"])
  BY CoreParts, Constants DEF ThreadsTyped, ThreadsFit
<1>2. ResolveFits(threads["main"]) /\ MainFits(threads["main"])
  BY <1>1 DEF ThreadFits
<1> QED  BY <1>1, <1>2 DEF ResolveFits

(* A step that only moves main keeps the invariant.                        *)
LEMMA MainMovesKeep ==
  ASSUME CfgInv, NEW t, ThreadMoves("main", t), UNCHANGED <<optionVars, promptVars>>
  PROVE  CfgInv'
<1>1. CoreInv /\ RestTyped /\ PromptsDone /\ "main" \in Thread /\ "prompt" \in Thread
  BY Constants DEF CfgInv
<1>2. CoreInv'
  BY <1>1, ThreadMovesKeep
<1>3. threads'["prompt"] = threads["prompt"]
  BY <1>1, CoreParts DEF ThreadMoves, ThreadsTyped
<1>4. RestTyped' /\ PromptsDone'
  BY <1>1, <1>3 DEF RestTyped, PromptsDone, optionVars, promptVars
<1> QED  BY <1>2, <1>4 DEF CfgInv

(* So does one in which main ends its request.                             *)
LEMMA MainEndsKeep ==
  ASSUME CfgInv, ~At("main", "start"), threads' = [threads EXCEPT !["main"] = IdleThread],
         UNCHANGED <<fileVars, heap, states, clients, watchers, loops, index, caches, hist>>,
         UNCHANGED <<optionVars, promptVars>>
  PROVE  CfgInv'
<1>1. MapsTyped
  BY CoreParts DEF CfgInv
<1>2. ThreadMoves("main", IdleThread)
  BY <1>1, IdleFacts, Constants DEF ThreadMoves
<1> QED  BY <1>2, MainMovesKeep

(* A step in which no thread moves.                                        *)
LEMMA Unmoved ==
  ASSUME CoreInv,
         UNCHANGED <<fileVars, heap, states, clients, watchers, loops, threads, index, caches, hist>>
  PROVE  CoreInv'
<1>1. /\ disk' = disk /\ writes' = writes /\ heap' = heap /\ states' = states
      /\ clients' = clients /\ watchers' = watchers /\ loops' = loops /\ threads' = threads
      /\ index' = index /\ caches' = caches /\ hist' = hist
  BY DEF fileVars
<1>2. CoreTyped'
  BY <1>1, CoreParts DEF CoreTyped, FilesTyped, MapsTyped, LoopsTyped, ThreadsTyped, IndexTyped,
                         CachesTyped, HistTyped
<1>3. MapsFit' /\ WatchersFit' /\ NotStarted' /\ OneLoads'
  BY <1>1, CoreParts DEF MapsFit, Fits, WatchersFit, NotStarted, OneLoads, At
<1>4. LoopsFit'
  BY <1>1, CoreParts DEF LoopsFit, LoopFits, Fits, Home, Current, Readable
<1>5. ThreadsFit'
  BY <1>1, CoreParts DEF ThreadsFit, ThreadFits, ResolveFits, MainFits, PromptFits, DirFits,
                         Fits, Home, Current, Readable
<1>6. IndexDone'
  BY <1>1, CoreParts DEF IndexDone, IndexDue, Gone, At
<1>7. StatesDone' /\ ClientsDone'
  BY <1>1, CoreParts DEF StatesDone, StateDue, ClientsDone, ClientDue
<1>8. CachesDone'
  BY <1>1, CoreParts DEF CachesDone, CacheDue, Made, Home
<1> QED  BY <1>2, <1>3, <1>4, <1>5, <1>6, <1>7, <1>8 DEF CoreInv, CoreFits, CoreDone

(* A request begins.                                                       *)
LEMMA BeginKeeps ==
  ASSUME CfgInv, NEW kind \in {"open", "client", "import", "access", "reloadAll"},
         NEW pc \in {"find", "load", "reloadAll"}, NEW p \in Path \cup {None},
         NEW c \in Config \cup {None}, NEW todo \in SUBSET (1 .. Len(heap)),
         pc = "find" => p \in Path, pc = "load" => c \in Config,
         Begin(kind, pc, p, c, todo), UNCHANGED promptVars
  PROVE  CfgInv'
<1>1. CoreInv /\ MapsTyped /\ Len(heap) \in Nat
  BY CoreParts DEF CfgInv
<1>2. PICK t : t = [IdleThread EXCEPT !.kind = kind, !.pc = pc, !.path = p, !.cfg = c,
                                      !.todo = todo]
  OBVIOUS
<1>3. /\ t \in ThreadRecord /\ t.kind = kind /\ t.pc = pc /\ t.path = p /\ t.cfg = c
      /\ t.todo = todo /\ t.st = 0 /\ t.cl = 0
  <2>1. /\ kind \in Kind /\ pc \in MainPc \cup PromptPc \cup DirPc
        /\ todo \in SUBSET (Nat \cup Dir)
    BY <1>1 DEF Kind, MainPc
  <2> QED  BY <1>1, <1>2, <2>1, IdleFacts DEF ThreadRecord
<1>4. ThreadFits("main", t)
  <2>1. ResolveFits(t)
    BY <1>1, <1>3 DEF ResolveFits
  <2>2. MainFits(t)
    BY <1>3 DEF MainFits, MainPc
  <2> QED  BY <2>1, <2>2, Constants DEF ThreadFits
<1>5. ThreadMoves("main", t)
  BY <1>2, <1>3, <1>4, Constants DEF ThreadMoves, Begin, mapVars, At
<1> QED  BY <1>5, MainMovesKeep DEF Begin

(* reloadConfig begins.                                                    *)
LEMMA ReloadAllKeeps ==
  ASSUME CfgInv, ReloadAll
  PROVE  CfgInv'
<1>1. MapsTyped /\ Len(heap) \in Nat
  BY CoreParts DEF CfgInv
<1>2. {states[c] : c \in Config} \ {0} \in SUBSET (1 .. Len(heap))
  <2>1. \A c \in Config : states[c] # 0 => states[c] \in 1 .. Len(heap)
    BY <1>1 DEF MapsTyped
  <2> QED  BY <2>1
<1> QED  BY <1>2, BeginKeeps DEF ReloadAll

(* didOpenInitHook where there is a configuration, the commands, the       *)
(* imports and the access of an account.                                   *)
LEMMA RequestsKeep ==
  ASSUME CfgInv, NEW p \in Doc,
         OpenInProject(p) \/ CommandFor(p) \/ AddressImport(p) \/ StringImport(p)
           \/ AccountAccess(p)
  PROVE  CfgInv'
<1>1. CoreInv /\ RestTyped /\ MapsTyped /\ Len(heap) \in Nat
  BY CoreParts DEF CfgInv
<1>2. p \in Path /\ ProjectOf(p) \in Config /\ {} \in SUBSET (1 .. Len(heap))
  BY <1>1, ProjectFacts, Constants
<1>3. CASE OpenInProject(p)
  <2>1. FindNearest(p) \in Path
    BY <1>2, <1>3, NearestFacts, Constants DEF OpenInProject
  <2> QED  BY <1>2, <1>3, <2>1, BeginKeeps DEF OpenInProject
<1>4. CASE CommandFor(p)
  BY <1>2, <1>4, BeginKeeps DEF CommandFor
<1>5. CASE AddressImport(p)
  BY <1>2, <1>5, BeginKeeps DEF AddressImport
<1>6. CASE StringImport(p)
  BY <1>2, <1>6, BeginKeeps DEF StringImport
<1>7. CASE AccountAccess(p)
  BY <1>2, <1>7, BeginKeeps DEF AccountAccess
<1> QED  BY <1>3, <1>4, <1>5, <1>6, <1>7

(* The access of an account builds its map from the state.                 *)
LEMMA AccessBuildKeeps ==
  ASSUME CfgInv, AccessBuild
  PROVE  CfgInv'
<1> DEFINE o == threads["main"]
<1>1. CoreInv /\ MapsTyped /\ Len(heap) \in Nat
  BY CoreParts DEF CfgInv
<1>2. /\ o \in ThreadRecord /\ ResolveFits(o) /\ MainFits(o) /\ o.pc = "access"
      /\ o.st \in 0 .. Len(heap) /\ o.cl \in 0 .. Len(heap)
  BY <1>1, MainFields DEF AccessBuild, At
<1>3. CASE o.st = 0 \/ caches[heap[o.st].path] # NoCache
  <2>1. threads' = [threads EXCEPT !["main"] = IdleThread]
    BY <1>3 DEF AccessBuild
  <2> QED  BY <1>2, <2>1, MainEndsKeep DEF AccessBuild, mapVars, At
<1>4. CASE ~(o.st = 0 \/ caches[heap[o.st].path] # NoCache)
  <2>1. PICK t : t = [o EXCEPT !.pc = "cache", !.ver = heap[o.st].ver, !.late = FALSE]
    OBVIOUS
  <2>2. /\ t \in ThreadRecord /\ t.pc = "cache" /\ t.ver = heap[o.st].ver /\ t.st = o.st
        /\ t.cl = o.cl /\ t.kind = o.kind
    <3>1. heap[o.st].ver \in Nat
      BY <1>1, <1>2, <1>4, ObjectFields, Constants
    <3> QED  BY <1>2, <2>1, <3>1 DEF ThreadRecord, MainPc
  <2>3. ThreadFits("main", t)
    <3>1. ResolveFits(t)
      BY <1>2, <1>4, <2>2 DEF ResolveFits
    <3>2. MainFits(t)
      BY <1>2, <2>2 DEF MainFits, MainPc
    <3> QED  BY <3>1, <3>2, Constants DEF ThreadFits
  <2>4. threads' = [threads EXCEPT !["main"] = t]
    BY <1>4, <2>1 DEF AccessBuild
  <2>5. ThreadMoves("main", t)
    BY <1>2, <2>2, <2>3, <2>4, Constants DEF ThreadMoves, AccessBuild, mapVars, At
  <2> QED  BY <2>5, MainMovesKeep DEF AccessBuild
<1> QED  BY <1>3, <1>4

(* The map is cached.                                                      *)
LEMMA AccessCacheKeeps ==
  ASSUME CfgInv, AccessCache
  PROVE  CfgInv'
<1> DEFINE o == threads["main"]
<1>1. CoreInv /\ RestTyped /\ PromptsDone
  BY DEF CfgInv
<1>2. /\ FilesTyped /\ MapsTyped /\ LoopsTyped /\ ThreadsTyped /\ IndexTyped /\ CachesTyped
      /\ HistTyped /\ MapsFit /\ WatchersFit /\ LoopsFit /\ ThreadsFit /\ NotStarted
      /\ OneLoads /\ IndexDone /\ StatesDone /\ ClientsDone /\ CachesDone
      /\ Len(heap) \in Nat
  BY <1>1, CoreParts
<1>3. /\ "main" \in Thread /\ "prompt" \in Thread /\ o \in ThreadRecord /\ ResolveFits(o)
      /\ ThreadFits("main", o) /\ o.pc = "cache" /\ o.st \in 1 .. Len(heap)
  <2>1. o.pc = "cache"
    BY DEF AccessCache, At
  <2> QED  BY <1>1, <1>2, <2>1, MainFields, Constants DEF ResolveFits
<1>4. PICK r : r = [st |-> o.st, ver |-> o.ver, raced |-> o.late]
  OBVIOUS
<1>5. r \in CacheRecord /\ heap[o.st].path \in Config
  BY <1>2, <1>3, <1>4, ThreadFields, ObjectFields DEF CacheRecord
<1>6. /\ threads' = [threads EXCEPT !["main"] = IdleThread] /\ heap' = heap
      /\ states' = states /\ clients' = clients /\ watchers' = watchers /\ loops' = loops
      /\ caches' = [caches EXCEPT ![heap[o.st].path] = r] /\ index' = index /\ hist' = hist
      /\ disk' = disk /\ writes' = writes
      /\ UNCHANGED <<optionVars, promptVars>>
  BY <1>4 DEF AccessCache, mapVars, fileVars
<1>7. /\ CachesTyped'
      /\ \A c \in Config : caches'[c] = caches[c] \/ (c = heap[o.st].path /\ caches'[c] = r)
  BY <1>2, <1>5, <1>6 DEF CachesTyped
<1>8. /\ ThreadsTyped' /\ OthersLater("main") /\ threads'["main"] = IdleThread
      /\ threads'["prompt"] = threads["prompt"]
  BY <1>2, <1>3, <1>6, IdleFacts DEF ThreadsTyped, OthersLater, Later
<1>9. FilesTyped' /\ MapsTyped' /\ LoopsTyped' /\ IndexTyped' /\ HistTyped' /\ HeapStep
  BY <1>2, <1>6, HeapStays DEF FilesTyped, MapsTyped, LoopsTyped, IndexTyped, HistTyped
<1>10. MapsFit' /\ WatchersFit' /\ LoopsFit'
  <2>1. MapsFit' /\ WatchersFit'
    BY <1>2, <1>6 DEF MapsFit, Fits, WatchersFit
  <2>2. LoopsFit'
    BY <1>2, <1>6, <1>9, LoopsKept
  <2> QED  BY <2>1, <2>2
<1>11. ThreadFits("main", threads["main"])'
  <2>1. ThreadFits("main", IdleThread) /\ Later(IdleThread, IdleThread)
    BY <1>2, IdleFacts DEF Later
  <2>2. ThreadFits("main", IdleThread)'
    BY <1>2, <1>3, <1>6, <1>9, <2>1, ThreadFitsStays, IdleFacts
  <2> QED  BY <1>8, <2>2
<1>12. ThreadsFit' /\ NotStarted' /\ OneLoads'
  BY <1>2, <1>3, <1>6, <1>8, <1>9, <1>11, ThreadsKept, IdleFacts DEF At
<1>13. LoopsGrow /\ StillDue("main")
  BY <1>6, Constants DEF LoopsGrow, StillDue
<1>14. IndexDone'
  <2>1. \A e \in Dir : Gone(e)' => Gone(e)
    BY <1>6 DEF Gone
  <2>2. \A e \in Dir : IndexDue(e) => IndexDue(e)'
    BY <1>3, <1>8, <1>13, DueStays, Constants
  <2> QED  BY <1>2, <1>3, <1>6, <1>8, <1>12, <2>1, <2>2, IndexQuiet, IdleFacts
<1>15. StatesDone' /\ ClientsDone'
  BY <1>2, <1>6 DEF StatesDone, StateDue, ClientsDone, ClientDue
<1>16. CachesDone'
  <2>1. \A e \in Config : CacheDue(e) => CacheDue(e)'
    BY <1>3, <1>8, <1>13, DueStays
  <2>2. \A id \in 1 .. Len(heap) : heap'[id].ver = heap[id].ver
    BY <1>6
  <2>3. ~At("main", "cache")' /\ At("main", "cache")
    BY <1>2, <1>3, <1>8, IdleFacts DEF At
  <2>4. ThreadFits("main", threads["main"])
    BY <1>3
  <2>5. \A c \in Config :
           \/ caches'[c] \in {NoCache, caches[c]}
           \/ /\ At("main", "cache") /\ c = heap[threads["main"].st].path
              /\ caches'[c] = [st |-> threads["main"].st, ver |-> threads["main"].ver,
                               raced |-> threads["main"].late]
    BY <1>4, <1>7, <2>3
  <2> QED  BY <1>2, <1>9, <1>11, <2>1, <2>2, <2>3, <2>4, <2>5, CachesKept
<1>17. CoreInv'
  BY <1>7, <1>8, <1>9, <1>10, <1>12, <1>14, <1>15, <1>16
     DEF CoreInv, CoreTyped, CoreFits, CoreDone
<1>18. RestTyped' /\ PromptsDone'
  BY <1>1, <1>6, <1>8 DEF RestTyped, PromptsDone, optionVars, promptVars
<1> QED  BY <1>17, <1>18 DEF CfgInv

(* reloadConfig reloads a state, or ends.                                  *)
LEMMA ReloadNextKeeps ==
  ASSUME CfgInv, ReloadNext
  PROVE  CfgInv'
<1> DEFINE o == threads["main"]
<1>1. CoreInv /\ RestTyped /\ PromptsDone
  BY DEF CfgInv
<1>2. /\ FilesTyped /\ MapsTyped /\ LoopsTyped /\ ThreadsTyped /\ IndexTyped /\ CachesTyped
      /\ HistTyped /\ MapsFit /\ WatchersFit /\ LoopsFit /\ ThreadsFit /\ NotStarted
      /\ OneLoads /\ IndexDone /\ StatesDone /\ ClientsDone /\ CachesDone
      /\ Len(heap) \in Nat
  BY <1>1, CoreParts
<1>3. /\ "main" \in Thread /\ "prompt" \in Thread /\ o \in ThreadRecord /\ ResolveFits(o)
      /\ MainFits(o) /\ ThreadFits("main", o) /\ o.pc = "reloadAll"
      /\ o.todo \subseteq 1 .. Len(heap)
  <2>1. o.pc = "reloadAll"
    BY DEF ReloadNext, At
  <2> QED  BY <1>1, <1>2, <2>1, MainFields, Constants DEF ResolveFits
<1>4. CASE threads' = [threads EXCEPT !["main"] = IdleThread] /\ UNCHANGED <<heap, caches>>
  BY <1>3, <1>4, MainEndsKeep DEF ReloadNext, At
<1>5. CASE \E id \in o.todo :
             /\ heap' = Reloaded(heap, id) /\ caches' = Invalidated(heap[id].path)
             /\ threads' = [threads EXCEPT !["main"].todo = @ \ {id}]
  <2>1. PICK id \in o.todo :
          /\ heap' = Reloaded(heap, id) /\ caches' = Invalidated(heap[id].path)
          /\ threads' = [threads EXCEPT !["main"].todo = @ \ {id}]
    BY <1>5
  <2>2. id \in 1 .. Len(heap) /\ heap[id].path \in Config
    BY <1>2, <1>3, ObjectFields
  <2>3. PICK t : t = [o EXCEPT !.todo = @ \ {id}]
    OBVIOUS
  <2>4. /\ t \in ThreadRecord /\ t.pc = o.pc /\ t.kind = o.kind /\ t.st = o.st /\ t.cl = o.cl
        /\ t.todo \subseteq o.todo
    BY <1>3, <2>3 DEF ThreadRecord
  <2>5. /\ states' = states /\ clients' = clients /\ watchers' = watchers /\ loops' = loops
        /\ index' = index /\ hist' = hist /\ disk' = disk /\ writes' = writes
        /\ caches' = [caches EXCEPT ![heap[id].path] = NoCache]
        /\ UNCHANGED <<optionVars, promptVars>>
    BY <2>1 DEF ReloadNext, fileVars, Invalidated
  <2>6. /\ threads' = [threads EXCEPT !["main"] = t] /\ ThreadsTyped' /\ OthersLater("main")
        /\ threads'["main"] = t /\ threads'["prompt"] = threads["prompt"]
    <3>1. threads' = [threads EXCEPT !["main"] = t]
      BY <2>1, <2>3
    <3> QED  BY <1>2, <1>3, <2>4, <3>1 DEF ThreadsTyped, OthersLater, Later
  <2>7. /\ MapsTyped' /\ HeapStep /\ Len(heap') = Len(heap)
        /\ \A i \in 1 .. Len(heap) :
             heap'[i].path = heap[i].path /\ (i # id => heap'[i].ver = heap[i].ver)
    BY <1>1, <2>1, <2>2, <2>5, ReloadFacts
  <2>8. /\ CachesTyped' /\ caches'[heap[id].path] = NoCache
        /\ \A e \in Config : caches'[e] \in {NoCache, caches[e]}
    <3>1. NoCache \in CacheRecord
      BY DEF NoCache, CacheRecord
    <3> QED  BY <1>2, <2>2, <2>5, <3>1 DEF CachesTyped
  <2>9. FilesTyped' /\ LoopsTyped' /\ IndexTyped' /\ HistTyped' /\ WatchersFit'
    BY <1>2, <2>5 DEF FilesTyped, LoopsTyped, IndexTyped, HistTyped, WatchersFit
  <2>10. MapsFit' /\ LoopsFit'
    <3>1. MapsFit'
      BY <1>2, <2>5, <2>7, MapsKept
    <3>2. LoopsFit'
      BY <1>2, <2>5, <2>7, <2>9, LoopsKept
    <3> QED  BY <3>1, <3>2
  <2>11. ThreadFits("main", threads["main"])'
    <3>1. ResolveFits(t)'
      BY <1>3, <2>4, <2>7 DEF ResolveFits
    <3>2. MainFits(t)'
      BY <1>3, <2>4 DEF MainFits
    <3>3. ThreadFits("main", t)'
      BY <3>1, <3>2, Constants DEF ThreadFits
    <3> QED  BY <2>6, <3>3
  <2>12. ThreadsFit' /\ NotStarted' /\ OneLoads'
    BY <1>2, <1>3, <2>4, <2>5, <2>6, <2>7, <2>11, ThreadsKept DEF At
  <2>13. LoopsGrow /\ StillDue("main")
    BY <2>5, Constants DEF LoopsGrow, StillDue
  <2>14. IndexDone'
    <3>1. \A e \in Dir : Gone(e)' => Gone(e)
      BY <2>5 DEF Gone
    <3>2. \A e \in Dir : IndexDue(e) => IndexDue(e)'
      BY <1>3, <2>6, <2>13, DueStays, Constants
    <3> QED  BY <1>2, <1>3, <2>4, <2>5, <2>6, <2>12, <3>1, <3>2, IndexQuiet
  <2>15. StatesDone' /\ ClientsDone'
    <3>1. \A e \in Config : (StateDue(e) => StateDue(e)') /\ (ClientDue(e) => ClientDue(e)')
      BY <1>3, <2>5, <2>6, <2>13, DueStays
    <3>2. StatesDone'
      BY <1>2, <2>5, <2>7, <3>1, StatesKept
    <3>3. ClientsDone'
      BY <1>2, <2>5, <2>7, <3>1, ClientsKept
    <3> QED  BY <3>2, <3>3
  <2>16. CachesDone'
    <3>1. \A e \in Config : CacheDue(e) => CacheDue(e)'
      BY <1>3, <2>6, <2>13, DueStays
    <3>2. ~At("main", "cache")'
      BY <1>3, <2>4, <2>6 DEF At
    <3>3. Told(heap[id].path)
      BY <1>3, <2>4, <2>6, <2>8 DEF Told
    <3>4. \A i \in 1 .. Len(heap) : heap'[i].ver # heap[i].ver => Told(heap[i].path)
      BY <2>7, <3>3
    <3>5. ThreadFits("main", threads["main"])
      BY <1>3
    <3> QED  BY <1>2, <2>7, <2>8, <2>11, <3>1, <3>2, <3>4, <3>5, CachesKept
  <2>17. CoreInv'
    BY <2>6, <2>7, <2>8, <2>9, <2>10, <2>12, <2>14, <2>15, <2>16
       DEF CoreInv, CoreTyped, CoreFits, CoreDone
  <2>18. RestTyped' /\ PromptsDone'
    BY <1>1, <2>5, <2>6 DEF RestTyped, PromptsDone, optionVars, promptVars
  <2> QED  BY <2>17, <2>18 DEF CfgInv
<1>6. \/ threads' = [threads EXCEPT !["main"] = IdleThread] /\ UNCHANGED <<heap, caches>>
      \/ \E id \in o.todo :
             /\ heap' = Reloaded(heap, id) /\ caches' = Invalidated(heap[id].path)
             /\ threads' = [threads EXCEPT !["main"].todo = @ \ {id}]
  BY DEF ReloadNext
<1> QED  BY <1>4, <1>5, <1>6

(* codeLenses: the thread of a directory is on.                            *)
LEMMA EnsureDirWatcherKeeps ==
  ASSUME CfgInv, NEW p \in Doc, EnsureDirWatcher(p)
  PROVE  CfgInv'
<1>1. CoreInv /\ RestTyped /\ PromptsDone /\ MapsTyped /\ ThreadsTyped /\ ThreadsFit
  BY CoreParts DEF CfgInv
<1>2. PICK d \in Dir : d = Above(p)[1]
  BY AboveFacts, Constants
<1>3. /\ d \in Thread /\ d # "main" /\ d # "prompt" /\ threads[d] \in ThreadRecord
      /\ ResolveFits(threads[d]) /\ DirFits(d, threads[d]) /\ "prompt" \in Thread
  BY <1>1, <1>2, Constants DEF ThreadsTyped, ThreadsFit, ThreadFits
<1>4. PICK t : t = [threads[d] EXCEPT !.on = TRUE]
  OBVIOUS
<1>5. /\ threads' = [threads EXCEPT ![d] = t]
      /\ UNCHANGED <<fileVars, heap, states, clients, watchers, loops, index, caches, hist>>
      /\ UNCHANGED <<optionVars, promptVars>> /\ ~At("main", "start")
  BY <1>2, <1>4 DEF EnsureDirWatcher, mapVars, At
<1>6. CASE threads[d].on
  <2>1. t = threads[d]
    BY <1>3, <1>4, <1>6 DEF ThreadRecord
  <2>2. threads' = threads
    BY <1>1, <1>5, <2>1 DEF ThreadsTyped
  <2> QED  BY <1>1, <1>5, <2>2, Unmoved DEF RestTyped, PromptsDone, optionVars, promptVars, CfgInv
<1>7. CASE ~threads[d].on
  <2>1. threads[d].pc = "idle" /\ ~threads[d].armed
    BY <1>3, <1>7 DEF DirFits
  <2>2. /\ t \in ThreadRecord /\ t.pc = "idle" /\ ~t.armed /\ t.on /\ t.st = threads[d].st
        /\ t.cl = threads[d].cl
    BY <1>3, <1>4, <2>1 DEF ThreadRecord
  <2>3. ThreadFits(d, t)
    <3>1. DirFits(d, t)
      BY <2>2 DEF DirFits, DirPc
    <3>2. ResolveFits(t)
      BY <1>3, <2>2 DEF ResolveFits
    <3> QED  BY <1>3, <3>1, <3>2 DEF ThreadFits
  <2>4. ThreadMoves(d, t)
    BY <1>3, <1>5, <2>1, <2>2, <2>3 DEF ThreadMoves
  <2>5. CoreInv'
    BY <1>1, <1>3, <2>4, ThreadMovesKeep
  <2>6. threads'["prompt"] = threads["prompt"]
    BY <1>1, <1>3, <1>5 DEF ThreadsTyped
  <2> QED  BY <1>1, <1>5, <2>5, <2>6 DEF RestTyped, PromptsDone, optionVars, promptVars, CfgInv
<1> QED  BY <1>6, <1>7

(* didOpenInitHook where there is no configuration.                        *)
LEMMA OpenWithoutProjectKeeps ==
  ASSUME CfgInv, NEW p \in Doc, OpenWithoutProject(p)
  PROVE  CfgInv'
<1>1. CoreInv /\ RestTyped /\ PromptsDone /\ MapsTyped /\ ThreadsTyped /\ "prompt" \in Thread
      /\ "prompt" \notin Dir /\ Root[p] \in Dir
  BY CoreParts, Constants, ConfigAssumption DEF CfgInv
<1>2. /\ UNCHANGED <<fileVars, heap, states, clients, watchers, loops, index, caches, hist>>
      /\ initConfig' = initConfig /\ accounts' = accounts /\ ~At("main", "start")
  BY DEF OpenWithoutProject, mapVars, optionVars, At
<1>3. CASE threads' = threads /\ asked' = asked /\ promptShown' \in {promptShown, TRUE}
  <2>1. CoreInv'
    BY <1>1, <1>2, <1>3, Unmoved
  <2>2. RestTyped' /\ PromptsDone'
    BY <1>1, <1>2, <1>3 DEF RestTyped, PromptsDone
  <2> QED  BY <2>1, <2>2 DEF CfgInv
<1>4. CASE /\ ~promptShown /\ promptShown' = TRUE
           /\ Root[p] \notin {asked[i] : i \in DOMAIN asked}
           /\ asked' = Append(asked, Root[p])
           /\ threads' = [threads EXCEPT !["prompt"] =
                 [IdleThread EXCEPT !.pc = "ask", !.path = Root[p],
                                    !.todo = threads["prompt"].todo \cup {Root[p]}]]
  <2>1. threads["prompt"].pc = "idle" /\ threads["prompt"].todo = {}
    BY <1>1, <1>4 DEF PromptsDone
  <2>2. PICK t : t = [IdleThread EXCEPT !.pc = "ask", !.path = Root[p], !.todo = {Root[p]}]
    OBVIOUS
  <2>3. /\ t \in ThreadRecord /\ t.pc = "ask" /\ t.path = Root[p] /\ t.todo = {Root[p]}
        /\ t.st = 0 /\ t.cl = 0 /\ t.kind = "none"
    <3>1. "ask" \in PromptPc /\ Root[p] \in Path /\ {Root[p]} \in SUBSET (Nat \cup Dir)
      BY <1>1, Constants DEF PromptPc
    <3> QED  BY <1>1, <2>2, <3>1, IdleFacts DEF ThreadRecord
  <2>4. threads' = [threads EXCEPT !["prompt"] = t]
    BY <1>4, <2>1, <2>2
  <2>5. ThreadFits("prompt", t)
    <3>1. ResolveFits(t)
      BY <1>1, <2>3 DEF ResolveFits, MapsTyped
    <3>2. PromptFits(t)
      BY <1>1, <2>3 DEF PromptFits, PromptPc
    <3> QED  BY <1>1, <3>1, <3>2 DEF ThreadFits
  <2>6. ThreadMoves("prompt", t)
    BY <1>1, <1>2, <2>3, <2>4, <2>5 DEF ThreadMoves
  <2>7. CoreInv'
    BY <1>1, <2>6, ThreadMovesKeep
  <2>8. asked' \in Seq(Dir) /\ RestTyped'
    BY <1>1, <1>2, <1>4 DEF RestTyped
  <2>9. \A i, j \in DOMAIN asked' : asked'[i] = asked'[j] => i = j
    <3>1. /\ DOMAIN asked = 1 .. Len(asked) /\ DOMAIN asked' = 1 .. (Len(asked) + 1)
          /\ Len(asked) \in Nat /\ asked'[Len(asked) + 1] = Root[p]
          /\ \A i \in DOMAIN asked : asked'[i] = asked[i] /\ asked[i] # Root[p]
      BY <1>1, <1>4 DEF RestTyped
    <3>2. \A i, j \in DOMAIN asked : asked[i] = asked[j] => i = j
      BY <1>1 DEF PromptsDone
    <3>3. \A i \in DOMAIN asked' : i = Len(asked) + 1 \/ i \in DOMAIN asked
      BY <3>1
    <3> QED  BY ONLY <3>1, <3>2, <3>3
  <2>10. threads'["prompt"] = t
    BY <1>1, <2>4 DEF ThreadsTyped
  <2>11. PromptsDone'
    BY <1>4, <2>3, <2>9, <2>10 DEF PromptsDone
  <2> QED  BY <2>7, <2>8, <2>11 DEF CfgInv
<1>5. CASE (initConfig # None /\ initConfig \in errors) \/ promptShown
  BY <1>3, <1>5 DEF OpenWithoutProject, promptVars
<1>6. CASE ~((initConfig # None /\ initConfig \in errors) \/ promptShown)
  <2>1. CASE Root[p] \in {asked[i] : i \in DOMAIN asked}
    BY <1>3, <1>6, <2>1 DEF OpenWithoutProject
  <2>2. CASE Root[p] \notin {asked[i] : i \in DOMAIN asked}
    BY <1>4, <1>6, <2>2 DEF OpenWithoutProject
  <2> QED  BY <2>1, <2>2
<1> QED  BY <1>5, <1>6

(* The requests of main.                                                   *)
LEMMA MainRequestKeeps ==
  ASSUME CfgInv, MainRequest
  PROVE  CfgInv'
<1>1. CASE ReloadAll
  BY <1>1, ReloadAllKeeps
<1>2. CASE \E p \in Doc :
       \/ OpenInProject(p) \/ OpenWithoutProject(p) \/ CommandFor(p) \/ AddressImport(p)
       \/ StringImport(p) \/ AccountAccess(p) \/ EnsureDirWatcher(p)
  BY <1>2, RequestsKeep, OpenWithoutProjectKeeps, EnsureDirWatcherKeeps
<1> QED  BY <1>1, <1>2 DEF MainRequest

(* FlowIntegration.initialize.                                             *)
LEMMA InitializeKeeps ==
  ASSUME CfgInv, NEW c \in Config \cup {None}, NEW n \in BOOLEAN, Initialize(c, n)
  PROVE  CfgInv'
<1>1. CoreInv /\ RestTyped /\ PromptsDone
  BY DEF CfgInv
<1>2. /\ FilesTyped /\ MapsTyped /\ LoopsTyped /\ ThreadsTyped /\ IndexTyped /\ CachesTyped
      /\ HistTyped /\ MapsFit /\ WatchersFit /\ LoopsFit /\ ThreadsFit /\ NotStarted
      /\ OneLoads /\ IndexDone /\ StatesDone /\ ClientsDone /\ CachesDone
      /\ Len(heap) \in Nat /\ "main" \in Thread /\ "prompt" \in Thread
  BY <1>1, CoreParts, Constants
<1>3. /\ heap = << >> /\ Len(heap) = 0
      /\ \A x \in Thread \ {"main"} : threads[x].pc = "idle" /\ ~threads[x].armed
  <2>1. threads["main"].pc = "start" /\ MainFits(threads["main"])
    BY <1>1, MainFields DEF Initialize, At
  <2> QED  BY <1>2, <2>1 DEF MainFits, NotStarted, At
<1>4. /\ disk' = disk /\ writes' = writes /\ states' = states /\ clients' = clients
      /\ index' = index /\ caches' = caches /\ hist' = hist /\ promptShown' = promptShown
      /\ asked' = asked
  BY DEF Initialize, fileVars, promptVars
<1>5. \A e \in Config : states[e] = 0 /\ clients[e] = 0
  BY <1>2, <1>3 DEF MapsTyped
<1>6. PICK t : /\ t \in ThreadRecord /\ t.st = 0 /\ t.cl = 0
               /\ threads' = [threads EXCEPT !["main"] = t]
               /\ \/ t.pc = "idle" /\ t.kind = "none"
                  \/ /\ t.pc = "load" /\ t.cfg = c /\ c # None
                     /\ t.kind = "open" \/ (t.kind = "init" /\ heap' # << >> /\ heap'[1].path = c)
               /\ heap' = heap \/ (c # None /\ heap' = Append(heap, [path |-> c, ver |-> disk[c].ver]))
               /\ (watchers' = watchers /\ loops' = loops) \/ (c # None /\ EnsureWatcher(c))
               /\ initConfig' \in {initConfig, c} /\ accounts' \in {accounts, n, FALSE}
  <2>1. CASE c = None
    <3>1. /\ threads' = [threads EXCEPT !["main"] = IdleThread]
          /\ heap' = heap /\ watchers' = watchers /\ loops' = loops /\ initConfig' = initConfig
          /\ accounts' = accounts
      BY <2>1 DEF Initialize, optionVars
    <3> QED  BY <1>2, <3>1, IdleFacts
  <2>2. CASE c # None
    <3>1. PICK k : k = IF disk[c].state = "good" THEN "init" ELSE "open"
      OBVIOUS
    <3>2. PICK t : t = [IdleThread EXCEPT !.pc = "load", !.cfg = c, !.kind = k]
      OBVIOUS
    <3>3. t \in ThreadRecord /\ t.st = 0 /\ t.cl = 0 /\ t.pc = "load" /\ t.cfg = c /\ t.kind = k
      <4>1. "load" \in MainPc /\ k \in Kind
        BY <3>1 DEF MainPc, Kind
      <4> QED  BY <1>2, <3>2, <4>1, IdleFacts DEF ThreadRecord
    <3>4. CASE disk[c].state = "good"
      <4>1. /\ threads' = [threads EXCEPT !["main"] = t] /\ EnsureWatcher(c)
            /\ heap' = Append(heap, [path |-> c, ver |-> disk[c].ver])
            /\ initConfig' = c /\ accounts' = n
        BY <2>2, <3>1, <3>2, <3>4 DEF Initialize, SetupConfigManager, SetInitConfigPath
      <4>2. Len(heap') = 1 /\ heap'[1].path = c
        BY <1>3, <4>1
      <4>3. heap' # << >>
        BY <4>2
      <4> QED  BY <2>2, <3>1, <3>3, <3>4, <4>1, <4>2, <4>3
    <3>5. CASE disk[c].state # "good"
      <4>1. /\ threads' = [threads EXCEPT !["main"] = t] /\ EnsureWatcher(c) /\ heap' = heap
            /\ initConfig' = c /\ accounts' = FALSE
        BY <2>2, <3>1, <3>2, <3>5 DEF Initialize, HandleInitConfigLoadFailure, SetInitConfigPath
      <4> QED  BY <2>2, <3>1, <3>3, <3>5, <4>1
    <3> QED  BY <3>4, <3>5
  <2> QED  BY <2>1, <2>2
<1>7. /\ ThreadsTyped' /\ OthersLater("main") /\ threads'["main"] = t
      /\ \A x \in Thread \ {"main"} : threads'[x] = threads[x]
  BY <1>2, <1>6 DEF ThreadsTyped, OthersLater, Later
<1>8. MapsTyped' /\ HeapStep /\ Len(heap') \in Nat
  <2>1. heap' \in Seq(Object)
    <3>1. CASE heap' = heap
      BY <1>2, <3>1 DEF MapsTyped
    <3>2. CASE c # None /\ heap' = Append(heap, [path |-> c, ver |-> disk[c].ver])
      <4>1. disk[c] \in FileRecord
        BY <1>2, <3>2 DEF FilesTyped
      <4>2. [path |-> c, ver |-> disk[c].ver] \in Object
        BY <3>2, <4>1 DEF Object, FileRecord
      <4> QED  BY <1>2, <3>2, <4>2 DEF MapsTyped
    <3> QED  BY <1>6, <3>1, <3>2
  <2>2. Len(heap') \in Nat
    BY <2>1
  <2>3. states' \in [Config -> 0 .. Len(heap')] /\ clients' \in [Config -> 0 .. Len(heap')]
    BY <1>2, <1>4, <1>5, <2>2 DEF MapsTyped
  <2> QED  BY <1>3, <2>1, <2>2, <2>3 DEF MapsTyped, HeapStep
<1>9. /\ LoopsTyped' /\ WatchersFit' /\ LoopsGrow
      /\ \A w \in DOMAIN loops' :
           (w \in DOMAIN loops /\ loops'[w] = loops[w]) \/ loops'[w] = NewLoop(c)
  <2>1. CASE watchers' = watchers /\ loops' = loops
    BY <1>2, <2>1 DEF LoopsTyped, WatchersFit, LoopsGrow
  <2>2. CASE c # None /\ EnsureWatcher(c)
    BY <1>2, <2>2, EnsureWatcherFacts
  <2> QED  BY <1>6, <2>1, <2>2
<1>10. FilesTyped' /\ IndexTyped' /\ CachesTyped' /\ HistTyped'
  BY <1>2, <1>4 DEF FilesTyped, IndexTyped, CachesTyped, HistTyped
<1>11. MapsFit' /\ LoopsFit'
  <2>1. MapsFit'
    BY <1>4, <1>5 DEF MapsFit
  <2>2. LoopFits(NewLoop(c))'
    BY <1>8, NewLoopFits DEF MapsTyped, LoopFits, NewLoop
  <2>3. LoopsFit'
    BY <1>2, <1>4, <1>8, <1>9, <2>2, LoopsKept
  <2> QED  BY <2>1, <2>3
<1>12. ThreadFits("main", threads["main"])'
  <2>1. t.pc = "load" => t.cfg \in Config
    BY <1>6
  <2>2. ResolveFits(t)'
    BY <1>6, <1>8, <2>1 DEF ResolveFits
  <2>3. MainFits(t)'
    <3>1. t.kind = "init" => heap' # << >> /\ heap'[1].path = t.cfg
      BY <1>6
    <3> QED  BY <1>6, <3>1 DEF MainFits, MainPc
  <2>4. ThreadFits("main", t)'
    BY <2>2, <2>3, Constants DEF ThreadFits
  <2> QED  BY <1>7, <2>4
<1>13. ThreadsFit' /\ NotStarted' /\ OneLoads'
  <2>1. ASSUME NEW x \in Thread PROVE ThreadFits(x, threads[x])'
    <3>1. CASE x = "main"
      BY <1>12, <3>1
    <3>2. CASE x # "main"
      <4>1. ThreadFits(x, threads[x]) /\ Later(threads[x], threads'[x])
        BY <1>2, <1>7, <3>2 DEF ThreadsFit, OthersLater
      <4>2. threads[x].pc # "start"
        BY <1>3, <3>2
      <4> QED  BY <1>2, <1>4, <1>8, <4>1, <4>2, ThreadFitsStays
    <3> QED  BY <3>1, <3>2
  <2>2. NotStarted'
    BY <1>6, <1>7 DEF NotStarted, At
  <2>3. OneLoads'
    BY <1>3, <1>6, <1>7 DEF OneLoads, At
  <2> QED  BY <2>1, <2>2, <2>3 DEF ThreadsFit
<1>14. StillDue("main")
  BY Constants DEF StillDue
<1>15. IndexDone'
  <2>1. \A e \in Dir : Gone(e)' => Gone(e)
    BY <1>4 DEF Gone
  <2>2. \A e \in Dir : IndexDue(e) => IndexDue(e)'
    BY <1>2, <1>7, <1>9, <1>14, DueStays, Constants
  <2> QED  BY <1>2, <1>4, <1>6, <1>7, <1>13, <2>1, <2>2, IndexQuiet
<1>16. StatesDone' /\ ClientsDone'
  BY <1>4, <1>5 DEF StatesDone, ClientsDone
<1>17. CachesDone'
  <2>1. \A e \in Config : CacheDue(e) => CacheDue(e)'
    BY <1>2, <1>7, <1>9, <1>14, DueStays
  <2>2. \A id \in 1 .. Len(heap) : heap'[id].ver = heap[id].ver
    BY <1>3
  <2> QED  BY <1>2, <1>4, <1>6, <1>7, <1>8, <1>13, <2>1, <2>2, CachesQuiet
<1>18. CoreInv'
  BY <1>7, <1>8, <1>9, <1>10, <1>11, <1>13, <1>15, <1>16, <1>17
     DEF CoreInv, CoreTyped, CoreFits, CoreDone
<1>19. RestTyped' /\ PromptsDone'
  BY <1>1, <1>2, <1>4, <1>6, <1>7 DEF RestTyped, PromptsDone
<1> QED  BY <1>18, <1>19 DEF CfgInv

(* Its end.                                                                *)
LEMMA InitializeClientKeeps ==
  ASSUME CfgInv, InitializeClient
  PROVE  CfgInv'
<1> DEFINE o == threads["main"]
           c == o.cfg
<1>1. CoreInv /\ RestTyped /\ PromptsDone
  BY DEF CfgInv
<1>2. /\ FilesTyped /\ MapsTyped /\ LoopsTyped /\ ThreadsTyped /\ IndexTyped /\ CachesTyped
      /\ HistTyped /\ MapsFit /\ WatchersFit /\ LoopsFit /\ ThreadsFit /\ NotStarted
      /\ OneLoads /\ IndexDone /\ StatesDone /\ ClientsDone /\ CachesDone
      /\ Len(heap) \in Nat /\ "main" \in Thread /\ "prompt" \in Thread
  BY <1>1, CoreParts, Constants
<1>3. /\ o.pc = "initClient" /\ 1 \in 1 .. Len(heap) /\ heap[1].path = c /\ c \in Config
  <2>1. o.pc = "initClient" /\ MainFits(o)
    BY <1>1, MainFields DEF InitializeClient, At
  <2>2. heap # << >> /\ c = heap[1].path
    BY <2>1 DEF MainFits
  <2>3. 1 \in 1 .. Len(heap)
    BY <1>2, <2>2 DEF MapsTyped
  <2> QED  BY <1>2, <2>1, <2>2, <2>3, ObjectFields
<1>4. /\ disk' = disk /\ writes' = writes /\ heap' = heap /\ states' = states
      /\ watchers' = watchers /\ loops' = loops /\ index' = index /\ caches' = caches
      /\ threads' = [threads EXCEPT !["main"] = IdleThread]
      /\ UNCHANGED <<optionVars, promptVars>>
  BY DEF InitializeClient, fileVars
<1>5. \/ clients' = clients /\ hist' = hist
      \/ /\ clients' = [clients EXCEPT ![c] = 1]
         /\ hist' = IF heap[1].ver = disk[c].ver THEN hist
                    ELSE [hist EXCEPT !.orphans = @ \cup {1}]
  BY DEF InitializeClient, SetDefaultClientForPath
<1>6. /\ ThreadsTyped' /\ OthersLater("main") /\ threads'["main"] = IdleThread
      /\ threads'["prompt"] = threads["prompt"]
  BY <1>2, <1>4, IdleFacts DEF ThreadsTyped, OthersLater, Later
<1>7. /\ FilesTyped' /\ MapsTyped' /\ LoopsTyped' /\ IndexTyped' /\ CachesTyped' /\ HistTyped'
      /\ HeapStep
  <2>1. FilesTyped' /\ LoopsTyped' /\ IndexTyped' /\ CachesTyped' /\ HeapStep
    BY <1>2, <1>4, HeapStays DEF FilesTyped, LoopsTyped, IndexTyped, CachesTyped
  <2>2. MapsTyped'
    <3>1. clients \in [Config -> 0 .. Len(heap)] /\ 1 \in 0 .. Len(heap)
      BY <1>2, <1>3 DEF MapsTyped
    <3>2. clients' = clients \/ clients' = [clients EXCEPT ![c] = 1]
      BY <1>5
    <3>3. clients' \in [Config -> 0 .. Len(heap)]
      BY ONLY <1>3, <3>1, <3>2
    <3> QED  BY <1>2, <1>4, <3>3 DEF MapsTyped
  <2>3. HistTyped'
    BY <1>2, <1>5 DEF HistTyped
  <2> QED  BY <2>1, <2>2, <2>3
<1>8. /\ hist'.late = hist.late /\ hist'.unseen = hist.unseen
      /\ \A id \in Nat : id \in hist.orphans => id \in hist'.orphans
  BY <1>2, <1>5 DEF HistTyped
<1>9. \A e \in Config :
        \/ clients'[e] = clients[e]
        \/ e = c /\ clients'[e] = 1 /\ (heap[1].ver = disk[c].ver \/ 1 \in hist'.orphans)
  BY <1>2, <1>3, <1>5 DEF MapsTyped, HistTyped
<1>10. MapsFit' /\ WatchersFit' /\ LoopsFit'
  <2>1. \A e \in Config : clients'[e] \in {0, clients[e]} \/ Fits(clients[e], e)'
    BY <1>3, <1>4, <1>9 DEF Fits
  <2>2. \A e \in Config : states'[e] \in {0, states[e]}
    BY <1>4
  <2>3. MapsFit'
    BY <1>2, <1>7, <2>1, <2>2, MapsKept
  <2>4. WatchersFit'
    BY <1>2, <1>4 DEF WatchersFit
  <2>5. LoopsFit'
    BY <1>2, <1>4, <1>7, LoopsKept
  <2> QED  BY <2>3, <2>4, <2>5
<1>11. ThreadFits("main", threads["main"])'
  <2>1. ThreadFits("main", IdleThread) /\ Later(IdleThread, IdleThread)
    BY <1>2, IdleFacts DEF Later
  <2>2. ThreadFits("main", IdleThread)'
    BY <1>2, <1>4, <1>7, <2>1, ThreadFitsStays, IdleFacts
  <2> QED  BY <1>6, <2>2
<1>12. ThreadsFit' /\ NotStarted' /\ OneLoads'
  BY <1>2, <1>3, <1>4, <1>6, <1>7, <1>11, ThreadsKept, IdleFacts DEF At
<1>13. LoopsGrow /\ StillDue("main")
  BY <1>4, Constants DEF LoopsGrow, StillDue
<1>14. IndexDone'
  <2>1. \A e \in Dir : Gone(e)' => Gone(e)
    BY <1>4, <1>8 DEF Gone
  <2>2. \A e \in Dir : IndexDue(e) => IndexDue(e)'
    BY <1>2, <1>6, <1>13, DueStays, Constants
  <2> QED  BY <1>2, <1>4, <1>6, <1>8, <1>12, <2>1, <2>2, IndexQuiet, IdleFacts
<1>15. StatesDone'
  <2>1. \A e \in Config : StateDue(e) => StateDue(e)'
    BY <1>2, <1>4, <1>6, <1>13, DueStays
  <2> QED  BY <1>2, <1>4, <1>7, <1>8, <2>1, StatesKept
<1>16. ClientsDone'
  <2>1. \A e \in Config : clients'[e] = clients[e] /\ ClientDue(e) => ClientDue(e)'
    BY <1>2, <1>6, <1>13, DueStays
  <2> QED  BY <1>2, <1>4, <1>7, <1>8, <1>9, <2>1, ClientsKept
<1>17. CachesDone'
  <2>1. \A e \in Config : CacheDue(e) => CacheDue(e)'
    BY <1>2, <1>6, <1>13, DueStays
  <2>2. \A id \in 1 .. Len(heap) : heap'[id].ver = heap[id].ver
    BY <1>4
  <2> QED  BY <1>2, <1>4, <1>6, <1>7, <1>12, <2>1, <2>2, CachesQuiet, IdleFacts
<1>18. CoreInv'
  BY <1>6, <1>7, <1>10, <1>12, <1>14, <1>15, <1>16, <1>17
     DEF CoreInv, CoreTyped, CoreFits, CoreDone
<1>19. RestTyped' /\ PromptsDone'
  BY <1>1, <1>4, <1>6 DEF RestTyped, PromptsDone, optionVars, promptVars
<1> QED  BY <1>18, <1>19 DEF CfgInv

-----------------------------------------------------------------------------
(* The loops that see a write of c are armed, or told to move.             *)
LEMMA LoopsSeeFacts ==
  ASSUME LoopsTyped, LoopsFit, NEW c \in Config, loops' = LoopsSee(c)
  PROVE  /\ loops' \in Seq(LoopRecord) /\ Len(loops') = Len(loops)
         /\ DOMAIN loops' = DOMAIN loops
         /\ \A w \in DOMAIN loops :
              /\ loops'[w].cfg = loops[w].cfg /\ loops'[w].pc = loops[w].pc
              /\ loops'[w].st = loops[w].st /\ loops'[w].cl = loops[w].cl
              /\ loops'[w].ok = loops[w].ok
              /\ loops[w].armed \/ loops[w].cfg = c => loops'[w].armed
              /\ loops'[w].moving => loops'[w].cfg = Custom
<1>1. /\ loops \in [1 .. Len(loops) -> LoopRecord] /\ DOMAIN loops = 1 .. Len(loops)
      /\ Len(loops) \in Nat
  BY DEF LoopsTyped
<1>2. ASSUME NEW w \in DOMAIN loops
      PROVE  /\ loops'[w] \in LoopRecord
             /\ loops'[w].cfg = loops[w].cfg /\ loops'[w].pc = loops[w].pc
             /\ loops'[w].st = loops[w].st /\ loops'[w].cl = loops[w].cl
             /\ loops'[w].ok = loops[w].ok
             /\ loops[w].armed \/ loops[w].cfg = c => loops'[w].armed
             /\ loops'[w].moving => loops'[w].cfg = Custom
  <2>1. PICK o : o = loops[w]
    OBVIOUS
  <2>2. o \in LoopRecord /\ (o.moving => o.cfg = Custom)
    BY <1>1, <2>1 DEF LoopsFit, LoopFits
  <2>3. loops'[w] = IF c = o.cfg THEN [o EXCEPT !.armed = TRUE]
                    ELSE IF c \in Dir /\ c = DirOf(o.cfg) THEN [o EXCEPT !.moving = TRUE]
                    ELSE o
    BY <2>1 DEF LoopsSee
  <2>4. CASE c = o.cfg
    <3>1. PICK l : l = [o EXCEPT !.armed = TRUE]
      OBVIOUS
    <3>2. /\ l \in LoopRecord /\ l.cfg = o.cfg /\ l.pc = o.pc /\ l.st = o.st /\ l.cl = o.cl
          /\ l.ok = o.ok /\ l.armed /\ l.moving = o.moving
      BY <2>2, <3>1 DEF LoopRecord
    <3> QED  BY <2>1, <2>2, <2>3, <2>4, <3>1, <3>2
  <2>5. CASE c # o.cfg /\ c \in Dir /\ c = DirOf(o.cfg)
    <3>1. PICK l : l = [o EXCEPT !.moving = TRUE]
      OBVIOUS
    <3>2. /\ l \in LoopRecord /\ l.cfg = o.cfg /\ l.pc = o.pc /\ l.st = o.st /\ l.cl = o.cl
          /\ l.ok = o.ok /\ l.armed = o.armed
      BY <2>2, <3>1 DEF LoopRecord
    <3>3. o.cfg = Custom
      BY <2>5 DEF DirOf
    <3> QED  BY <2>1, <2>3, <2>5, <3>1, <3>2, <3>3
  <2>6. CASE c # o.cfg /\ ~(c \in Dir /\ c = DirOf(o.cfg))
    BY <2>1, <2>2, <2>3, <2>6
  <2> QED  BY <2>4, <2>5, <2>6
<1>3. DOMAIN loops' = 1 .. Len(loops) /\ loops' = [w \in 1 .. Len(loops) |-> loops'[w]]
  BY <1>1 DEF LoopsSee
<1>4. loops' \in [1 .. Len(loops) -> LoopRecord]
  BY <1>1, <1>2, <1>3
<1>5. loops' \in Seq(LoopRecord) /\ Len(loops') = Len(loops)
  BY <1>1, <1>3, <1>4
<1> QED  BY <1>1, <1>2, <1>3, <1>5

(* The thread of directory c is armed, if it is on.                        *)
LEMMA ThreadsSeeFacts ==
  ASSUME NEW c \in Config, NEW t \in [Thread -> ThreadRecord], NEW u, u = ThreadsSee(c, t)
  PROVE  /\ u \in [Thread -> ThreadRecord]
         /\ \A y \in Thread \ {c} : u[y] = t[y]
         /\ \A y \in Thread :
              /\ u[y].pc = t[y].pc /\ u[y].kind = t[y].kind /\ u[y].path = t[y].path
              /\ u[y].cfg = t[y].cfg /\ u[y].st = t[y].st /\ u[y].cl = t[y].cl
              /\ u[y].on = t[y].on /\ u[y].ver = t[y].ver /\ u[y].late = t[y].late
              /\ u[y].todo = t[y].todo /\ (t[y].armed => u[y].armed)
              /\ u[y].armed => t[y].armed \/ t[y].on
         /\ c \in Dir /\ t[c].on => u[c].armed
<1>1. CASE c \in Dir /\ t[c].on
  <2>1. c \in Thread /\ t[c] \in ThreadRecord
    BY <1>1, Constants
  <2>2. PICK r : r = [t[c] EXCEPT !.armed = TRUE]
    OBVIOUS
  <2>3. /\ r \in ThreadRecord /\ r.armed
        /\ r.pc = t[c].pc /\ r.kind = t[c].kind /\ r.path = t[c].path /\ r.cfg = t[c].cfg
        /\ r.st = t[c].st /\ r.cl = t[c].cl /\ r.on = t[c].on /\ r.ver = t[c].ver
        /\ r.late = t[c].late /\ r.todo = t[c].todo
    BY <2>1, <2>2 DEF ThreadRecord
  <2>4. u = [t EXCEPT ![c] = r]
    BY <1>1, <2>2 DEF ThreadsSee
  <2>5. u \in [Thread -> ThreadRecord] /\ u[c] = r /\ \A y \in Thread \ {c} : u[y] = t[y]
    BY <2>1, <2>3, <2>4
  <2> QED  BY <1>1, <2>3, <2>5
<1>2. CASE ~(c \in Dir /\ t[c].on)
  <2>1. u = t
    BY <1>2 DEF ThreadsSee
  <2> QED  BY <1>2, <2>1
<1> QED  BY <1>1, <1>2

(* What a write leaves in the history.                                     *)
LEMMA WriteHist ==
  ASSUME HistTyped, MapsTyped, NEW c \in Config,
         hist' = [hist EXCEPT !.orphans = IF watchers[c] # 0 THEN @
                                          ELSE @ \cup ({states[c], clients[c]} \ {0}),
                              !.unseen = IF Watched(c) THEN @ ELSE @ \cup {c}]
  PROVE  /\ HistTyped' /\ hist'.late = hist.late
         /\ \A id \in Nat : id \in hist.orphans => id \in hist'.orphans
         /\ watchers[c] = 0 /\ states[c] # 0 => states[c] \in hist'.orphans
         /\ watchers[c] = 0 /\ clients[c] # 0 => clients[c] \in hist'.orphans
         /\ hist.unseen \subseteq hist'.unseen
         /\ c \notin hist'.unseen => Watched(c)
<1>1. PICK os : os = IF watchers[c] # 0 THEN hist.orphans
                     ELSE hist.orphans \cup ({states[c], clients[c]} \ {0})
  OBVIOUS
<1>2. PICK us : us = IF Watched(c) THEN hist.unseen ELSE hist.unseen \cup {c}
  OBVIOUS
<1>3. os \in SUBSET Nat /\ us \in SUBSET Config
  BY <1>1, <1>2 DEF HistTyped, MapsTyped
<1>4. hist' = [hist EXCEPT !.orphans = os, !.unseen = us]
  BY <1>1, <1>2
<1>5. /\ hist'.orphans = os /\ hist'.unseen = us /\ hist'.late = hist.late /\ HistTyped'
  BY <1>3, <1>4 DEF HistTyped
<1> QED  BY <1>1, <1>2, <1>5

(* A write keeps the manager and its threads: whoever holds what the file  *)
(* said before is armed, or in the history.  The prompt may go on to find  *)
(* what it wrote.                                                          *)
LEMMA WriteKeeps ==
  ASSUME CoreInv, NEW c \in Config, NEW s \in {"none", "broken", "good"},
         writes < MaxWrites, ~At("main", "start"), NEW t \in [Thread -> ThreadRecord],
         \A y \in Thread \ {"prompt"} : t[y] = threads[y],
         \/ t["prompt"] = threads["prompt"]
         \/ t["prompt"].pc = "find" /\ ThreadFits("prompt", t["prompt"]),
         Write(c, s, t), UNCHANGED <<heap, states, clients, watchers, index, caches>>
  PROVE  CoreInv'
<1>1. /\ FilesTyped /\ MapsTyped /\ LoopsTyped /\ ThreadsTyped /\ IndexTyped /\ CachesTyped
      /\ HistTyped /\ MapsFit /\ WatchersFit /\ LoopsFit /\ ThreadsFit /\ NotStarted
      /\ OneLoads /\ IndexDone /\ StatesDone /\ ClientsDone /\ CachesDone
      /\ Len(heap) \in Nat /\ "main" \in Thread /\ "prompt" \in Thread
  BY CoreParts, Constants
<1>2. /\ heap' = heap /\ states' = states /\ clients' = clients /\ watchers' = watchers
      /\ index' = index /\ caches' = caches /\ loops' = LoopsSee(c)
      /\ threads' = ThreadsSee(c, t)
  BY DEF Write
<1>3. /\ FilesTyped' /\ \A e \in Config \ {c} : disk'[e] = disk[e]
  <2>1. [state |-> s, ver |-> writes + 1] \in FileRecord /\ writes + 1 \in 0 .. MaxWrites
    BY <1>1, Constants DEF FileRecord, FilesTyped
  <2> QED  BY <1>1, <2>1 DEF Write, FilesTyped
<1>4. /\ loops' \in Seq(LoopRecord) /\ Len(loops') = Len(loops) /\ DOMAIN loops' = DOMAIN loops
      /\ \A w \in DOMAIN loops :
           /\ loops'[w].cfg = loops[w].cfg /\ loops'[w].pc = loops[w].pc
           /\ loops'[w].st = loops[w].st /\ loops'[w].cl = loops[w].cl
           /\ loops'[w].ok = loops[w].ok
           /\ loops[w].armed \/ loops[w].cfg = c => loops'[w].armed
           /\ loops'[w].moving => loops'[w].cfg = Custom
  BY <1>1, <1>2, LoopsSeeFacts
<1>5. /\ threads' \in [Thread -> ThreadRecord]
      /\ \A y \in Thread \ {c} : threads'[y] = t[y]
      /\ \A y \in Thread :
           /\ threads'[y].pc = t[y].pc /\ threads'[y].kind = t[y].kind
           /\ threads'[y].path = t[y].path
           /\ threads'[y].cfg = t[y].cfg /\ threads'[y].st = t[y].st
           /\ threads'[y].cl = t[y].cl
           /\ threads'[y].on = t[y].on /\ threads'[y].ver = t[y].ver
           /\ threads'[y].late = t[y].late
           /\ threads'[y].todo = t[y].todo /\ (t[y].armed => threads'[y].armed)
           /\ threads'[y].armed => t[y].armed \/ t[y].on
      /\ c \in Dir /\ t[c].on => threads'[c].armed
  BY <1>2, ThreadsSeeFacts
<1>6. /\ HistTyped' /\ hist'.late = hist.late
      /\ \A id \in Nat : id \in hist.orphans => id \in hist'.orphans
      /\ watchers[c] = 0 /\ states[c] # 0 => states[c] \in hist'.orphans
      /\ watchers[c] = 0 /\ clients[c] # 0 => clients[c] \in hist'.orphans
      /\ hist.unseen \subseteq hist'.unseen
      /\ c \notin hist'.unseen => Watched(c)
  BY <1>1, WriteHist DEF Write
<1>7. /\ MapsTyped' /\ LoopsTyped' /\ ThreadsTyped' /\ IndexTyped' /\ CachesTyped' /\ HeapStep
  <2>1. MapsTyped' /\ IndexTyped' /\ CachesTyped' /\ HeapStep
    BY <1>1, <1>2, HeapStays DEF MapsTyped, IndexTyped, CachesTyped
  <2>2. LoopsTyped' /\ ThreadsTyped'
    BY <1>1, <1>2, <1>4, <1>5 DEF LoopsTyped, ThreadsTyped
  <2> QED  BY <2>1, <2>2
<1>8. MapsFit' /\ WatchersFit'
  <2>1. MapsFit'
    BY <1>1, <1>2 DEF MapsFit, Fits
  <2>2. \A e \in Config : watchers[e] # 0 => watchers[e] \in DOMAIN loops
    BY <1>1 DEF LoopsTyped
  <2>3. WatchersFit'
    BY <1>1, <1>2, <1>4, <2>2 DEF WatchersFit
  <2> QED  BY <2>1, <2>3
<1>9. /\ \A id \in 1 .. Len(heap) : \A e \in Config : Fits(id, e) => Fits(id, e)'
      /\ \A id \in 1 .. Len(heap) : Home(id)' => Home(id)
      /\ \A id \in 1 .. Len(heap) : \A e \in Config :
           Fits(id, e) /\ Home(id) /\ e # c /\ Current(id) => Current(id)'
  <2>1. \A id \in 1 .. Len(heap) : \A e \in Config : Fits(id, e) => Fits(id, e)'
    BY <1>2 DEF Fits
  <2>2. \A id \in 1 .. Len(heap) : Home(id)' => Home(id)
    BY <1>2 DEF Home
  <2>3. ASSUME NEW id \in 1 .. Len(heap), NEW e \in Config, Fits(id, e), Home(id), e # c,
               Current(id)
        PROVE  Current(id)'
    <3>1. heap[id].path = e
      BY <2>3 DEF Fits, Home
    <3>2. disk'[e] = disk[e]
      BY <1>3, <2>3
    <3> QED  BY <1>2, <2>3, <3>1, <3>2 DEF Current, Readable
  <2> QED  BY <2>1, <2>2, <2>3
<1>10. LoopsFit'
  <2>1. ASSUME NEW w \in DOMAIN loops PROVE LoopFits(loops[w])'
    <3>1. PICK o : o = loops[w]
      OBVIOUS
    <3>2. PICK l : l = loops'[w]
      OBVIOUS
    <3>3. /\ l.cfg = o.cfg /\ l.pc = o.pc /\ l.st = o.st /\ l.cl = o.cl /\ l.ok = o.ok
          /\ o.armed \/ o.cfg = c => l.armed
          /\ l.moving => l.cfg = Custom
      BY <1>4, <3>1, <3>2
    <3>4. o.cfg \in Config /\ LoopFits(o)
      BY <3>1, LoopFields
    <3>5. /\ o.st \in 0 .. Len(heap) /\ o.cl \in 0 .. Len(heap)
          /\ o.pc \in {"reload", "apply"} => o.st # 0 /\ Fits(o.st, o.cfg)
          /\ o.pc = "client" => o.cl # 0
          /\ o.pc # "idle" /\ o.cl # 0 => Fits(o.cl, o.cfg)
          /\ o.pc \in {"reload", "apply"} /\ o.cl # 0 /\ Home(o.cl) => o.cl = o.st
          /\ o.pc = "apply" /\ Home(o.st) => Current(o.st) \/ o.armed
          /\ o.pc = "client" /\ Home(o.cl) => Current(o.cl) \/ o.armed
      BY <3>4 DEF LoopFits
    <3>6. /\ o.pc \in {"reload", "apply"} => o.st \in 1 .. Len(heap) /\ Fits(o.st, o.cfg)'
          /\ o.pc # "idle" /\ o.cl # 0 => o.cl \in 1 .. Len(heap) /\ Fits(o.cl, o.cfg)'
      BY <1>1, <1>9, <3>4, <3>5
    <3>7. o.pc \in {"reload", "apply"} /\ o.cl # 0 /\ Home(o.cl)' => o.cl = o.st
      BY <1>9, <3>5, <3>6
    <3>8. o.pc = "apply" /\ Home(o.st)' => Current(o.st)' \/ l.armed
      BY <1>9, <3>3, <3>4, <3>5, <3>6
    <3>9. o.pc = "client" /\ Home(o.cl)' => Current(o.cl)' \/ l.armed
      BY <1>9, <3>3, <3>4, <3>5, <3>6
    <3>10. LoopFits(l)'
      BY <1>2, <3>3, <3>5, <3>6, <3>7, <3>8, <3>9 DEF LoopFits
    <3> QED  BY <3>2, <3>10
  <2> QED  BY <1>4, <2>1 DEF LoopsFit
<1>11. ThreadsFit'
  <2>1. ASSUME NEW x \in Thread PROVE ThreadFits(x, threads[x])'
    <3>1. PICK o : o = t[x]
      OBVIOUS
    <3>2. PICK u : u = threads'[x]
      OBVIOUS
    <3>3. /\ u.pc = o.pc /\ u.kind = o.kind /\ u.path = o.path /\ u.cfg = o.cfg
          /\ u.st = o.st /\ u.cl = o.cl /\ u.on = o.on /\ u.todo = o.todo
          /\ o.armed => u.armed
          /\ u.armed => o.armed \/ o.on
          /\ x \in Dir /\ x = c /\ o.on => u.armed
      BY <1>5, <3>1, <3>2
    <3>4. ThreadFits(x, o)
      BY <1>1, <3>1 DEF ThreadsFit
    <3>5. ResolveFits(u)'
      <4>1. ResolveFits(o)
        BY <3>4 DEF ThreadFits
      <4>2. o.pc \in {"watch", "loadClient"} => Fits(o.st, o.cfg)'
        BY <1>1, <1>9, <4>1 DEF ResolveFits
      <4> QED  BY <1>2, <3>3, <4>1, <4>2 DEF ResolveFits
    <3>6. x = "main" => MainFits(u)'
      BY <1>2, <3>3, <3>4 DEF ThreadFits, MainFits
    <3>7. x = "prompt" => PromptFits(u)'
      BY <3>3, <3>4 DEF ThreadFits, PromptFits
    <3>8. x \in Dir => DirFits(x, u)'
      <4> SUFFICES ASSUME x \in Dir PROVE DirFits(x, u)'
        OBVIOUS
      <4>1. x \in Config /\ DirFits(x, o) /\ o.st \in 0 .. Len(heap) /\ o.cl \in 0 .. Len(heap)
        BY <3>4, Constants DEF ThreadFits, ResolveFits
      <4>2. /\ o.pc \in DirPc
            /\ o.pc # "idle" \/ o.armed => o.on
            /\ o.pc # "idle" => o.kind = "reload"
            /\ o.pc = "reload" => o.st \in 1 .. Len(heap) /\ Fits(o.st, x)
            /\ o.pc = "client" => o.cl # 0
            /\ o.pc # "idle" /\ o.cl # 0 => o.cl \in 1 .. Len(heap) /\ Fits(o.cl, x)
            /\ o.pc \in {"find", "record", "load", "watch"} /\ o.cl # 0 => ~Home(o.cl)
            /\ o.pc = "reload" /\ o.cl # 0 /\ Home(o.cl) => o.cl = o.st
            /\ o.pc = "client" /\ Home(o.cl) => Current(o.cl) \/ o.armed
        BY <1>1, <4>1 DEF DirFits
      <4>3. o.pc = "client" /\ Home(o.cl)' => Current(o.cl)' \/ u.armed
        BY <1>9, <3>3, <4>1, <4>2
      <4>4. /\ o.pc = "reload" => Fits(o.st, x)'
            /\ o.pc # "idle" /\ o.cl # 0 => Fits(o.cl, x)'
        BY <1>9, <4>1, <4>2
      <4>5. /\ o.pc \in {"find", "record", "load", "watch"} /\ o.cl # 0 => ~Home(o.cl)'
            /\ o.pc = "reload" /\ o.cl # 0 /\ Home(o.cl)' => o.cl = o.st
        BY <1>9, <4>2
      <4>6. o.pc = "reload" => o.st # 0
        BY <4>2
      <4> QED  BY <3>3, <4>2, <4>3, <4>4, <4>5, <4>6 DEF DirFits
    <3>9. ThreadFits(x, u)'
      BY <3>5, <3>6, <3>7, <3>8 DEF ThreadFits
    <3> QED  BY <3>2, <3>9
  <2> QED  BY <2>1 DEF ThreadsFit
<1>12. /\ \A y \in Thread : threads'[y].pc = threads[y].pc \/ threads'[y].pc = "find"
       /\ threads'["main"].pc = threads["main"].pc
       /\ threads'["main"].late = threads["main"].late
       /\ threads'["main"].st = threads["main"].st /\ threads'["main"].ver = threads["main"].ver
       /\ \A y \in Thread : threads'[y].pc = "record" =>
            /\ threads[y].pc = "record" /\ threads'[y].late = threads[y].late
            /\ threads'[y].cfg = threads[y].cfg
       /\ \A e \in Dir : /\ threads'[e].pc = threads[e].pc /\ threads'[e].on = threads[e].on
                         /\ threads[e].armed => threads'[e].armed
  BY <1>1, <1>5, Constants
<1>13. NotStarted' /\ OneLoads'
  BY <1>1, <1>12 DEF NotStarted, OneLoads, At
<1>14. \A e \in Config :
         /\ IndexDue(e) => IndexDue(e)'
         /\ StateDue(e) => StateDue(e)'
         /\ ClientDue(e) => ClientDue(e)'
         /\ CacheDue(e) => CacheDue(e)'
  <2>1. \A e \in Config : IndexDue(e) => IndexDue(e)'
    BY <1>4, <1>12 DEF IndexDue
  <2>2. \A e \in Config : StateDue(e) => StateDue(e)'
    BY <1>2, <1>4 DEF StateDue
  <2>3. \A e \in Config : ClientDue(e) => ClientDue(e)'
    BY <1>2, <1>4 DEF ClientDue
  <2>4. \A e \in Config : CacheDue(e) => CacheDue(e)'
    BY <1>4, <1>12 DEF CacheDue
  <2> QED  BY <2>1, <2>2, <2>3, <2>4
<1>15. watchers[c] # 0 => IndexDue(c)' /\ StateDue(c)' /\ ClientDue(c)'
  <2>1. watchers[c] # 0 => watchers[c] \in DOMAIN loops /\ loops[watchers[c]].cfg = c
    BY <1>1 DEF LoopsTyped, WatchersFit
  <2>2. watchers[c] # 0 => /\ watchers[c] \in DOMAIN loops' /\ loops'[watchers[c]].cfg = c
                           /\ loops'[watchers[c]].armed
    BY <1>4, <2>1
  <2> QED  BY <2>2 DEF IndexDue, StateDue, ClientDue
<1>16. IndexDone'
  <2>1. \A e \in Dir : Gone(e)' => IndexDue(e)' \/ Gone(e)
    <3>1. Gone(c)' /\ c \in Dir => IndexDue(c)'
      <4>1. Gone(c)' => Watched(c)
        BY <1>6 DEF Gone
      <4>2. c \in Dir /\ threads[c].on => IndexDue(c)'
        <5>1. c \in Dir => c \in Thread /\ c # "prompt"
          BY Constants
        <5>2. c \in Dir /\ threads[c].on => threads'[c].armed
          BY <1>5, <5>1
        <5> QED  BY <5>2 DEF IndexDue
      <4> QED  BY <1>15, <4>1, <4>2 DEF Watched
    <3>2. \A e \in Dir : e # c /\ Gone(e)' => Gone(e)
      BY <1>3, <1>6, Constants DEF Gone
    <3> QED  BY <3>1, <3>2
  <2>2. \A p \in Path : index[p] # None => index[p] \in Dir /\ index[p] \in Config
    BY <1>1, Constants DEF IndexTyped
  <2>3. \A y \in Thread : At(y, "record")' => threads'[y].cfg \in Dir /\ threads'[y].cfg \in Config
    BY <1>11, Constants DEF ThreadsFit, ThreadFits, ResolveFits, At
  <2>4. ASSUME NEW p \in Path, index'[p] # None, p \notin hist'.late, Gone(index[p])'
        PROVE  IndexDue(index[p])'
    <3>1. PICK e : e = index[p]
      OBVIOUS
    <3>2. e \in Dir /\ e \in Config /\ Gone(e)' /\ index'[p] = e /\ p \notin hist.late
      BY <1>2, <1>6, <2>2, <2>4, <3>1
    <3>3. Gone(e) => IndexDue(e)
      BY <1>1, <2>4, <1>2, <3>1, <3>2 DEF IndexDone
    <3>4. IndexDue(e)'
      BY <1>14, <2>1, <3>2, <3>3
    <3> QED  BY <3>2, <3>4
  <2>5. ASSUME NEW y \in Thread, At(y, "record")', ~threads'[y].late, Gone(threads[y].cfg)'
        PROVE  IndexDue(threads[y].cfg)'
    <3>1. PICK e : e = threads[y].cfg
      OBVIOUS
    <3>2. /\ At(y, "record") /\ ~threads[y].late /\ threads'[y].cfg = e
      BY <1>12, <2>5, <3>1 DEF At
    <3>3. e \in Dir /\ e \in Config /\ Gone(e)'
      BY <2>3, <2>5, <3>2
    <3>4. Gone(e) => IndexDue(e)
      BY <1>1, <3>1, <3>2 DEF IndexDone
    <3>5. IndexDue(e)'
      BY <1>14, <2>1, <3>3, <3>4
    <3> QED  BY <3>2, <3>5
  <2> QED  BY <2>4, <2>5 DEF IndexDone
<1>17. StatesDone'
  <2>1. ASSUME NEW e \in Config, states[e] # 0, heap[states[e]].path = e,
               states[e] \notin hist'.orphans,
               ~(disk'[e].state = "good" /\ heap[states[e]].ver = disk'[e].ver)
        PROVE  StateDue(e)'
    <3>1. CASE e = c
      BY <1>6, <1>15, <2>1, <3>1
    <3>2. CASE e # c
      <4>1. disk'[e] = disk[e] /\ states[e] \notin hist.orphans
        BY <1>1, <1>3, <1>6, <2>1, <3>2 DEF MapsTyped
      <4> QED  BY <1>1, <1>14, <2>1, <4>1 DEF StatesDone
    <3> QED  BY <3>1, <3>2
  <2> QED  BY <1>2, <2>1 DEF StatesDone
<1>18. ClientsDone'
  <2>1. ASSUME NEW e \in Config, clients[e] # 0, heap[clients[e]].path = e,
               clients[e] \notin hist'.orphans, disk'[e].state = "good",
               heap[clients[e]].ver # disk'[e].ver
        PROVE  ClientDue(e)'
    <3>1. CASE e = c
      BY <1>6, <1>15, <2>1, <3>1
    <3>2. CASE e # c
      <4>1. disk'[e] = disk[e] /\ clients[e] \notin hist.orphans
        BY <1>1, <1>3, <1>6, <2>1, <3>2 DEF MapsTyped
      <4> QED  BY <1>1, <1>14, <2>1, <4>1 DEF ClientsDone
    <3> QED  BY <3>1, <3>2
  <2> QED  BY <1>2, <2>1 DEF ClientsDone
<1>19. CachesDone'
  <2>1. /\ ThreadFits("main", threads["main"]) /\ ThreadFits("main", threads["main"])'
    BY <1>1, <1>11 DEF ThreadsFit
  <2>2. /\ \A id \in 1 .. Len(heap) : ~(heap'[id].ver # heap[id].ver)
        /\ \A e \in Config : caches'[e] \in {NoCache, caches[e]}
    BY <1>2
  <2>3. At("main", "cache")' /\ ~threads'["main"].late =>
              /\ At("main", "cache") /\ ~threads["main"].late
              /\ threads'["main"].st = threads["main"].st
              /\ threads'["main"].ver = threads["main"].ver
    BY <1>12 DEF At
  <2> QED  BY <1>1, <1>7, <1>14, <2>1, <2>2, <2>3, CachesKept
<1> QED  BY <1>3, <1>6, <1>7, <1>8, <1>10, <1>11, <1>13, <1>16, <1>17, <1>18, <1>19
         DEF CoreInv, CoreTyped, CoreFits, CoreDone

(* The user writes a file.                                                 *)
LEMMA UserWritesKeep ==
  ASSUME CfgInv, UserWrites
  PROVE  CfgInv'
<1>1. CoreInv /\ RestTyped /\ PromptsDone /\ ThreadsTyped
  BY CoreParts DEF CfgInv
<1>2. PICK e \in Edits : Write(e[1], e[2], threads)
  BY DEF UserWrites
<1>3. e[1] \in Config /\ e[2] \in {"none", "broken", "good"}
  BY <1>2, ConfigAssumption
<1>4. CoreInv'
  BY <1>1, <1>2, <1>3, WriteKeeps DEF UserWrites, ThreadsTyped
<1>5. /\ threads'["prompt"].pc = threads["prompt"].pc
      /\ threads'["prompt"].todo = threads["prompt"].todo
  BY <1>1, <1>2, <1>3, ThreadsSeeFacts, Constants DEF Write, ThreadsTyped
<1>6. RestTyped' /\ PromptsDone'
  BY <1>1, <1>5 DEF UserWrites, RestTyped, PromptsDone, optionVars, promptVars
<1> QED  BY <1>4, <1>6 DEF CfgInv

(* What the prompt has.                                                    *)
LEMMA PromptFields ==
  ASSUME CoreInv, threads["prompt"].pc # "idle"
  PROVE  /\ "prompt" \in Thread /\ "prompt" \notin Dir /\ "prompt" # "main"
         /\ threads["prompt"] \in ThreadRecord /\ ResolveFits(threads["prompt"])
         /\ PromptFits(threads["prompt"]) /\ ~At("main", "start")
<1>1. "prompt" \in Thread /\ "prompt" \notin Dir /\ "prompt" # "main"
  BY Constants
<1>2. ThreadsTyped /\ ThreadsFit /\ NotStarted
  BY CoreParts
<1> QED  BY <1>1, <1>2 DEF ThreadsTyped, ThreadsFit, ThreadFits, NotStarted

(* The prompt goes away.                                                   *)
LEMMA PromptEndsKeep ==
  ASSUME CfgInv, threads["prompt"].pc # "idle", promptShown' \in BOOLEAN,
         threads' = [threads EXCEPT !["prompt"] = IdleThread],
         UNCHANGED <<fileVars, heap, states, clients, watchers, loops, index, caches, hist>>,
         UNCHANGED <<optionVars, asked>>
  PROVE  CfgInv'
<1>1. CoreInv /\ RestTyped /\ PromptsDone /\ MapsTyped /\ ThreadsTyped
  BY CoreParts DEF CfgInv
<1>2. /\ "prompt" \in Thread /\ "prompt" \notin Dir /\ "prompt" # "main" /\ ~At("main", "start")
  BY <1>1, PromptFields
<1>3. ThreadMoves("prompt", IdleThread)
  BY <1>1, <1>2, IdleFacts DEF ThreadMoves
<1>4. CoreInv'
  BY <1>1, <1>2, <1>3, ThreadMovesKeep
<1>5. threads'["prompt"] = IdleThread
  BY <1>1, <1>2 DEF ThreadsTyped
<1>6. RestTyped' /\ PromptsDone'
  BY <1>1, <1>5, IdleFacts DEF RestTyped, PromptsDone, optionVars
<1> QED  BY <1>4, <1>6 DEF CfgInv

(* The prompt is answered.                                                 *)
LEMMA PromptAnswerKeeps ==
  ASSUME CfgInv, PromptAnswer
  PROVE  CfgInv'
<1> DEFINE o == threads["prompt"]
<1>1. CoreInv /\ RestTyped /\ PromptsDone /\ MapsTyped /\ ThreadsTyped
  BY CoreParts DEF CfgInv
<1>2. /\ o.pc = "ask" /\ "prompt" \in Thread /\ "prompt" \notin Dir /\ "prompt" # "main"
      /\ o \in ThreadRecord /\ ResolveFits(o) /\ PromptFits(o) /\ ~At("main", "start")
  BY <1>1, PromptFields DEF PromptAnswer, At
<1>3. PICK r : r = [o EXCEPT !.pc = "find", !.kind = "created", !.todo = {}]
  OBVIOUS
<1>4. PICK t : t = [threads EXCEPT !["prompt"] = r]
  OBVIOUS
<1>5. CASE threads' = [threads EXCEPT !["prompt"] = IdleThread]
             /\ UNCHANGED <<fileVars, loops, hist>> /\ promptShown' \in {FALSE, promptShown}
  BY <1>1, <1>2, <1>5, PromptEndsKeep DEF PromptAnswer, RestTyped
<1>6. CASE /\ writes < MaxWrites /\ disk[o.path].state = "none" /\ Write(o.path, "good", t)
           /\ promptShown' = promptShown
  <2>1. o.path \in Dir /\ o.path \in Config /\ o.path \in Path
    BY <1>2, Constants DEF PromptFits
  <2>2. /\ r \in ThreadRecord /\ r.pc = "find" /\ r.kind = "created" /\ r.todo = {}
        /\ r.path = o.path /\ r.st = o.st /\ r.cl = o.cl
    BY <1>2, <1>3 DEF ThreadRecord, PromptPc, Kind
  <2>3. ThreadFits("prompt", r)
    <3>1. ResolveFits(r)
      BY <1>2, <2>1, <2>2 DEF ResolveFits
    <3>2. PromptFits(r)
      BY <2>2 DEF PromptFits, PromptPc
    <3> QED  BY <1>2, <3>1, <3>2 DEF ThreadFits
  <2>4. /\ t \in [Thread -> ThreadRecord] /\ t["prompt"] = r
        /\ \A y \in Thread \ {"prompt"} : t[y] = threads[y]
    BY <1>1, <1>2, <1>4, <2>2 DEF ThreadsTyped
  <2>5. UNCHANGED <<heap, states, clients, watchers, index, caches>>
    BY DEF PromptAnswer
  <2>6. t["prompt"].pc = "find" /\ ThreadFits("prompt", t["prompt"])
    BY <2>2, <2>3, <2>4
  <2>7. PICK c \in Config : c = o.path
    BY <2>1
  <2>8. Write(c, "good", t)
    BY <1>6, <2>7
  <2>9. CoreInv'
    BY <1>1, <1>2, <1>6, <2>4, <2>5, <2>6, <2>8, WriteKeeps
  <2>10. threads'["prompt"].pc = "find" /\ threads'["prompt"].todo = {}
    BY <1>2, <2>2, <2>4, <2>8, ThreadsSeeFacts DEF Write
  <2>11. RestTyped' /\ PromptsDone'
    BY <1>1, <1>2, <1>6, <2>10 DEF PromptAnswer, RestTyped, PromptsDone, optionVars
  <2> QED  BY <2>9, <2>11 DEF CfgInv
<1>7. \/ /\ threads' = [threads EXCEPT !["prompt"] = IdleThread]
         /\ UNCHANGED <<fileVars, loops, hist>> /\ promptShown' \in {FALSE, promptShown}
      \/ /\ writes < MaxWrites /\ disk[o.path].state = "none" /\ Write(o.path, "good", t)
         /\ promptShown' = promptShown
  BY <1>3, <1>4 DEF PromptAnswer
<1> QED  BY <1>5, <1>6, <1>7

(* The new configuration is resolved.                                      *)
LEMMA PromptCreatedKeeps ==
  ASSUME CfgInv, PromptCreated
  PROVE  CfgInv'
<1>1. threads["prompt"].pc # "idle" /\ promptShown' \in BOOLEAN
  BY DEF PromptCreated, At
<1> QED  BY <1>1, PromptEndsKeep DEF PromptCreated, mapVars

-----------------------------------------------------------------------------
(* The initial state.                                                      *)
LEMMA CfgInitInv == CfgInit => CfgInv
<1> SUFFICES ASSUME CfgInit PROVE CfgInv
  OBVIOUS
<1>1. /\ heap = << >> /\ Len(heap) = 0 /\ loops = << >> /\ Len(loops) = 0 /\ DOMAIN loops = {}
      /\ \A c \in Config : states[c] = 0 /\ clients[c] = 0 /\ watchers[c] = 0
      /\ \A p \in Path : index[p] = None
      /\ \A c \in Config : caches[c] = NoCache
  BY DEF CfgInit
<1>2. FilesTyped
  <2>1. PICK f \in Files : disk = [c \in Config |-> [state |-> f[c], ver |-> 0]]
    BY DEF CfgInit
  <2>2. \A c \in Config : f[c] \in {"none", "broken", "good"}
    BY <2>1, ConfigAssumption
  <2>3. 0 \in 0 .. MaxWrites /\ writes = 0
    BY Constants DEF CfgInit
  <2> QED  BY <2>1, <2>2, <2>3 DEF FilesTyped, FileRecord
<1>3. MapsTyped
  <2>1. heap \in Seq(Object)
    BY <1>1
  <2> QED  BY <1>1, <2>1 DEF CfgInit, MapsTyped
<1>4. LoopsTyped
  <2>1. loops \in Seq(LoopRecord)
    BY <1>1
  <2> QED  BY <1>1, <2>1 DEF CfgInit, LoopsTyped
<1>5. PICK m : m = [IdleThread EXCEPT !.pc = "start"]
  OBVIOUS
<1>6. /\ m \in ThreadRecord /\ m.pc = "start" /\ m.kind = "none" /\ m.st = 0 /\ m.cl = 0
      /\ m.todo = {}
  BY <1>3, <1>5, IdleFacts DEF ThreadRecord, MainPc
<1>7. threads = [x \in Thread |-> IF x = "main" THEN m ELSE IdleThread]
  BY <1>5 DEF CfgInit
<1>8. ThreadsTyped
  BY <1>3, <1>6, <1>7, IdleFacts DEF ThreadsTyped
<1>9. IndexTyped /\ HistTyped
  BY DEF CfgInit, IndexTyped, HistTyped
<1>10. CachesTyped
  <2>1. NoCache \in CacheRecord
    BY DEF NoCache, CacheRecord
  <2> QED  BY <2>1 DEF CfgInit, CachesTyped
<1>11. RestTyped
  <2>1. asked = << >> /\ asked \in Seq(Dir)
    BY DEF CfgInit
  <2>2. accounts \in BOOLEAN /\ promptShown \in BOOLEAN /\ initConfig = None
    BY DEF CfgInit
  <2> QED  BY <2>1, <2>2 DEF RestTyped
<1>12. MapsFit /\ WatchersFit /\ LoopsFit
  BY <1>1 DEF MapsFit, WatchersFit, LoopsFit
<1>13. ThreadsFit
  <2>1. ThreadFits("main", m)
    <3>1. ResolveFits(m)
      BY <1>1, <1>6 DEF ResolveFits
    <3>2. MainFits(m)
      BY <1>1, <1>6 DEF MainFits, MainPc
    <3> QED  BY <3>1, <3>2, Constants DEF ThreadFits
  <2>2. ASSUME NEW d \in Dir PROVE ThreadFits(d, IdleThread)
    <3>1. DirFits(d, IdleThread)
      BY <1>3, IdleFacts DEF DirFits, DirPc
    <3>2. ResolveFits(IdleThread)
      BY <1>3, IdleFacts DEF ThreadFits
    <3> QED  BY <3>1, <3>2, Constants DEF ThreadFits
  <2> QED  BY <1>3, <1>7, <2>1, <2>2, IdleFacts, Constants DEF ThreadsFit
<1>14. NotStarted /\ OneLoads
  BY <1>1, <1>3, <1>6, <1>7, IdleFacts DEF NotStarted, OneLoads, At
<1>15. IndexDone
  BY <1>1, <1>3, <1>6, <1>7, IdleFacts DEF IndexDone, At
<1>16. StatesDone /\ ClientsDone
  BY <1>1 DEF StatesDone, ClientsDone
<1>17. CachesDone
  BY <1>1, <1>6, <1>7, Constants DEF CachesDone
<1>18. PromptsDone
  <2>1. threads["prompt"] = IdleThread
    BY <1>7, Constants
  <2> QED  BY <1>3, <2>1, IdleFacts DEF CfgInit, PromptsDone
<1> QED  BY <1>2, <1>3, <1>4, <1>8, <1>9, <1>10, <1>11, <1>12, <1>13, <1>14, <1>15, <1>16, <1>17,
            <1>18 DEF CfgInv, CoreInv, CoreTyped, CoreFits, CoreDone

(* Every step keeps the invariant.                                         *)
LEMMA CfgNextInv == CfgInv /\ [CfgNext]_cfgVars => CfgInv'
<1> SUFFICES ASSUME CfgInv, [CfgNext]_cfgVars PROVE CfgInv'
  OBVIOUS
<1>1. CASE CfgNext
  <2>1. CASE \E o \in Options : Initialize(o[1], o[2])
    <3>1. PICK o \in Options : Initialize(o[1], o[2])
      BY <2>1
    <3>2. o[1] \in Config \cup {None} /\ o[2] \in BOOLEAN
      BY <3>1, ConfigAssumption
    <3> QED  BY <3>1, <3>2, InitializeKeeps
  <2>2. CASE MainRequest
    BY <2>2, MainRequestKeeps
  <2>3. CASE InitializeClient
    BY <2>3, InitializeClientKeeps
  <2>4. CASE ReloadNext
    BY <2>4, ReloadNextKeeps
  <2>5. CASE AccessBuild
    BY <2>5, AccessBuildKeeps
  <2>6. CASE AccessCache
    BY <2>6, AccessCacheKeeps
  <2>7. CASE \E x \in Thread : Resolve(x)
    BY <2>7, ResolveKeeps
  <2>8. CASE \E w \in DOMAIN loops : WatchLoop(w)
    BY <2>8, WatchLoopKeeps
  <2>9. CASE \E d \in Dir : DirLoop(d)
    BY <2>9, DirLoopKeeps
  <2>10. CASE PromptAnswer
    BY <2>10, PromptAnswerKeeps
  <2>11. CASE PromptCreated
    BY <2>11, PromptCreatedKeeps
  <2>12. CASE UserWrites
    BY <2>12, UserWritesKeep
  <2> QED  BY <1>1, <2>1, <2>2, <2>3, <2>4, <2>5, <2>6, <2>7, <2>8, <2>9, <2>10, <2>11, <2>12
           DEF CfgNext
<1>2. CASE UNCHANGED cfgVars
  <2>1. CoreInv /\ RestTyped /\ PromptsDone
    BY DEF CfgInv
  <2>2. CoreInv'
    BY <1>2, <2>1, Unmoved DEF cfgVars, mapVars
  <2>3. RestTyped' /\ PromptsDone'
    BY <1>2, <2>1 DEF RestTyped, PromptsDone, cfgVars, optionVars, promptVars
  <2> QED  BY <2>2, <2>3 DEF CfgInv
<1> QED  BY <1>1, <1>2

(***************************************************************************)
(* The inductive invariant of the configuration manager: whatever is out   *)
(* of date after a write has its repair due, whoever runs in between.      *)
(***************************************************************************)
THEOREM CfgInvariant == CfgSpec => []CfgInv
<1>1. CfgInit => CfgInv
  BY CfgInitInv
<1>2. CfgInv /\ [CfgNext]_cfgVars => CfgInv'
  BY CfgNextInv
<1> QED  BY <1>1, <1>2, PTL DEF CfgSpec

(***************************************************************************)
(* The type invariant: states and clients are objects that were made, the  *)
(* index leads to directories, watchers to loops, and one goroutine at a   *)
(* time is in the critical section of loadState.                           *)
(***************************************************************************)
THEOREM CfgTypeCorrect == CfgSpec => []CfgTypeOK
<1>1. CfgInv => CfgTypeOK
  <2> SUFFICES ASSUME CfgInv PROVE CfgTypeOK
    OBVIOUS
  <2>1. MapsTyped /\ LoopsTyped /\ IndexTyped /\ OneLoads
    BY CoreParts DEF CfgInv
  <2>2. \A i \in DOMAIN heap : heap[i] \in [path : Config, ver : 0 .. MaxWrites]
    <3>1. \A i \in DOMAIN heap : heap[i] \in Object
      BY <2>1 DEF MapsTyped
    <3> QED  BY <3>1 DEF Object
  <2> QED  BY <2>1, <2>2 DEF CfgTypeOK, MapsTyped, LoopsTyped, IndexTyped, OneLoads
<1> QED  BY <1>1, CfgInvariant, PTL

(* Once nothing is under way, no repair is due.                            *)
LEMMA SettledDue ==
  ASSUME CfgInv, Settled, NEW c \in Config
  PROVE  ~IndexDue(c) /\ ~StateDue(c) /\ ~ClientDue(c) /\ ~CacheDue(c)
<1>1. \A w \in DOMAIN loops : loops[w].pc = "idle" /\ ~loops[w].armed
  BY DEF Settled
<1>2. c \in Dir => threads[c].pc = "idle" /\ ~threads[c].armed
  <2>1. c \in Dir => c \in Thread
    BY Constants
  <2>2. c \in Dir => threads[c].pc \in {"idle", "ask"} /\ ~threads[c].armed
    BY <2>1 DEF Settled
  <2>3. c \in Dir => threads[c].pc \in DirPc
    BY <2>1, CoreParts DEF CfgInv, ThreadsFit, ThreadFits, DirFits
  <2> QED  BY <2>2, <2>3 DEF DirPc
<1> QED  BY <1>1, <1>2 DEF IndexDue, StateDue, ClientDue, CacheDue

(***************************************************************************)
(* The watch loops keep up with the files: for any directories and any     *)
(* number of writes, once nothing is under way the state of a              *)
(* configuration is what its file says.                                    *)
(***************************************************************************)
THEOREM StatesSettled == CfgSpec => []StatesSettle
<1>1. CfgInv => StatesSettle
  <2> SUFFICES ASSUME CfgInv, Settled, NEW c \in Config, states[c] # 0,
                      heap[states[c]].path = c, states[c] \notin hist.orphans
               PROVE  disk[c].state = "good" /\ heap[states[c]].ver = disk[c].ver
    BY DEF StatesSettle
  <2>1. StatesDone
    BY CoreParts DEF CfgInv
  <2> QED  BY <2>1, SettledDue DEF StatesDone
<1> QED  BY <1>1, CfgInvariant, PTL

(***************************************************************************)
(* So do the clients, which reload their own states.                       *)
(***************************************************************************)
THEOREM ClientsSettled == CfgSpec => []ClientsSettle
<1>1. CfgInv => ClientsSettle
  <2> SUFFICES ASSUME CfgInv, Settled, NEW c \in Config, clients[c] # 0,
                      heap[clients[c]].path = c, clients[c] \notin hist.orphans,
                      disk[c].state = "good"
               PROVE  heap[clients[c]].ver = disk[c].ver
    BY DEF ClientsSettle
  <2>1. ClientsDone
    BY CoreParts DEF CfgInv
  <2> QED  BY <2>1, SettledDue DEF ClientsDone
<1> QED  BY <1>1, CfgInvariant, PTL

(***************************************************************************)
(* And the address maps that the resolvers cache: once nothing is under    *)
(* way, the map of a state in use is built from what the state holds.      *)
(***************************************************************************)
THEOREM CachesSettled == CfgSpec => []CachesSettle
<1>1. CfgInv => CachesSettle
  <2> SUFFICES ASSUME CfgInv, Settled, NEW c \in Config, caches[c] # NoCache,
                      ~caches[c].raced, caches[c].st = states[c]
               PROVE  caches[c].ver = heap[states[c]].ver
    BY DEF CachesSettle
  <2>1. CachesDone
    BY CoreParts DEF CfgInv
  <2> QED  BY <2>1, SettledDue DEF CachesDone
<1> QED  BY <1>1, CfgInvariant, PTL

(***************************************************************************)
(* And the index of documents: once nothing is under way, it does not lead *)
(* to a flow.json whose removal somebody watched.                          *)
(***************************************************************************)
THEOREM IndexSettled == CfgSpec => []IndexSettles
<1>1. CfgInv => IndexSettles
  <2> SUFFICES ASSUME CfgInv, Settled, NEW p \in Path, index[p] # None, p \notin hist.late,
                      index[p] \notin hist.unseen
               PROVE  disk[index[p]].state # "none"
    BY DEF IndexSettles
  <2>1. IndexDone /\ IndexTyped
    BY CoreParts DEF CfgInv
  <2>2. index[p] \in Config
    BY <2>1, Constants DEF IndexTyped
  <2> QED  BY <2>1, <2>2, SettledDue DEF IndexDone, Gone
<1> QED  BY <1>1, CfgInvariant, PTL

(***************************************************************************)
(* The user sees one prompt at a time, and no root is asked about twice,   *)
(* however often files without a project are opened.                       *)
(***************************************************************************)
THEOREM PromptsOnce == CfgSpec => []PromptOnce
<1>1. CfgInv => PromptOnce
  <2> SUFFICES ASSUME CfgInv PROVE PromptOnce
    OBVIOUS
  <2>1. PromptsDone /\ threads["prompt"].todo \subseteq {threads["prompt"].path}
    BY CoreParts, Constants DEF CfgInv, ThreadsFit, ThreadFits, PromptFits
  <2>2. Cardinality(threads["prompt"].todo) <= 1
    <3>1. /\ IsFiniteSet({threads["prompt"].path}) /\ Cardinality({threads["prompt"].path}) = 1
      BY FS_Singleton
    <3>2. /\ Cardinality(threads["prompt"].todo) <= Cardinality({threads["prompt"].path})
      BY <2>1, <3>1, FS_Subset
    <3> QED  BY <3>1, <3>2
  <2> QED  BY <2>1, <2>2 DEF PromptOnce, PromptsDone
<1> QED  BY <1>1, CfgInvariant, PTL
=============================================================================
