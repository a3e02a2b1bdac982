--------------------------- MODULE ServerV1Proofs ---------------------------
(***************************************************************************)
(* Proofs about the v1 server, for any documents, files, projects, account *)
(* names and flow.json.                                                    *)
(*                                                                         *)
(* V1Inv is the inductive invariant.  What a request promises about its    *)
(* reply rests on CheckerKept: the checker of a document's last check is   *)
(* still in the cache, because an import caches only what the project has  *)
(* no checker of and a document drops only its own; and on ActionsFit: the *)
(* resolvers of code actions are those of that check.  Both are open while *)
(* a change of the document is still to be checked.  ClientFits, with the  *)
(* place of each name, is what keeps the names of accounts apart.          *)
(***************************************************************************)
EXTENDS ServerV1, FiniteSetTheorems, WellFoundedInduction, TLAPS

(* An account of the client.                                               *)
AccountRecord == [name : STRING, addr : Nat, own : BOOLEAN, active : BOOLEAN]

(* The names flow.json gives to accounts.                                  *)
ConfiguredNames == {x.name : x \in Configured}

(* What the client's operations need of its accounts, and preserve: only   *)
(* the current account is marked, names are unique, and the account at     *)
(* place i has the i-th name unless it is one of flow.json.                *)
ClientFits(c) ==
  /\ c \in [accounts : Seq(AccountRecord), current : Nat]
  /\ c.current <= Len(c.accounts)
  /\ \A i \in DOMAIN c.accounts : c.accounts[i].active => c.current = i
  /\ \A i \in DOMAIN c.accounts :
       \/ i <= Len(Names) /\ c.accounts[i].name = Names[i]
       \/ c.accounts[i].name \in ConfiguredNames
  /\ \A i, j \in DOMAIN c.accounts : c.accounts[i].name = c.accounts[j].name => i = j

(* The accounts of client c are still those of client d.                   *)
AccountsKept(c, d) ==
  \A i \in DOMAIN c.accounts :
    /\ i \in DOMAIN d.accounts
    /\ d.accounts[i].name = c.accounts[i].name /\ d.accounts[i].addr = c.accounts[i].addr

-----------------------------------------------------------------------------
(* A set of numbers that is not empty has a least one.                     *)
LEMMA MinFacts ==
  ASSUME NEW S \in SUBSET Nat, S # {}
  PROVE  Min(S) \in S /\ \A i \in S : Min(S) <= i
<1> DEFINE less == {ss \in Nat \X Nat : ss[1] < ss[2]}
<1>1. OpToRel(<, Nat) = less
  BY Zenon DEF OpToRel
<1>2. PICK x \in S : \A y \in S : ~(<<y, x>> \in less)
  BY <1>1, NatLessThanWellFounded, WFMin
<1>3. ASSUME NEW y \in S PROVE x <= y
  <2>1. x \in Nat /\ y \in Nat
    OBVIOUS
  <2>2. y < x => <<y, x>> \in less
    BY <2>1
  <2> QED  BY <1>2, <2>1, <2>2
<1> QED  BY <1>2, <1>3 DEF Min

(* A function from 1 .. n is a sequence of n members.                      *)
LEMMA FunctionSeq ==
  ASSUME NEW S, NEW n \in Nat, NEW f \in [1 .. n -> S]
  PROVE  f \in Seq(S) /\ Len(f) = n
<1>1. f \in Seq(S) /\ DOMAIN f = 1 .. n
  OBVIOUS
<1>2. Len(f) \in Nat /\ DOMAIN f = 1 .. Len(f)
  BY <1>1
<1>3. 1 .. n = 1 .. Len(f)
  BY <1>1, <1>2
<1> QED  BY <1>1, <1>2, <1>3

(* GetClientAccount: the place of an account of that name, or 0.           *)
LEMMA GetClientAccountFacts ==
  ASSUME NEW c, ClientFits(c), NEW name
  PROVE  \/ /\ GetClientAccount(c, name) = 0
            /\ \A i \in DOMAIN c.accounts : c.accounts[i].name # name
         \/ /\ GetClientAccount(c, name) \in DOMAIN c.accounts
            /\ GetClientAccount(c, name) # 0
            /\ c.accounts[GetClientAccount(c, name)].name = name
<1> DEFINE hits == {i \in DOMAIN c.accounts : c.accounts[i].name = name}
<1>1. DOMAIN c.accounts = 1 .. Len(c.accounts) /\ Len(c.accounts) \in Nat
  BY DEF ClientFits
<1>2. hits \in SUBSET Nat
  BY <1>1
<1>3. CASE hits = {}
  BY <1>3 DEF GetClientAccount
<1>4. CASE hits # {}
  <2>1. Min(hits) \in hits
    BY <1>2, <1>4, MinFacts
  <2>2. GetClientAccount(c, name) = Min(hits)
    BY <1>4 DEF GetClientAccount
  <2> HIDE DEF hits
  <2>3. GetClientAccount(c, name) \in hits
    BY <2>1, <2>2
  <2> USE DEF hits
  <2> QED  BY <1>1, <2>3
<1> QED  BY <1>3, <1>4

(* The accounts of flow.json that exist on the chain have their own names. *)
LEMMA AccountsFromStateFacts ==
  ASSUME NEW n \in Nat
  PROVE  /\ AccountsFromState(n) \in Seq(AccountRecord)
         /\ \A i \in DOMAIN AccountsFromState(n) :
              /\ AccountsFromState(n)[i].name \in ConfiguredNames
              /\ ~AccountsFromState(n)[i].active
         /\ \A i, j \in DOMAIN AccountsFromState(n) :
              AccountsFromState(n)[i].name = AccountsFromState(n)[j].name => i = j
<1> DEFINE S == {x \in Configured : x.addr <= n}
           there == SetToSeq(S)
           a == AccountsFromState(n)
<1>1. IsFiniteSet(S)
  BY FS_Subset, FlowClientAssumption
<1>2. Cardinality(S) \in Nat /\ ExistsBijection(1 .. Cardinality(S), S)
  BY <1>1, FS_CardinalityType
<1>3. \E f \in [1 .. Cardinality(S) -> S] : IsInjective(f)
  BY <1>2 DEF ExistsBijection, Bijection, Injection, IsInjective
<1>4. there \in [1 .. Cardinality(S) -> S] /\ IsInjective(there)
  BY <1>3 DEF SetToSeq
<1> DEFINE m == Cardinality(S)
<1>5. \A i \in 1 .. m : there[i] \in Configured
  BY <1>4
<1>6. /\ a = [i \in 1 .. m |-> [name |-> there[i].name, addr |-> there[i].addr, own |-> TRUE,
                                active |-> FALSE]]
  BY <1>4 DEF AccountsFromState
<1> HIDE DEF a, there, m, S
<1>7. /\ DOMAIN a = 1 .. m
      /\ \A i \in 1 .. m : /\ a[i] \in AccountRecord /\ a[i].name = there[i].name
                           /\ ~a[i].active /\ a[i].name \in ConfiguredNames
  BY <1>5, <1>6, FlowClientAssumption DEF AccountRecord, ConfiguredNames
<1>8. m \in Nat
  BY <1>2 DEF m
<1>9. a \in Seq(AccountRecord)
  <2>1. a \in [1 .. m -> AccountRecord]
    BY <1>6, <1>7
  <2> QED  BY <1>8, <2>1
<1>10. \A i, j \in 1 .. m : a[i].name = a[j].name => i = j
  <2> SUFFICES ASSUME NEW i \in 1 .. m, NEW j \in 1 .. m, a[i].name = a[j].name PROVE i = j
    OBVIOUS
  <2>1. there[i] = there[j]
    BY <1>5, <1>7, FlowClientAssumption
  <2>2. DOMAIN there = 1 .. m
    BY <1>4 DEF m
  <2> QED  BY <1>4, <2>1, <2>2 DEF IsInjective
<1> QED  BY <1>7, <1>9, <1>10 DEF a

(* Names are not repeated, and flow.json's are none of them.               *)
LEMMA NamesFacts ==
  /\ Len(Names) \in Nat /\ Len(Names) # 0 /\ DOMAIN Names = 1 .. Len(Names)
  /\ \A i \in 1 .. Len(Names) : Names[i] \in STRING /\ Names[i] \notin ConfiguredNames
  /\ \A i, j \in 1 .. Len(Names) : Names[i] = Names[j] => i = j
<1>1. Len(Names) \in Nat /\ Len(Names) # 0 /\ DOMAIN Names = 1 .. Len(Names)
  BY FlowClientAssumption
<1>2. \A i \in 1 .. Len(Names) : Names[i] \in STRING /\ Names[i] \notin ConfiguredNames
  BY <1>1, FlowClientAssumption DEF ConfiguredNames, Range
<1>3. \A i, j \in 1 .. Len(Names) : Names[i] = Names[j] => i = j
  BY <1>1, FlowClientAssumption DEF IsInjective
<1> QED  BY <1>1, <1>2, <1>3

(* CreateAccount adds one account at the end, or none.                     *)
LEMMA CreateAccountFacts ==
  ASSUME NEW c, ClientFits(c), NEW addr \in Nat
  PROVE  /\ ClientFits(CreateAccount(c, addr).client)
         /\ AccountsKept(c, CreateAccount(c, addr).client)
         /\ CreateAccount(c, addr).client.current = c.current
<1> DEFINE d == CreateAccount(c, addr).client
           n == Len(c.accounts)
           new == [name |-> Names[n + 1], addr |-> addr, own |-> FALSE, active |-> FALSE]
<1>b. c.accounts \in Seq(AccountRecord)
  BY DEF ClientFits
<1>1. /\ n \in Nat /\ DOMAIN c.accounts = 1 .. n
      /\ c.current \in Nat
  BY DEF ClientFits
<1>a. c = [accounts |-> c.accounts, current |-> c.current]
  BY DEF ClientFits
<1>0. /\ c.current <= n
      /\ \A i \in 1 .. n : c.accounts[i].active => c.current = i
      /\ \A i \in 1 .. n : \/ i <= Len(Names) /\ c.accounts[i].name = Names[i]
                           \/ c.accounts[i].name \in ConfiguredNames
      /\ \A i, j \in 1 .. n : c.accounts[i].name = c.accounts[j].name => i = j
  BY <1>1 DEF ClientFits
<1>2. CASE ~(n < Len(Names))
  <2>1. d = c
    BY <1>1, <1>2, NamesFacts DEF CreateAccount
  <2> HIDE DEF d
  <2> QED  BY <2>1 DEF AccountsKept, d
<1>3. CASE n < Len(Names)
  <2>1. d = [c EXCEPT !.accounts = Append(c.accounts, new)]
    BY <1>1, <1>3, NamesFacts DEF CreateAccount
  <2> DEFINE as == Append(c.accounts, new)
  <2>2. d.accounts = as /\ d.current = c.current
    BY <1>a, <1>1, <2>1
  <2>3. d = [accounts |-> as, current |-> c.current]
    BY <1>a, <1>1, <2>1
  <2>4. new \in AccountRecord
    BY <1>1, <1>3, NamesFacts DEF AccountRecord
  <2>5. new.name = Names[n + 1] /\ ~new.active
    OBVIOUS
  <2> HIDE DEF new
  <2>a. as \in Seq(AccountRecord) /\ Len(as) = n + 1
    BY <1>b, <1>1, <2>4
  <2>b. /\ DOMAIN as = 1 .. n + 1 /\ as[n + 1] = new
        /\ \A i \in 1 .. n : as[i] = c.accounts[i]
    BY <1>b, <1>1, <2>4
  <2> HIDE DEF as, d, n
  <2>c. \A i \in 1 .. n : i \in 1 .. n + 1 /\ d.accounts[i] = c.accounts[i]
    <3>1. \A i \in 1 .. n : i \in 1 .. n + 1
      BY <1>1
    <3> QED  BY <2>2, <2>b, <3>1
  <2>d. DOMAIN d.accounts = 1 .. n + 1 /\ d.accounts[n + 1] = new
    BY <2>2, <2>b
  <2>6. AccountsKept(c, d)
    BY <1>1, <2>c, <2>d DEF AccountsKept
  <2>7. \A i \in 1 .. n : c.accounts[i].name # new.name
    <3> SUFFICES ASSUME NEW i \in 1 .. n, c.accounts[i].name = Names[n + 1] PROVE FALSE
      BY <2>5
    <3>1. n + 1 \in 1 .. Len(Names)
      BY <1>1, <1>3, NamesFacts
    <3>2. Names[n + 1] \notin ConfiguredNames
      BY <3>1, NamesFacts
    <3>3. i <= Len(Names) /\ Names[i] = Names[n + 1]
      BY <1>0, <3>2
    <3>4. i \in 1 .. Len(Names) /\ i # n + 1
      BY <1>1, <3>3, NamesFacts
    <3> QED  BY <3>1, <3>3, <3>4, NamesFacts
  <2>8. \A i \in 1 .. n + 1 : i \in 1 .. n \/ i = n + 1
    BY <1>1
  <2>9. d \in [accounts : Seq(AccountRecord), current : Nat] /\ d.current <= Len(d.accounts)
    <3>1. d.current <= Len(as)
      BY <1>0, <1>1, <2>2, <2>a
    <3> QED  BY <1>1, <2>2, <2>3, <2>a, <3>1
  <2>10. \A i \in DOMAIN d.accounts : d.accounts[i].active => d.current = i
    BY <1>0, <2>2, <2>5, <2>8, <2>c, <2>d
  <2>11. \A i \in DOMAIN d.accounts : \/ i <= Len(Names) /\ d.accounts[i].name = Names[i]
                                      \/ d.accounts[i].name \in ConfiguredNames
    <3>1. n + 1 <= Len(Names)
      BY <1>1, <1>3, NamesFacts
    <3> QED  BY <1>0, <2>5, <2>8, <2>c, <2>d, <3>1
  <2>12. \A i, j \in DOMAIN d.accounts : d.accounts[i].name = d.accounts[j].name => i = j
    BY <1>0, <2>7, <2>8, <2>c, <2>d
  <2> QED  BY <2>2, <2>6, <2>9, <2>10, <2>11, <2>12 DEF ClientFits, d
<1> QED  BY <1>2, <1>3

(* Marking account i, with the mark of the current one gone, changes no    *)
(* name or address.                                                        *)
LEMMA SetActiveFacts ==
  ASSUME NEW c, ClientFits(c), NEW name
  PROVE  /\ ClientFits(SetActiveClientAccount(c, name).client)
         /\ AccountsKept(c, SetActiveClientAccount(c, name).client)
         /\ c.current # 0 => SetActiveClientAccount(c, name).client.current # 0
<1> DEFINE d == SetActiveClientAccount(c, name).client
           n == Len(c.accounts)
           bare == IF c.current = 0 THEN c.accounts
                   ELSE [c.accounts EXCEPT ![c.current].active = FALSE]
           k == GetClientAccount(c, name)
<1>b. c.accounts \in Seq(AccountRecord)
  BY DEF ClientFits
<1>1. /\ n \in Nat /\ DOMAIN c.accounts = 1 .. n
      /\ c.current \in Nat
      /\ c.current <= n
  BY DEF ClientFits
<1>a. c = [accounts |-> c.accounts, current |-> c.current]
  BY DEF ClientFits
<1>0. /\ c.current <= n
      /\ \A i \in 1 .. n : c.accounts[i].active => c.current = i
      /\ \A i \in 1 .. n : \/ i <= Len(Names) /\ c.accounts[i].name = Names[i]
                           \/ c.accounts[i].name \in ConfiguredNames
      /\ \A i, j \in 1 .. n : c.accounts[i].name = c.accounts[j].name => i = j
  BY <1>1 DEF ClientFits
<1>2. \A i \in 1 .. n : c.accounts[i] \in AccountRecord
  BY <1>b, <1>1
<1>3. /\ DOMAIN bare = 1 .. n
      /\ \A i \in 1 .. n : /\ bare[i] \in AccountRecord /\ bare[i].name = c.accounts[i].name
                           /\ bare[i].addr = c.accounts[i].addr /\ ~bare[i].active
  <2>1. CASE c.current = 0
    <3>1. \A i \in 1 .. n : c.accounts[i].active => c.current = i
      BY <1>1 DEF ClientFits
    <3> QED  BY <1>1, <1>2, <2>1, <3>1
  <2>2. CASE c.current # 0
    <3>1. /\ DOMAIN bare = 1 .. n
          /\ \A i \in 1 .. n : bare[i] = IF i = c.current THEN [c.accounts[i] EXCEPT !.active = FALSE]
                                         ELSE c.accounts[i]
      BY <1>1, <2>2
    <3>2. \A i \in 1 .. n : c.accounts[i].active => c.current = i
      BY <1>1 DEF ClientFits
    <3> HIDE DEF bare
    <3> QED  BY <1>2, <3>1, <3>2 DEF AccountRecord
  <2> QED  BY <2>1, <2>2
<1>4. k = 0 \/ k \in 1 .. n
  BY <1>1, GetClientAccountFacts
<1> DEFINE as == IF k = 0 THEN bare ELSE [bare EXCEPT ![k].active = TRUE]
<1>5. d.accounts = as /\ d.current = (IF k = 0 THEN c.current ELSE k)
      /\ d = [accounts |-> as, current |-> IF k = 0 THEN c.current ELSE k]
  BY <1>a, <1>1 DEF SetActiveClientAccount
<1> HIDE DEF bare, k
<1>6. /\ DOMAIN as = 1 .. n
      /\ \A i \in 1 .. n : /\ as[i] \in AccountRecord /\ as[i].name = c.accounts[i].name
                           /\ as[i].addr = c.accounts[i].addr
                           /\ as[i].active => k # 0 /\ i = k
  <2>1. CASE k = 0
    BY <1>3, <2>1
  <2>2. CASE k # 0
    <3>1. \A i \in 1 .. n : as[i] = IF i = k THEN [bare[i] EXCEPT !.active = TRUE] ELSE bare[i]
      BY <1>3, <2>2
    <3>2. DOMAIN as = 1 .. n
      BY <1>3, <2>2
    <3> HIDE DEF as
    <3> QED  BY <1>3, <2>2, <3>1, <3>2 DEF AccountRecord
  <2> QED  BY <2>1, <2>2
<1> HIDE DEF d, n
<1>11. as = [i \in 1 .. n |-> as[i]]
  <2>1. CASE k = 0
    <3>1. c.accounts = [i \in 1 .. n |-> c.accounts[i]]
      BY <1>b, <1>1
    <3>2. bare = [i \in 1 .. n |-> bare[i]]
      BY <1>1, <3>1 DEF bare
    <3> QED  BY <2>1, <3>2
  <2>2. CASE k # 0
    BY <1>3, <2>2
  <2> QED  BY <2>1, <2>2
<1> HIDE DEF as
<1>7. as \in Seq(AccountRecord) /\ Len(as) = n
  <2>1. as \in [1 .. n -> AccountRecord]
    BY <1>6, <1>11
  <2> QED  BY <1>1, <2>1, FunctionSeq
<1>8. AccountsKept(c, d)
  BY <1>1, <1>5, <1>6 DEF AccountsKept
<1>9. /\ d \in [accounts : Seq(AccountRecord), current : Nat] /\ d.current <= Len(d.accounts)
  <2>1. d.current \in Nat /\ d.current <= n
    BY <1>0, <1>1, <1>4, <1>5
  <2> QED  BY <1>5, <1>7, <2>1
<1>10. ClientFits(d)
  <2>1. \A i \in DOMAIN d.accounts : d.accounts[i].active => d.current = i
    BY <1>5, <1>6
  <2>2. \A i \in DOMAIN d.accounts : \/ i <= Len(Names) /\ d.accounts[i].name = Names[i]
                                     \/ d.accounts[i].name \in ConfiguredNames
    BY <1>0, <1>1, <1>5, <1>6
  <2>3. \A i, j \in DOMAIN d.accounts : d.accounts[i].name = d.accounts[j].name => i = j
    BY <1>0, <1>1, <1>5, <1>6, ZenonT(30)
  <2> QED  BY <1>9, <2>1, <2>2, <2>3 DEF ClientFits
<1> QED  BY <1>5, <1>8, <1>10 DEF d

(* A client that was never initialized has no accounts.                    *)
LEMMA NewClientFits == ClientFits(NewClient)
  BY DEF ClientFits, NewClient

(* Initialize gives the accounts it made the first names, and those of     *)
(* flow.json their own.                                                    *)
LEMMA InitializeFacts ==
  ASSUME NEW start \in Nat, NEW n \in Nat, NEW k \in 0 .. n
  PROVE  /\ ClientFits(InitializeClient(NewClient, start, n, k).client)
         /\ InitializeClient(NewClient, start, n, k).result = "ok" =>
              InitializeClient(NewClient, start, n, k).client.current # 0
<1> DEFINE r == InitializeClient(NewClient, start, n, k)
           made == [i \in 1 .. k |-> [name |-> Names[i], addr |-> start + i, own |-> FALSE,
                                      active |-> FALSE]]
           from == AccountsFromState(start + k)
           all == made \o from
<1>1. CASE n = 0 \/ n > Len(Names)
  <2>1. r = [result |-> "error", client |-> NewClient]
    BY <1>1 DEF InitializeClient
  <2> QED  BY <2>1, NewClientFits
<1>2. CASE n # 0 /\ n <= Len(Names)
  <2>1. k \in Nat /\ k <= Len(Names)
    BY <1>2, NamesFacts
  <2>2. /\ DOMAIN made = 1 .. k
        /\ \A i \in 1 .. k : /\ i <= Len(Names) /\ made[i] \in AccountRecord
                             /\ made[i].name = Names[i] /\ ~made[i].active
                             /\ Names[i] \notin ConfiguredNames
    <3>1. \A i \in 1 .. k : i \in 1 .. Len(Names) /\ start + i \in Nat
      BY <2>1, NamesFacts
    <3>2. \A i \in 1 .. k : /\ Names[i] \in STRING /\ Names[i] \notin ConfiguredNames
                            /\ i <= Len(Names)
      BY <3>1, NamesFacts
    <3> QED  BY <3>1, <3>2 DEF AccountRecord
  <2>3. made = [i \in 1 .. k |-> made[i]]
    OBVIOUS
  <2> HIDE DEF made
  <2>4. made \in Seq(AccountRecord) /\ Len(made) = k
    <3>1. made \in [1 .. k -> AccountRecord]
      BY <2>2, <2>3
    <3> QED  BY <2>1, <3>1, FunctionSeq
  <2>5. \A i, j \in 1 .. k : made[i].name = made[j].name => i = j
    <3>1. \A i \in 1 .. k : i \in 1 .. Len(Names) /\ made[i].name = Names[i]
      BY <2>1, <2>2, NamesFacts
    <3> QED  BY <3>1, NamesFacts
  <2>6. CASE k < n
    <3>1. r = [result |-> "error", client |-> [NewClient EXCEPT !.accounts = made]]
      BY <1>2, <2>6, NamesFacts DEF InitializeClient, made
    <3>2. r.client = [accounts |-> made, current |-> 0] /\ r.result # "ok"
      BY <3>1 DEF NewClient
    <3> HIDE DEF r
    <3>3. /\ r.client.accounts = made /\ r.client.current = 0
          /\ r.client \in [accounts : Seq(AccountRecord), current : Nat]
      BY <2>4, <3>2
    <3>4. r.client.current <= Len(r.client.accounts)
      BY <2>1, <2>4, <3>3
    <3>5. ClientFits(r.client)
      BY <2>2, <2>5, <3>3, <3>4 DEF ClientFits
    <3> QED  BY <3>2, <3>5 DEF r
  <2>7. CASE k = n
    <3> DEFINE as == [all EXCEPT ![1].active = TRUE]
               m == Len(from)
    <3>1. r = [result |-> "ok", client |-> [accounts |-> as, current |-> 1]]
      <4>1. ~(n = 0 \/ n > Len(Names)) /\ ~(k < n)
        BY <1>2, <2>7, NamesFacts
      <4> QED  BY <4>1 DEF InitializeClient, made
    <3> HIDE DEF r
    <3>2. start + k \in Nat
      BY <2>1
    <3>3. /\ from \in Seq(AccountRecord) /\ m \in Nat /\ DOMAIN from = 1 .. m
      BY <3>2, AccountsFromStateFacts
    <3>4. /\ \A i \in 1 .. m : from[i].name \in ConfiguredNames /\ ~from[i].active
          /\ \A i, j \in 1 .. m : from[i].name = from[j].name => i = j
      BY <3>2, <3>3, AccountsFromStateFacts
    <3> HIDE DEF from
    <3>5. all \in Seq(AccountRecord) /\ Len(all) = k + m /\ DOMAIN all = 1 .. k + m
      BY <2>1, <2>4, <3>3
    <3>6. /\ \A i \in 1 .. k : all[i] = made[i]
          /\ \A i \in 1 .. k + m : i \notin 1 .. k => i - k \in 1 .. m /\ all[i] = from[i - k]
      BY <2>1, <2>4, <3>3
    <3>7. 1 \in 1 .. k + m /\ k + m \in Nat /\ 1 <= k + m
      BY <1>2, <2>1, <2>7, <3>3
    <3>8. \A i \in 1 .. k + m : all[i] \in AccountRecord
      BY <3>5
    <3> HIDE DEF all, m
    <3>9. \A i \in 1 .. k + m :
            /\ ~all[i].active
            /\ \/ i <= Len(Names) /\ all[i].name = Names[i]
               \/ all[i].name \in ConfiguredNames
      <4> SUFFICES ASSUME NEW i \in 1 .. k + m
                   PROVE  /\ ~all[i].active
                          /\ \/ i <= Len(Names) /\ all[i].name = Names[i]
                             \/ all[i].name \in ConfiguredNames
        OBVIOUS
      <4>1. CASE i \in 1 .. k
        BY <2>2, <3>6, <4>1
      <4>2. CASE i \notin 1 .. k
        BY <3>4, <3>6, <4>2
      <4> QED  BY <4>1, <4>2
    <3>10. \A i, j \in 1 .. k + m : all[i].name = all[j].name => i = j
      <4> SUFFICES ASSUME NEW i \in 1 .. k + m, NEW j \in 1 .. k + m, all[i].name = all[j].name
                   PROVE  i = j
        OBVIOUS
      <4>1. CASE i \in 1 .. k /\ j \in 1 .. k
        BY <2>5, <3>6, <4>1
      <4>2. CASE i \notin 1 .. k /\ j \notin 1 .. k
        <5>1. i - k = j - k
          BY <3>4, <3>6, <4>2
        <5> QED  BY <2>1, <3>7, <5>1
      <4>3. CASE i \in 1 .. k /\ j \notin 1 .. k
        BY <2>2, <3>4, <3>6, <4>3
      <4>4. CASE i \notin 1 .. k /\ j \in 1 .. k
        BY <2>2, <3>4, <3>6, <4>4
      <4> QED  BY <4>1, <4>2, <4>3, <4>4
    <3>11. /\ DOMAIN as = 1 .. k + m
           /\ \A i \in 1 .. k + m :
                as[i] = IF i = 1 THEN [all[i] EXCEPT !.active = TRUE] ELSE all[i]
      BY <3>5, <3>7
    <3>12. as = [i \in 1 .. k + m |-> as[i]]
      BY <3>5
    <3> HIDE DEF as
    <3>13. \A i \in 1 .. k + m : /\ as[i] \in AccountRecord /\ as[i].name = all[i].name
                                 /\ as[i].active => i = 1
      BY <3>8, <3>9, <3>11 DEF AccountRecord
    <3>14. as \in Seq(AccountRecord) /\ Len(as) = k + m
      <4>1. as \in [1 .. k + m -> AccountRecord]
        BY <3>12, <3>13
      <4> QED  BY <3>7, <4>1, FunctionSeq
    <3>15. r.client.accounts = as /\ r.client.current = 1
      BY <3>1
    <3>16. r.client \in [accounts : Seq(AccountRecord), current : Nat]
      <4>1. r.client = [accounts |-> as, current |-> 1]
        BY <3>1
      <4>2. as \in Seq(AccountRecord)
        BY <3>14
      <4>3. [accounts |-> as, current |-> 1] \in [accounts : Seq(AccountRecord), current : Nat]
        BY <4>2
      <4> QED  BY <4>1, <4>3, Zenon
    <3>17. r.client.current <= Len(r.client.accounts)
      BY <3>7, <3>14, <3>15
    <3>18. \A i \in 1 .. k + m : /\ as[i].active => i = 1
                                 /\ \/ i <= Len(Names) /\ as[i].name = Names[i]
                                    \/ as[i].name \in ConfiguredNames
      BY <3>9, <3>13
    <3>19. \A i, j \in 1 .. k + m : as[i].name = as[j].name => i = j
      BY <3>10, <3>13
    <3>21. ClientFits(r.client)
      BY <3>11, <3>15, <3>16, <3>17, <3>18, <3>19 DEF ClientFits
    <3> QED  BY <3>15, <3>21 DEF r
  <2> QED  BY <2>1, <2>6, <2>7
<1> QED  BY <1>1, <1>2, NamesFacts

-----------------------------------------------------------------------------
(* Imports                                                                 *)

(* The types of what checks work on, with a text for the document that is  *)
(* being checked.                                                          *)
CheckTypes ==
  /\ disk \in [Loc -> Text \cup {None}]
  /\ projects \in Nat /\ project \in 0 .. projects
  /\ documents \in [Doc -> [text : Text \cup {None}, version : Nat]]
  /\ checking \in Doc \cup {None}
  /\ \A u \in Doc : checking = u => documents[u].text \in Text
  /\ checks \in Nat
  /\ resolvers \in [Doc -> [id : Nat, text : Text \cup {None}, project : Nat]]
  /\ published \in [Doc -> [id : Nat, text : Text \cup {None}, valid : BOOLEAN]]
  /\ checkedIn \in [Doc -> Nat \cup {None}]
  /\ \A d \in saw : d.id # 0

(* A project caches at most one checker of a location.                     *)
CacheTypes ==
  /\ \A c \in cache : c.project \in Nat /\ c.loc \in Loc /\ c.text \in Text
  /\ \A c, d \in cache : c.project = d.project /\ c.loc = d.loc => c = d

(* A location is among those looked at to import it.                       *)
LEMMA ReachedSelf ==
  ASSUME NEW g, NEW l \in Loc
  PROVE  l \in Reached(g, {l})
  BY DEF Reached

(* The checkers that importing the locations of S caches.                  *)
PutsOf(g, lib, S) == UNION {HandleImport(g, lib)[s].put : s \in S}

(* Checkers of the project of now and of locations that have none there.   *)
Fresh(puts) ==
  /\ \A c \in puts : /\ c.project = project /\ c.project \in Nat /\ c.loc \in Loc
                     /\ c.text \in Text /\ CachedAt(project, c.loc) = {}
  /\ \A c, d \in puts : c.loc = d.loc => c = d

(* The checkers an import caches are of the project of now and of files    *)
(* that had none, one for each.                                            *)
LEMMA PutFacts ==
  ASSUME CheckTypes, NEW g, NEW lib, NEW S \in SUBSET Loc
  PROVE  Fresh(PutsOf(g, lib, S))
<1> DEFINE Put(k) == [project |-> project, loc |-> k, text |-> disk[k], lib |-> lib, mode |-> mode,
                      deps |-> {<<s, ImportText(s)>> : s \in ImportsOf(g, k)}]
           new == {k \in Loc : Uncached(k) /\ ImportOk(g, k)}
           puts == PutsOf(g, lib, S)
<1>1. \A s \in S : HandleImport(g, lib)[s].put
                     = {Put(k) : k \in {k \in Reached(g, {s}) : Uncached(k) /\ ImportOk(g, k)}}
  BY DEF HandleImport
<1>2. \A s : Reached(g, {s}) \subseteq Loc
  BY DEF Reached
<1>3. \A c \in puts : \E k \in new : c = Put(k)
  <2> SUFFICES ASSUME NEW c \in puts PROVE \E k \in new : c = Put(k)
    OBVIOUS
  <2>1. PICK s \in S : c \in HandleImport(g, lib)[s].put
    BY DEF PutsOf
  <2>2. PICK k \in Reached(g, {s}) : Uncached(k) /\ ImportOk(g, k) /\ c = Put(k)
    BY <1>1, <2>1
  <2> QED  BY <1>2, <2>2
<1>4. \A k \in new : disk[k] \in Text /\ CachedAt(project, k) = {}
  <2> SUFFICES ASSUME NEW k \in new PROVE disk[k] \in Text /\ CachedAt(project, k) = {}
    OBVIOUS
  <2>1. ~ImportFails(g, k)
    BY ReachedSelf DEF ImportOk
  <2> QED  BY <2>1 DEF ImportFails, ResolveImport, Uncached, CheckTypes
<1>5. \A k : Put(k).project = project /\ Put(k).loc = k /\ Put(k).text = disk[k]
  OBVIOUS
<1>6. project \in Nat
  BY DEF CheckTypes
<1> HIDE DEF Put, new
<1>7. \A k \in new : k \in Loc
  BY DEF new
<1> HIDE DEF puts
<1>8. Fresh(puts)
  BY <1>3, <1>4, <1>5, <1>6, <1>7 DEF Fresh
<1> QED  BY <1>8 DEF puts

(* A location with a cached checker is imported from it, and looked at no  *)
(* further.                                                                *)
LEMMA CachedImportFacts ==
  ASSUME CacheTypes, NEW contracts, NEW w \in Loc \ Builtin, NEW c \in CachedAt(project, w)
  PROVE  ImportOk(ImportGraph(contracts), w) /\ ImportText(w) = c.text
<1> DEFINE g == ImportGraph(contracts)
<1>1. ~Uncached(w)
  BY DEF Uncached
<1>2. \A e \in g : e[1] # w
  BY <1>1 DEF ImportGraph
<1> HIDE DEF g
<1>3. \A k \in Reached(g, {w}) : k = w
  <2> DEFINE closed == {R \in SUBSET Loc : {w} \subseteq R /\ \A e \in g : e[1] \in R => e[2] \in R}
  <2>1. {w} \in closed
    BY <1>2
  <2>2. \A k \in Reached(g, {w}) : \A R \in closed : k \in R
    BY DEF Reached
  <2> HIDE DEF closed
  <2> QED  BY <2>1, <2>2
<1>4. ImportOk(g, w)
  BY <1>1, <1>3 DEF ImportOk, ImportFails
<1>5. (CHOOSE d \in CachedAt(project, w) : TRUE) = c
  BY DEF CachedAt, CacheTypes
<1> QED  BY <1>1, <1>4, <1>5 DEF ImportText, g

-----------------------------------------------------------------------------
(* Checks                                                                  *)

(* A document whose last check was of its text has a checker of it in the  *)
(* project of that check.                                                  *)
CheckerKept(u) ==
  checking # u /\ published[u].id # 0 /\ published[u].text = documents[u].text
    /\ documents[u].text \notin NoProgram /\ checkedIn[u] # None =>
      \E c \in CachedAt(checkedIn[u], u) : c.text = documents[u].text

(* The resolvers of a document's code actions are of its last check, and   *)
(* of the text it has, unless a change of it is still to be checked.       *)
ActionsFit(u) ==
  resolvers[u].id # 0 => /\ resolvers[u].project = checkedIn[u]
                         /\ checking # u => resolvers[u].text = documents[u].text

(* What checks keep true.                                                  *)
CheckInv ==
  /\ CheckTypes
  /\ CacheTypes
  /\ \A u \in Doc : CheckerKept(u)
  /\ \A u \in Doc : ActionsFit(u)

(* Nothing that checks work on changes.                                    *)
CheckStays == UNCHANGED <<disk, project, projects, checkVars>>

(* Steps that touch nothing of it keep the invariant of checks.            *)
LEMMA CheckStay ==
  ASSUME CheckInv, CheckStays
  PROVE  CheckInv'
<1> USE DEF CheckInv, CheckStays, checkVars
<1>1. CheckTypes'
  BY DEF CheckTypes
<1>2. CacheTypes'
  BY DEF CacheTypes
<1>3. ASSUME NEW u \in Doc PROVE CheckerKept(u)' /\ ActionsFit(u)'
  BY DEF CheckerKept, ActionsFit, CachedAt
<1> QED  BY <1>1, <1>2, <1>3

(* Files and the project of now are no part of what was checked.           *)
LEMMA WriteChecks ==
  ASSUME CheckInv, WriteFlowJson \/ \E l \in Loc : WriteFile(l)
  PROVE  CheckInv'
<1> USE DEF CheckInv, checkVars
<1>1. UNCHANGED checkVars
  BY DEF WriteFlowJson, WriteFile
<1>2. CheckTypes'
  <2>1. CASE WriteFlowJson
    <3>1. disk' = disk /\ projects' = projects + 1 /\ project' \in {0, projects + 1}
      BY <2>1 DEF WriteFlowJson
    <3>2. projects' \in Nat /\ project' \in 0 .. projects'
      BY <3>1 DEF CheckTypes
    <3> QED  BY <1>1, <3>1, <3>2 DEF CheckTypes
  <2>2. ASSUME NEW l \in Loc, WriteFile(l) PROVE CheckTypes'
    <3>1. PICK t \in DiskTexts[l] : disk' = [disk EXCEPT ![l] = t]
      BY <2>2 DEF WriteFile
    <3>2. disk' \in [Loc -> Text \cup {None}]
      BY <3>1, ServerV1Assumption DEF CheckTypes
    <3>3. project' = project /\ projects' = projects
      BY <2>2 DEF WriteFile
    <3> QED  BY <1>1, <3>2, <3>3 DEF CheckTypes
  <2> QED  BY <2>1, <2>2
<1>3. CacheTypes'
  BY <1>1 DEF CacheTypes
<1>4. ASSUME NEW u \in Doc PROVE CheckerKept(u)' /\ ActionsFit(u)'
  BY <1>1 DEF CheckerKept, ActionsFit, CachedAt
<1> QED  BY <1>2, <1>3, <1>4

(* Opening and changing a document: its own checker of the project of now  *)
(* may go, but then its check is still to come.                            *)
LEMMA EditChecks ==
  ASSUME CheckInv, NEW u \in Doc, NEW t \in DocTexts[u], DidOpen(u, t) \/ DidChange(u, t)
  PROVE  CheckInv'
<1> USE DEF CheckInv
<1>1. t \in Text
  BY ServerV1Assumption
<1>2. /\ documents' \in [Doc -> [text : Text \cup {None}, version : Nat]]
      /\ documents'[u].text = t /\ \A w \in Doc \ {u} : documents'[w] = documents[w]
  <2>1. documents[u].version \in Nat /\ documents \in [Doc -> [text : Text \cup {None}, version : Nat]]
    BY DEF CheckTypes
  <2>2. PICK v \in Nat : documents' = [documents EXCEPT ![u] = [text |-> t, version |-> v]]
    <3>1. CASE DidOpen(u, t)
      BY <3>1 DEF DidOpen
    <3>2. CASE DidChange(u, t)
      <4>1. documents' = [documents EXCEPT ![u] = [text |-> t, version |-> documents[u].version + 1]]
        BY <2>1, <3>2 DEF DidChange
      <4>2. documents[u].version + 1 \in Nat
        BY <2>1
      <4> WITNESS documents[u].version + 1 \in Nat
      <4> QED  BY <4>1
    <3> QED  BY <3>1, <3>2
  <2> QED  BY <1>1, <2>1, <2>2
<1>3. checking' = u /\ checking = None
  BY DEF DidOpen, DidChange, Reading
<1>4. cache' \subseteq cache /\ \A c \in cache : c.loc # u => c \in cache'
  BY DEF DidOpen, DidChange, CachedAt
<1>5. UNCHANGED <<disk, project, projects, checks, resolvers, published, checkedIn, saw>>
  BY DEF DidOpen, DidChange, envVars
<1>6. CheckTypes'
  BY <1>1, <1>2, <1>3, <1>5 DEF CheckTypes
<1>7. CacheTypes'
  BY <1>4 DEF CacheTypes
<1>8. ASSUME NEW w \in Doc PROVE CheckerKept(w)' /\ ActionsFit(w)'
  <2>1. u # None /\ w # None
    BY ServerV1Assumption
  <2>2. CASE w = u
    BY <1>3, <1>5, <2>2 DEF CheckerKept, ActionsFit
  <2>3. CASE w # u
    BY <1>2, <1>3, <1>4, <1>5, <2>1, <2>3 DEF CheckerKept, ActionsFit, CachedAt
  <2> QED  BY <2>2, <2>3
<1> QED  BY <1>6, <1>7, <1>8

(* What publishing the diagnostics of document u changes.                  *)
LEMMA PublishFacts ==
  ASSUME CheckTypes, NEW u \in Doc, NEW t \in Text, NEW valid \in BOOLEAN, Publish(u, t, valid)
  PROVE  /\ checks' \in Nat
         /\ published' \in [Doc -> [id : Nat, text : Text \cup {None}, valid : BOOLEAN]]
         /\ resolvers' \in [Doc -> [id : Nat, text : Text \cup {None}, project : Nat]]
         /\ \A d \in saw' : d.id # 0
         /\ \A w \in Doc \ {u} : published'[w] = published[w] /\ resolvers'[w] = resolvers[w]
         /\ resolvers'[u].id # 0 => resolvers'[u].project = project /\ resolvers'[u].text = t
<1> USE DEF Publish
<1>1. checks \in Nat /\ project \in Nat /\ checks' = checks + 1
  BY DEF CheckTypes
<1>2. checks' \in Nat /\ checks' # 0
  BY <1>1
<1>3. published' \in [Doc -> [id : Nat, text : Text \cup {None}, valid : BOOLEAN]]
  <2> DEFINE p == [id |-> checks + 1, text |-> t, valid |-> valid]
  <2>1. p \in [id : Nat, text : Text \cup {None}, valid : BOOLEAN]
    BY <1>1
  <2>2. published' = [published EXCEPT ![u] = p]
    OBVIOUS
  <2> HIDE DEF p
  <2> QED  BY <2>1, <2>2 DEF CheckTypes
<1> DEFINE r == IF Fixes(t) = {} THEN NoResolvers
                ELSE [id |-> checks + 1, text |-> t, project |-> project]
<1>4. /\ r \in [id : Nat, text : Text \cup {None}, project : Nat]
      /\ r.id # 0 => r.project = project /\ r.text = t
  <2>1. CASE Fixes(t) = {}
    BY <2>1 DEF NoResolvers
  <2>2. CASE Fixes(t) # {}
    BY <1>1, <2>2
  <2> QED  BY <2>1, <2>2
<1>5. resolvers' = [resolvers EXCEPT ![u] = r]
  OBVIOUS
<1> HIDE DEF r
<1>6. /\ resolvers' \in [Doc -> [id : Nat, text : Text \cup {None}, project : Nat]]
      /\ resolvers'[u] = r /\ \A w \in Doc \ {u} : resolvers'[w] = resolvers[w]
  BY <1>4, <1>5 DEF CheckTypes
<1>7. \A w \in Doc \ {u} : published'[w] = published[w]
  BY DEF CheckTypes
<1>8. \A d \in saw' : d.id # 0
  <2>1. \A d \in saw' : d \in saw \/ d = [uri |-> u, id |-> checks + 1]
    OBVIOUS
  <2>2. [uri |-> u, id |-> checks + 1].id # 0
    BY <1>1
  <2> QED  BY <2>1, <2>2 DEF CheckTypes
<1> QED  BY <1>2, <1>3, <1>4, <1>6, <1>7, <1>8

(* What a check leaves in the cache: the one checker it made of document   *)
(* u, if its text has a program, and all checkers of other documents and   *)
(* projects.                                                               *)
LEMMA CheckCache ==
  ASSUME CheckInv, NEW u \in Doc, checking = u, Check
  PROVE  /\ CacheTypes'
         /\ \A c \in cache : c.project # project \/ c.loc # u => c \in cache'
         /\ documents[u].text \notin NoProgram =>
              \E c \in cache' : c.project = project /\ c.loc = u /\ c.text = documents[u].text
         /\ \E valid \in BOOLEAN : Publish(u, documents[u].text, valid)
<1> DEFINE t == documents[u].text
<1>0. CheckTypes /\ CacheTypes
  BY DEF CheckInv
<1>1. t \in Text /\ u \in Loc /\ project \in Nat
  BY <1>0, ServerV1Assumption DEF CheckTypes
<1>2. CASE t \in NoProgram
  <2>1. cache' = cache \ CachedAt(project, u) /\ Publish(u, t, FALSE)
    BY <1>2 DEF Check
  <2>2. CacheTypes'
    BY <1>0, <2>1 DEF CacheTypes
  <2>3. \A c \in cache : c.project # project \/ c.loc # u => c \in cache'
    BY <2>1 DEF CachedAt
  <2>4. \E valid \in BOOLEAN : Publish(u, t, valid)
    BY <2>1
  <2> QED  BY <1>2, <2>2, <2>3, <2>4
<1>3. CASE t \notin NoProgram
  <2>1. PICK contracts \in SUBSET (Loc \ (Doc \cup Builtin)) :
          /\ cache' = {c \in cache \cup RootCheck(u, contracts).puts : c.project # project \/ c.loc # u}
                        \cup {RootCheck(u, contracts).checker}
          /\ Publish(u, t, RootCheck(u, contracts).clean)
    BY <1>3 DEF Check
  <2> DEFINE g == ImportGraph(contracts)
             puts == RootCheck(u, contracts).puts
             new == RootCheck(u, contracts).checker
             subs == ResolvedLocations(t, contracts) \ {u}
  <2>2. puts = PutsOf(g, LibOf(t), subs)
    BY DEF RootCheck, PutsOf
  <2>3. new.project = project /\ new.loc = u /\ new.text = t
    BY DEF RootCheck
  <2>4. RootCheck(u, contracts).clean \in BOOLEAN
    BY DEF RootCheck
  <2>5. subs \in SUBSET Loc
    BY DEF ResolvedLocations
  <2> HIDE DEF g, puts, new, subs
  <2>6. /\ \A c \in puts : /\ c.project = project /\ c.project \in Nat /\ c.loc \in Loc
                           /\ c.text \in Text /\ CachedAt(project, c.loc) = {}
        /\ \A c, d \in puts : c.loc = d.loc => c = d
    BY <1>0, <2>2, <2>5, PutFacts DEF Fresh
  <2>7. cache' = {c \in cache \cup puts : c.project # project \/ c.loc # u} \cup {new}
    BY <2>1 DEF puts, new
  <2>8. \A c \in cache' : c.project \in Nat /\ c.loc \in Loc /\ c.text \in Text
    BY <1>0, <1>1, <2>3, <2>6, <2>7 DEF CacheTypes
  <2>9. ASSUME NEW c \in cache', NEW d \in cache', c.project = d.project, c.loc = d.loc
        PROVE  c = d
    <3>1. CASE c = new \/ d = new
      BY <2>3, <2>7, <2>9, <3>1
    <3>2. CASE c \in cache /\ d \in cache
      BY <1>0, <2>9, <3>2 DEF CacheTypes
    <3>3. CASE c \in puts /\ d \in puts
      BY <2>6, <2>9, <3>3
    <3>4. CASE c \in puts /\ d \in cache
      BY <2>6, <2>9, <3>4 DEF CachedAt
    <3>5. CASE c \in cache /\ d \in puts
      BY <2>6, <2>9, <3>5 DEF CachedAt
    <3> QED  BY <2>7, <3>1, <3>2, <3>3, <3>4, <3>5
  <2>10. CacheTypes'
    BY <2>8, <2>9 DEF CacheTypes
  <2>11. \A c \in cache : c.project # project \/ c.loc # u => c \in cache'
    BY <2>7
  <2>12. new \in cache' /\ new.text = t
    BY <2>3, <2>7
  <2> QED  BY <2>1, <2>3, <2>4, <2>10, <2>11, <2>12
<1> QED  BY <1>2, <1>3

(* A check leaves a checker of the text it published, and code actions of  *)
(* that text only; other documents keep theirs.                            *)
LEMMA CheckChecks ==
  ASSUME CheckInv, Check
  PROVE  CheckInv'
<1>0. CheckTypes /\ CacheTypes
  BY DEF CheckInv
<1>1. PICK u \in Doc : checking = u
  BY <1>0 DEF Check, CheckTypes
<1> DEFINE t == documents[u].text
<1>2. /\ checkedIn' = [checkedIn EXCEPT ![u] = project] /\ checking' = None
      /\ UNCHANGED <<disk, project, projects, documents>>
  BY <1>1 DEF Check, envVars
<1>3. t \in Text /\ project \in Nat
  BY <1>0, <1>1 DEF CheckTypes
<1>4. PICK valid \in BOOLEAN : Publish(u, t, valid)
  BY <1>1, CheckCache
<1>5. \A w \in Doc : w # None
  BY ServerV1Assumption
<1>6. CheckTypes'
  <2>1. checkedIn' \in [Doc -> Nat \cup {None}]
    BY <1>0, <1>2, <1>3 DEF CheckTypes
  <2>2. /\ checks' \in Nat
        /\ published' \in [Doc -> [id : Nat, text : Text \cup {None}, valid : BOOLEAN]]
        /\ resolvers' \in [Doc -> [id : Nat, text : Text \cup {None}, project : Nat]]
        /\ \A d \in saw' : d.id # 0
    BY <1>0, <1>3, <1>4, PublishFacts
  <2>3. disk' \in [Loc -> Text \cup {None}] /\ projects' \in Nat /\ project' \in 0 .. projects'
    BY <1>0, <1>2 DEF CheckTypes
  <2>4. documents' \in [Doc -> [text : Text \cup {None}, version : Nat]]
    BY <1>0, <1>2 DEF CheckTypes
  <2>5. \A w \in Doc : checking' # w
    BY <1>2, <1>5
  <2> QED  BY <1>2, <2>1, <2>2, <2>3, <2>4, <2>5 DEF CheckTypes
<1>7. CacheTypes'
  BY <1>1, CheckCache
<1>8. ASSUME NEW w \in Doc PROVE CheckerKept(w)' /\ ActionsFit(w)'
  <2>1. CASE w = u
    <3>1. checkedIn'[u] = project /\ documents' = documents /\ project # None
      BY <1>0, <1>2, <1>3, ServerV1Assumption DEF CheckTypes
    <3>2. resolvers'[u].id # 0 => resolvers'[u].project = project /\ resolvers'[u].text = t
      BY <1>0, <1>3, <1>4, PublishFacts
    <3>3. t \notin NoProgram => \E c \in cache' : c.project = project /\ c.loc = u /\ c.text = t
      BY <1>1, CheckCache
    <3> QED  BY <2>1, <3>1, <3>2, <3>3 DEF CheckerKept, ActionsFit, CachedAt
  <2>2. CASE w # u
    <3>1. published'[w] = published[w] /\ resolvers'[w] = resolvers[w]
      BY <1>0, <1>3, <1>4, <2>2, PublishFacts
    <3>2. checkedIn'[w] = checkedIn[w] /\ documents' = documents
      BY <1>0, <1>2, <2>2 DEF CheckTypes
    <3>3. \A c \in cache : c.loc = w => c \in cache'
      BY <1>1, <2>2, CheckCache
    <3>4. checking # w /\ CheckerKept(w) /\ ActionsFit(w)
      BY <1>1, <2>2 DEF CheckInv
    <3> QED  BY <3>1, <3>2, <3>3, <3>4 DEF CheckerKept, ActionsFit, CachedAt
  <2> QED  BY <2>1, <2>2
<1> QED  BY <1>6, <1>7, <1>8 DEF CheckInv

(* A check that panics caches imports, and forgets the code actions.       *)
LEMMA PanicChecks ==
  ASSUME CheckInv, CheckPanics
  PROVE  CheckInv'
<1>0. CheckTypes /\ CacheTypes
  BY DEF CheckInv
<1>1. PICK u \in Doc : checking = u
  BY <1>0 DEF CheckPanics, CheckTypes
<1>2. /\ checkedIn' = [checkedIn EXCEPT ![u] = None] /\ checking' = None
      /\ resolvers' = [resolvers EXCEPT ![u] = NoResolvers]
      /\ UNCHANGED <<disk, project, projects, documents, checks, published, saw>>
  BY <1>1 DEF CheckPanics, envVars
<1>3. PICK before \in SUBSET Loc :
        cache' = cache \cup PutsOf(ImportGraph({}), LibOf(documents[u].text), before)
  <2>1. PICK before \in SUBSET ((Imports[documents[checking].text] \cap Loc) \ {checking}) :
          cache' = cache \cup PutsOf(ImportGraph({}), LibOf(documents[checking].text), before)
    BY DEF CheckPanics, PutsOf
  <2>2. before \in SUBSET Loc
    OBVIOUS
  <2> QED  BY <1>1, <2>1, <2>2
<1>4. PICK puts :
        /\ cache' = cache \cup puts
        /\ \A c \in puts : /\ c.project = project /\ c.project \in Nat /\ c.loc \in Loc
                           /\ c.text \in Text /\ CachedAt(project, c.loc) = {}
        /\ \A c, d \in puts : c.loc = d.loc => c = d
  BY <1>0, <1>3, PutFacts DEF Fresh
<1>5. \A w \in Doc : w # None
  BY ServerV1Assumption
<1>6. CheckTypes'
  <2>1. checkedIn' \in [Doc -> Nat \cup {None}]
    BY <1>0, <1>2 DEF CheckTypes
  <2>2. resolvers' \in [Doc -> [id : Nat, text : Text \cup {None}, project : Nat]]
    BY <1>0, <1>2 DEF CheckTypes, NoResolvers
  <2>3. \A w \in Doc : checking' # w
    BY <1>2, <1>5
  <2> QED  BY <1>0, <1>2, <2>1, <2>2, <2>3 DEF CheckTypes
<1>7. CacheTypes'
  <2>1. \A c \in cache' : c.project \in Nat /\ c.loc \in Loc /\ c.text \in Text
    BY <1>0, <1>4 DEF CacheTypes
  <2>2. ASSUME NEW c \in cache', NEW d \in cache', c.project = d.project, c.loc = d.loc
        PROVE  c = d
    <3>1. CASE c \in cache /\ d \in cache
      BY <1>0, <2>2, <3>1 DEF CacheTypes
    <3>2. CASE c \in puts /\ d \in puts
      BY <1>4, <2>2, <3>2
    <3>3. CASE c \in puts /\ d \in cache
      BY <1>4, <2>2, <3>3 DEF CachedAt
    <3>4. CASE c \in cache /\ d \in puts
      BY <1>4, <2>2, <3>4 DEF CachedAt
    <3> QED  BY <1>4, <3>1, <3>2, <3>3, <3>4
  <2> QED  BY <2>1, <2>2 DEF CacheTypes
<1>8. ASSUME NEW w \in Doc PROVE CheckerKept(w)' /\ ActionsFit(w)'
  <2>1. CASE w = u
    <3>1. checkedIn'[u] = None /\ resolvers'[u].id = 0
      BY <1>0, <1>2 DEF CheckTypes, NoResolvers
    <3> QED  BY <2>1, <3>1 DEF CheckerKept, ActionsFit
  <2>2. CASE w # u
    <3>1. /\ checkedIn'[w] = checkedIn[w] /\ resolvers'[w] = resolvers[w]
          /\ documents' = documents /\ published' = published
      BY <1>0, <1>2, <2>2 DEF CheckTypes
    <3>2. checking # w /\ CheckerKept(w) /\ ActionsFit(w)
      BY <1>1, <2>2 DEF CheckInv
    <3>3. cache \subseteq cache'
      BY <1>4
    <3> QED  BY <3>1, <3>2, <3>3 DEF CheckerKept, ActionsFit, CachedAt
  <2> QED  BY <2>1, <2>2
<1> QED  BY <1>6, <1>7, <1>8 DEF CheckInv

-----------------------------------------------------------------------------
(* Completions                                                             *)

(* What completions keep true.                                             *)
CompletionInv ==
  /\ members \in [Doc -> Nat] /\ ranges \in [Doc -> Nat] /\ completions \in Nat
  /\ latest \in [Doc -> [kind : {"none", "member", "range"}, id : Nat]]
  /\ LatestItemsResolve

(* Only completions change what completions keep.                          *)
LEMMA CompletionStay ==
  ASSUME CompletionInv, UNCHANGED completionVars
  PROVE  CompletionInv'
  BY DEF CompletionInv, completionVars, LatestItemsResolve, ResolvedBy

(* A completion refills the map of its own kind, and the items of the      *)
(* other kind are no longer the last ones.                                 *)
LEMMA CompletionCompletes ==
  ASSUME CompletionInv, NEW u \in Doc, NEW found \in {"member", "range", "keyword"},
         Completion(u, found)
  PROVE  CompletionInv'
<1>1. CASE UNCHANGED completionVars
  BY <1>1, CompletionStay
<1>2. CASE /\ completions' = completions + 1
           /\ members' = [members EXCEPT ![u] = MemberCompletions(u, found)]
           /\ ranges' = [ranges EXCEPT ![u] = RangeCompletions(u, found)]
           /\ latest' = [latest EXCEPT ![u] =
                           IF found = "keyword" THEN NoCompletion
                           ELSE [kind |-> found, id |-> completions + 1]]
  <2> DEFINE item == IF found = "keyword" THEN NoCompletion
                     ELSE [kind |-> found, id |-> completions + 1]
  <2>1. completions \in Nat /\ ranges[u] \in Nat /\ members[u] \in Nat
    BY DEF CompletionInv
  <2>2. MemberCompletions(u, found) \in Nat /\ RangeCompletions(u, found) \in Nat
    BY <2>1 DEF MemberCompletions, RangeCompletions
  <2>3. item \in [kind : {"none", "member", "range"}, id : Nat]
    <3>1. completions + 1 \in Nat
      BY <2>1
    <3>2. CASE found = "keyword"
      BY <3>2 DEF NoCompletion
    <3>3. CASE found # "keyword"
      BY <3>1, <3>3
    <3> QED  BY <3>2, <3>3
  <2>4. item = NoCompletion \/ item.id = (IF item.kind = "member" THEN MemberCompletions(u, found)
                                         ELSE RangeCompletions(u, found))
    BY DEF MemberCompletions, RangeCompletions
  <2> HIDE DEF item
  <2>5. /\ members' \in [Doc -> Nat] /\ ranges' \in [Doc -> Nat] /\ completions' \in Nat
        /\ latest' \in [Doc -> [kind : {"none", "member", "range"}, id : Nat]]
    BY <1>2, <2>1, <2>2, <2>3 DEF CompletionInv, item
  <2>6. /\ members'[u] = MemberCompletions(u, found) /\ ranges'[u] = RangeCompletions(u, found)
        /\ latest'[u] = item
    BY <1>2 DEF CompletionInv, item
  <2>7. \A w \in Doc \ {u} : /\ members'[w] = members[w] /\ ranges'[w] = ranges[w]
                             /\ latest'[w] = latest[w]
    BY <1>2 DEF CompletionInv
  <2>8. ASSUME NEW w \in Doc, latest'[w] # NoCompletion
        PROVE  (IF latest'[w].kind = "member" THEN members'[w] ELSE ranges'[w]) = latest'[w].id
    <3>1. CASE w = u
      BY <2>4, <2>6, <2>8, <3>1
    <3>2. CASE w # u
      BY <2>7, <2>8, <3>2 DEF CompletionInv, LatestItemsResolve, ResolvedBy
    <3> QED  BY <3>1, <3>2
  <2>9. LatestItemsResolve'
    BY <2>8 DEF LatestItemsResolve, ResolvedBy, NoCompletion
  <2> QED  BY <2>5, <2>9 DEF CompletionInv
<1> QED  BY <1>1, <1>2 DEF Completion

-----------------------------------------------------------------------------
(* The Flow client                                                         *)

(* A signer that was shown is an account of the client.                    *)
ShownKept ==
  \A s \in shown : \E i \in DOMAIN client.accounts :
    client.accounts[i].name = s.name /\ client.accounts[i].addr = s.addr

(* What the Flow integration keeps true.                                   *)
FlowInv ==
  /\ infos \in [Doc -> [contract : Entry, entry : Entry]]
  /\ ClientFits(client)
  /\ ready => client.current # 0
  /\ chain \in Nat
  /\ ~initialized => client = NewClient /\ shown = {}
  /\ ShownKept

(* Nothing of the Flow integration changes.                                *)
FlowStays == UNCHANGED <<flowVars, initialized>>

(* Steps that touch nothing of the client keep its invariant.              *)
LEMMA FlowStay ==
  ASSUME FlowInv, FlowStays
  PROVE  FlowInv'
<1>1. UNCHANGED <<infos, client, ready, chain, shown, initialized>>
  BY DEF FlowStays, flowVars
<1>2. ClientFits(client) => ClientFits(client')
  BY <1>1
<1>3. ShownKept'
  BY <1>1 DEF FlowInv, ShownKept
<1> QED  BY <1>1, <1>2, <1>3 DEF FlowInv

(* A client whose accounts are kept keeps those that were shown.           *)
LEMMA KeptShown ==
  ASSUME ShownKept, AccountsKept(client, client'), shown' = shown
  PROVE  ShownKept'
  BY DEF ShownKept, AccountsKept

(* Initialize makes a fitting client of the one without accounts, also     *)
(* when it fails half way.                                                 *)
LEMMA InitializeFlow ==
  ASSUME FlowInv, Initialize
  PROVE  FlowInv'
<1>1. ~initialized /\ client = NewClient /\ shown = {} /\ initialized' = TRUE
  BY DEF FlowInv, Initialize
<1>2. infos' = infos /\ shown' = shown
  BY DEF Initialize
<1>3. ShownKept'
  BY <1>1, <1>2 DEF ShownKept
<1>4. CASE UNCHANGED <<client, ready, chain>>
  BY <1>1, <1>2, <1>3, <1>4 DEF FlowInv
<1>5. ASSUME NEW n \in AccountNumbers, NEW k \in 0 .. n,
             client' = InitializeClient(client, chain, n, k).client,
             chain' = IF 0 < n /\ n <= Len(Names) THEN chain + k ELSE chain,
             ready' = (InitializeClient(client, chain, n, k).result = "ok")
      PROVE  FlowInv'
  <2>1. n \in Nat /\ chain \in Nat
    BY ServerV1Assumption DEF FlowInv
  <2>2. /\ ClientFits(InitializeClient(NewClient, chain, n, k).client)
        /\ InitializeClient(NewClient, chain, n, k).result = "ok" =>
             InitializeClient(NewClient, chain, n, k).client.current # 0
    BY <2>1, InitializeFacts
  <2>3. ClientFits(client') /\ (ready' => client'.current # 0)
    BY <1>1, <1>5, <2>2
  <2>4. chain' \in Nat
    BY <1>5, <2>1
  <2> QED  BY <1>1, <1>2, <1>3, <2>3, <2>4 DEF FlowInv
<1> QED  BY <1>4, <1>5 DEF Initialize

(* createAccount and switchActiveAccount keep the client fitting, with all *)
(* accounts that were shown.                                               *)
LEMMA AccountCommands ==
  ASSUME FlowInv, CreateAccountCommand \/ \E name : SwitchActiveAccount(name)
  PROVE  FlowInv'
<1>1. UNCHANGED <<infos, ready, shown, initialized>> /\ initialized
  BY DEF CreateAccountCommand, SwitchActiveAccount, Command, Reading
<1>2. CASE UNCHANGED <<client, chain>>
  BY <1>1, <1>2, FlowStay DEF FlowStays, flowVars
<1>3. ASSUME chain' = chain + 1, client' = CreateAccount(client, chain + 1).client
      PROVE  FlowInv'
  <2>1. chain \in Nat /\ chain + 1 \in Nat /\ ClientFits(client)
    BY DEF FlowInv
  <2>2. ClientFits(client') /\ AccountsKept(client, client') /\ client'.current = client.current
    BY <1>3, <2>1, CreateAccountFacts
  <2>3. ShownKept'
    BY <1>1, <2>2, KeptShown DEF FlowInv
  <2> QED  BY <1>1, <1>3, <2>1, <2>2, <2>3 DEF FlowInv
<1>4. ASSUME NEW name, client' = SetActiveClientAccount(client, name).client, chain' = chain
      PROVE  FlowInv'
  <2>1. /\ ClientFits(client') /\ AccountsKept(client, client')
        /\ client.current # 0 => client'.current # 0
    BY <1>4, SetActiveFacts DEF FlowInv
  <2>2. ShownKept'
    BY <1>1, <2>1, KeptShown DEF FlowInv
  <2> QED  BY <1>1, <1>4, <2>1, <2>2 DEF FlowInv
<1> QED  BY <1>2, <1>3, <1>4 DEF CreateAccountCommand, SwitchActiveAccount, NotReady

(* A code lens that runs a command names accounts of the client.           *)
LEMMA LensSigners ==
  ASSUME NEW c, NEW info, NEW l \in ContractLenses(c, info) \cup EntryPointLenses(c, info),
         NEW n \in Range(l.signers)
  PROVE  GetClientAccount(c, n) # 0
<1>1. \A command, decl, names : Lens(command, decl, names).signers = names
  BY DEF Lens
<1>2. Range(<< >>) = {}
  BY DEF Range
<1>3. \E command, decl, names : /\ l = Lens(command, decl, names)
                                /\ names = << >> \/ Absent(c, names) = {}
  <2>1. CASE l \in ContractLenses(c, info)
    BY <2>1 DEF ContractLenses
  <2>2. CASE l \in EntryPointLenses(c, info)
    BY <2>2 DEF EntryPointLenses, TransactionLens
  <2> QED  BY <2>1, <2>2
<1> QED  BY <1>1, <1>2, <1>3 DEF Absent

(* update keeps the types of what is known of a document.                  *)
LEMMA UpdateInfoType ==
  ASSUME NEW info \in Entry, NEW kind, NEW version \in Nat, NEW t \in Text
  PROVE  UpdateInfo(info, kind, version, t) \in Entry
  BY DEF UpdateInfo, Entry

(* Code lenses show signers that are accounts.                             *)
LEMMA CodeLensFlow ==
  ASSUME FlowInv, CheckInv, NEW u \in Doc, CodeLens(u)
  PROVE  FlowInv'
<1>1. UNCHANGED <<client, ready, chain, initialized>> /\ initialized
  BY DEF CodeLens, Answer, Request, Reading
<1> DEFINE at == CheckerForDocument(u)
           c == CHOOSE c \in at : TRUE
<1>2. infos' \in [Doc -> [contract : Entry, entry : Entry]]
  <2>1. infos[u].contract \in Entry /\ infos[u].entry \in Entry /\ documents[u].version \in Nat
    BY DEF FlowInv, CheckInv, CheckTypes
  <2>2. at # {} => c \in cache /\ c.text \in Text
    BY DEF CheckInv, CacheTypes, CheckerForDocument, CachedAt
  <2>3. at # {} => UpdatedInfos(u, c) \in [contract : Entry, entry : Entry]
    BY <2>1, <2>2, UpdateInfoType DEF UpdatedInfos
  <2>4. infos' = [infos EXCEPT ![u] = IF at = {} THEN @ ELSE UpdatedInfos(u, c)]
    BY DEF CodeLens
  <2> HIDE DEF at, c
  <2> QED  BY <2>3, <2>4 DEF FlowInv
<1>3. ASSUME NEW s \in shown' \ shown
      PROVE  \E i \in DOMAIN client.accounts :
               client.accounts[i].name = s.name /\ client.accounts[i].addr = s.addr
  <2>1. /\ s \in SignersOfLenses(IF reply'.kind = "lens" THEN reply'.value ELSE {})
    BY DEF CodeLens
  <2>2. PICK l \in (IF reply'.kind = "lens" THEN reply'.value ELSE {}) : \E n \in Range(l.signers) :
          s = [name |-> n, addr |-> LET i == GetClientAccount(client, n)
                                    IN  IF i = 0 THEN None ELSE client.accounts[i].addr]
    BY <2>1 DEF SignersOfLenses
  <2>a. PICK n \in Range(l.signers) :
          s = [name |-> n, addr |-> LET i == GetClientAccount(client, n)
                                    IN  IF i = 0 THEN None ELSE client.accounts[i].addr]
    BY <2>2
  <2>3. reply'.kind = "lens" /\ l \in reply'.value
    BY <2>2
  <2>4. reply' = IF at = {} THEN [NoReply EXCEPT !.kind = "empty", !.uri = u]
                 ELSE [kind |-> "lens", uri |-> u, text |-> c.text, value |-> CodeLenses(u, c)]
    BY DEF CodeLens, Answer
  <2> HIDE DEF at, c
  <2>5. l \in CodeLenses(u, c)
    BY <2>3, <2>4 DEF NoReply
  <2>6. GetClientAccount(client, n) # 0
    BY <2>5, LensSigners DEF CodeLenses
  <2>7. /\ GetClientAccount(client, n) \in DOMAIN client.accounts
        /\ client.accounts[GetClientAccount(client, n)].name = n
    BY <2>6, GetClientAccountFacts DEF FlowInv
  <2> QED  BY <2>a, <2>6, <2>7
<1>4. ShownKept'
  BY <1>1, <1>3 DEF FlowInv, ShownKept
<1> QED  BY <1>1, <1>2, <1>4 DEF FlowInv

-----------------------------------------------------------------------------
(* Replies                                                                 *)

(* What the replies promise.                                               *)
RepliesInv == AnswersCurrentText /\ ActionsOfCurrentText

(* A step that answers no request about a document's program.              *)
NoAnswer == reply'.kind \notin {"occurrence", "completion", "parameters", "codeAction"}

(* A step that answers from the checker of document u, with no edits.      *)
PlainAnswer(u) ==
  /\ checking = None /\ CheckStays
  /\ \E kind \in {"occurrence", "completion", "parameters", "lens"} : \E value :
       reply' = IF CheckerForDocument(u) = {} THEN [NoReply EXCEPT !.kind = "empty", !.uri = u]
                ELSE [kind |-> kind, uri |-> u,
                      text |-> (CHOOSE c \in CheckerForDocument(u) : TRUE).text, value |-> value]

(* The checker a handler finds for a document that was checked in the      *)
(* project of now is of the text that the document has.                    *)
LEMMA CheckerFound ==
  ASSUME CheckInv, checking = None, NEW u \in Doc, CheckedHere(u), NEW c \in CheckerForDocument(u)
  PROVE  c.text = documents[u].text
<1>1. u # None /\ project \in Nat /\ None \notin Nat
  BY ServerV1Assumption DEF CheckInv, CheckTypes
<1>2. PICK d \in CachedAt(project, u) : d.text = documents[u].text
  BY <1>1 DEF CheckInv, CheckerKept, CheckedHere
<1> QED  BY <1>2 DEF CheckInv, CacheTypes, CheckerForDocument, CachedAt

(* A step that answers nothing about a program promises nothing.           *)
LEMMA NoAnswerReplies ==
  ASSUME NoAnswer
  PROVE  RepliesInv'
  BY DEF NoAnswer, RepliesInv, AnswersCurrentText, ActionsOfCurrentText

(* An answer is of the text of the checker that was found.                 *)
LEMMA PlainReplies ==
  ASSUME CheckInv, NEW u \in Doc, PlainAnswer(u)
  PROVE  RepliesInv'
<1> DEFINE at == CheckerForDocument(u)
           c == CHOOSE c \in at : TRUE
<1>1. CASE at = {}
  <2>1. reply'.kind = "empty"
    BY <1>1 DEF PlainAnswer, NoReply
  <2> QED  BY <2>1, NoAnswerReplies DEF NoAnswer
<1>2. CASE at # {}
  <2>1. reply'.uri = u /\ reply'.text = c.text /\ reply'.kind # "codeAction"
    BY <1>2 DEF PlainAnswer
  <2>2. c \in at
    BY <1>2
  <2>3. UNCHANGED <<documents, published, checkedIn, project>> /\ checking = None
    BY DEF PlainAnswer, CheckStays, checkVars
  <2>4. CheckedHere(u) => c.text = documents[u].text
    BY <2>2, <2>3, CheckerFound
  <2> HIDE DEF at, c
  <2>5. AnswersCurrentText'
    BY <2>1, <2>3, <2>4 DEF AnswersCurrentText, CheckedHere
  <2>6. ActionsOfCurrentText'
    BY <2>1 DEF ActionsOfCurrentText
  <2> QED  BY <2>5, <2>6 DEF RepliesInv
<1> QED  BY <1>1, <1>2

(* The edit of a code action is for the text of now, and of the right kind *)
(* if the checker is of the project of the action.                         *)
LEMMA ActionOfFacts ==
  ASSUME NEW u \in Doc, NEW r, NEW c, NEW p \in Problem, r.text = documents[u].text
  PROVE  /\ ActionOf(u, r, p, c).text = documents[u].text
         /\ ActionOf(u, r, p, c).edit # "split"
         /\ c.project = r.project => /\ ActionOf(u, r, p, c).edit \notin {"variable", "field"}
                                     /\ ActionOf(u, r, p, c).at # "start"
<1> USE DEF Action, DeclareFunction, DeclareVariable, DeclareField, FindsUse, MemberPosition
<1>1. CASE p \notin {"function", "method"}
  BY <1>1 DEF ActionOf, Problem
<1>2. CASE p = "function"
  BY <1>2 DEF ActionOf, AddDeclaration
<1>3. CASE p = "method"
  BY <1>3 DEF ActionOf, AddDeclaration
<1> QED  BY <1>1, <1>2, <1>3

(* CodeAction keeps its promises for diagnostics that were really sent:    *)
(* their ids are not 0.                                                    *)
LEMMA ActionReplies ==
  ASSUME CheckInv, NEW u \in Doc, NEW ids, 0 \notin ids, NEW invoked \in BOOLEAN,
         CodeAction(u, ids, invoked)
  PROVE  RepliesInv'
<1> DEFINE at == CheckerForDocument(u)
           c == CHOOSE c \in at : TRUE
           r == resolvers[u]
           edits == (IF r.id \in ids THEN {ActionOf(u, r, p, c) : p \in Fixes(r.text)} ELSE {})
                      \cup (IF invoked THEN {SplitLines(c)} ELSE {})
<1>1. reply' = IF at = {} THEN [NoReply EXCEPT !.kind = "empty", !.uri = u]
               ELSE [kind |-> "codeAction", uri |-> u, text |-> c.text, value |-> edits]
  BY DEF CodeAction, Answer
<1>2. checking = None /\ UNCHANGED <<documents, published, checkedIn, project>>
  BY DEF CodeAction, Answer, Request, Reading, ReadOnly, checkVars, envVars
<1>3. CASE at = {}
  <2>1. reply'.kind = "empty"
    BY <1>1, <1>3 DEF NoReply
  <2> QED  BY <2>1, NoAnswerReplies DEF NoAnswer
<1>4. CASE at # {}
  <2>1. c \in at /\ c.project = project
    BY <1>4 DEF CheckerForDocument, CachedAt
  <2>2. CheckedHere(u) => c.text = documents[u].text
    BY <1>2, <2>1, CheckerFound
  <2>3. /\ \A x \in edits : x.edit # "split" => x.text = documents[u].text
        /\ CheckedHere(u) => \A x \in edits : /\ x.text = documents[u].text
                                              /\ x.edit \notin {"variable", "field"}
                                              /\ x.at # "start"
    <3>1. ASSUME r.id \in ids, NEW p \in Fixes(r.text)
          PROVE  LET x == ActionOf(u, r, p, c)
                 IN  /\ x.text = documents[u].text
                     /\ CheckedHere(u) => x.edit \notin {"variable", "field"} /\ x.at # "start"
      <4>1. r.id # 0 /\ u # None
        BY <3>1, ServerV1Assumption
      <4>2. r.text = documents[u].text /\ r.project = checkedIn[u]
        BY <1>2, <4>1 DEF CheckInv, ActionsFit
      <4>3. p \in Problem
        BY <3>1 DEF Fixes, ConvertError, SuggestsFixes, ConvertDiagnostic, Problem
      <4>4. CheckedHere(u) => c.project = r.project
        BY <2>1, <4>2 DEF CheckedHere
      <4> HIDE DEF r, c
      <4> QED  BY <4>2, <4>3, <4>4, ActionOfFacts
    <3>2. SplitLines(c).edit = "split" /\ SplitLines(c).at = "use" /\ SplitLines(c).text = c.text
      BY DEF SplitLines, Action
    <3>3. \A x \in edits : \/ r.id \in ids /\ \E p \in Fixes(r.text) : x = ActionOf(u, r, p, c)
                           \/ x = SplitLines(c)
      OBVIOUS
    <3> HIDE DEF edits, r, c
    <3> QED  BY <2>2, <3>1, <3>2, <3>3
  <2>4. reply'.kind = "codeAction" /\ reply'.uri = u /\ reply'.value = edits
    BY <1>1, <1>4
  <2> HIDE DEF edits, c, at
  <2>5. ActionsOfCurrentText'
    BY <1>2, <2>3, <2>4 DEF ActionsOfCurrentText, CheckedHere
  <2>6. AnswersCurrentText'
    BY <2>4 DEF AnswersCurrentText
  <2> QED  BY <2>5, <2>6 DEF RepliesInv
<1> QED  BY <1>3, <1>4

-----------------------------------------------------------------------------
(* Steps                                                                   *)

(* What the steps of each kind leave alone.                                *)
LEMMA NextCases ==
  ASSUME V1Next
  PROVE  /\ \/ CheckStays \/ Check \/ CheckPanics
            \/ WriteFlowJson \/ \E l \in Loc : WriteFile(l)
            \/ \E u \in Doc : \E t \in DocTexts[u] : DidOpen(u, t) \/ DidChange(u, t)
         /\ \/ UNCHANGED completionVars
            \/ \E u \in Doc : \E found \in {"member", "range", "keyword"} : Completion(u, found)
         /\ \/ FlowStays \/ Initialize \/ CreateAccountCommand
            \/ \E name : SwitchActiveAccount(name)
            \/ \E u \in Doc : CodeLens(u)
         /\ \/ NoAnswer \/ \E u \in Doc : PlainAnswer(u)
            \/ \E u \in Doc : \E ids \in {{}} \cup {{d.id} : d \in {d \in saw : d.uri = u}},
                                 invoked \in BOOLEAN : CodeAction(u, ids, invoked)
         /\ mode' = mode \/ mode' \in Modes
<1>0. \A name : AccessCheckMode(name) \in Modes
  BY ServerV1Assumption DEF AccessCheckMode
<1> USE DEF CheckStays, FlowStays, envVars, checkVars, flowVars, NoAnswer
<1>1. CASE Initialize
  <2>1. reply'.kind \in {"ok", "error"}
    BY <1>1 DEF Initialize, NoReply, InitializeClient
  <2>2. mode' \in Modes
    BY <1>0, <1>1 DEF Initialize
  <2> QED  BY <1>1, <2>1, <2>2 DEF Initialize
<1>2. ASSUME NEW u \in Doc, NEW t \in DocTexts[u], DidOpen(u, t) \/ DidChange(u, t)
      PROVE  UNCHANGED completionVars /\ FlowStays /\ NoAnswer /\ mode' = mode
  BY <1>2 DEF DidOpen, DidChange, NoReply
<1>3. ASSUME NEW u \in Doc, DidClose(u)
      PROVE  CheckStays /\ UNCHANGED completionVars /\ FlowStays /\ NoAnswer /\ mode' = mode
  BY <1>3 DEF DidClose, NoReply
<1>4. ASSUME NEW u \in Doc, NEW at \in Positions,
             \/ Hover(u, at) \/ Definition(u, at) \/ SignatureHelp(u, at)
             \/ DocumentHighlight(u, at) \/ Rename(u, at)
      PROVE  UNCHANGED completionVars /\ FlowStays /\ PlainAnswer(u) /\ mode' = mode
  BY <1>4 DEF Hover, Definition, SignatureHelp, DocumentHighlight, Rename, Answer, Request, Reading,
              ReadOnly, PlainAnswer
<1>5. ASSUME NEW u \in Doc, \/ DocumentSymbol(u) \/ InlayHint(u) \/ EntryPointParameters(u)
                            \/ ContractParameters(u) \/ ParseArguments(u, 0)
      PROVE  UNCHANGED completionVars /\ FlowStays /\ PlainAnswer(u) /\ mode' = mode
  BY <1>5 DEF DocumentSymbol, InlayHint, EntryPointParameters, ContractParameters, ParseArguments,
              Answer, Request, Reading, ReadOnly, PlainAnswer
<1>6. ASSUME NEW u \in Doc, NEW ids, NEW invoked, CodeAction(u, ids, invoked)
      PROVE  CheckStays /\ UNCHANGED completionVars /\ FlowStays /\ mode' = mode
  BY <1>6 DEF CodeAction, Answer, Request, ReadOnly
<1>7. ASSUME NEW u \in Doc, CodeLens(u)
      PROVE  UNCHANGED completionVars /\ PlainAnswer(u) /\ mode' = mode
  BY <1>7 DEF CodeLens, Answer, Request, Reading, PlainAnswer
<1>8. ASSUME NEW u \in Doc, NEW found, Completion(u, found)
      PROVE  FlowStays /\ PlainAnswer(u) /\ mode' = mode
  BY <1>8 DEF Completion, Answer, Request, Reading, PlainAnswer
<1>9. ASSUME NEW u \in Doc, ResolveCompletionItem(u)
      PROVE  CheckStays /\ UNCHANGED completionVars /\ FlowStays /\ NoAnswer /\ mode' = mode
  BY <1>9 DEF ResolveCompletionItem, Request, ReadOnly, NoReply
<1>10. ASSUME CreateAccountCommand \/ \E name : SwitchActiveAccount(name)
       PROVE  CheckStays /\ UNCHANGED completionVars /\ NoAnswer /\ mode' = mode
  <2>1. reply'.kind \in {"error", "ok", "limit", "panic"}
    BY <1>10 DEF CreateAccountCommand, SwitchActiveAccount, NotReady, Outcome, NoReply,
                 CreateAccount, SetActiveClientAccount
  <2> QED  BY <1>10, <2>1 DEF CreateAccountCommand, SwitchActiveAccount
<1>11. ASSUME \/ \E names \in SignerLists : SendTransaction(names) \/ DeployContract(names)
              \/ ExecuteScript \/ GetAccounts
       PROVE  CheckStays /\ UNCHANGED completionVars /\ FlowStays /\ NoAnswer /\ mode' = mode
  <2>1. reply'.kind \in {"error", "sent", "deployed", "result", "accounts"}
    BY <1>11 DEF SendTransaction, DeployContract, ExecuteScript, GetAccounts, NotReady, Outcome,
                 NoReply
  <2> QED  BY <1>11, <2>1 DEF SendTransaction, DeployContract, ExecuteScript, GetAccounts, NotReady,
                              Command
<1>12. ASSUME NEW name \in Modes \cup {None}, DidChangeConfiguration(name)
       PROVE  CheckStays /\ UNCHANGED completionVars /\ FlowStays /\ NoAnswer /\ mode' \in Modes
  BY <1>0, <1>12 DEF DidChangeConfiguration, Command, Outcome, NoReply
<1>13. ASSUME Check \/ CheckPanics
       PROVE  UNCHANGED completionVars /\ FlowStays /\ NoAnswer /\ mode' = mode
  <2>1. reply' = NoReply \/ reply' = [NoReply EXCEPT !.kind = "panic", !.uri = checking]
    BY <1>13 DEF Check, CheckPanics
  <2>2. reply'.kind \in {"none", "panic"}
    <3>1. CASE reply' = NoReply
      BY <3>1 DEF NoReply
    <3>2. CASE reply' = [NoReply EXCEPT !.kind = "panic", !.uri = checking]
      BY <3>2 DEF NoReply
    <3> QED  BY <2>1, <3>1, <3>2
  <2> QED  BY <1>13, <2>2 DEF Check, CheckPanics
<1>14. ASSUME WriteFlowJson \/ \E l \in Loc : WriteFile(l)
       PROVE  UNCHANGED completionVars /\ FlowStays /\ NoAnswer /\ mode' = mode
  BY <1>14 DEF WriteFlowJson, WriteFile, NoReply
<1>15. ASSUME NEW u \in Doc, PlainAnswer(u)
       PROVE  CheckStays
  BY <1>15 DEF PlainAnswer
<1> HIDE DEF CheckStays, FlowStays, envVars, checkVars, flowVars, NoAnswer
<1>16. CASE \E u \in Doc : Notification(u)
  BY <1>2, <1>3, <1>16 DEF Notification
<1>17. CASE \E u \in Doc : DocumentRequest(u)
  <2> PICK u \in Doc : DocumentRequest(u)
    BY <1>17
  <2>1. CASE \E at \in Positions : \/ Hover(u, at) \/ Definition(u, at) \/ SignatureHelp(u, at)
                                   \/ DocumentHighlight(u, at) \/ Rename(u, at)
    BY <1>4, <1>15, <2>1
  <2>2. CASE \/ DocumentSymbol(u) \/ InlayHint(u) \/ EntryPointParameters(u)
             \/ ContractParameters(u) \/ ParseArguments(u, 0)
    BY <1>5, <1>15, <2>2
  <2>3. CASE \E ids \in {{}} \cup {{d.id} : d \in {d \in saw : d.uri = u}}, invoked \in BOOLEAN :
               CodeAction(u, ids, invoked)
    BY <1>6, <2>3
  <2>4. CASE CodeLens(u)
    BY <1>7, <1>15, <2>4
  <2>5. CASE \E found \in {"member", "range", "keyword"} : Completion(u, found)
    BY <1>8, <1>15, <2>5
  <2>6. CASE ResolveCompletionItem(u)
    BY <1>9, <2>6
  <2> QED  BY <2>1, <2>2, <2>3, <2>4, <2>5, <2>6 DEF DocumentRequest
<1>18. CASE ExecuteCommand
  BY <1>10, <1>11, <1>18 DEF ExecuteCommand
<1> QED  BY <1>1, <1>12, <1>13, <1>14, <1>16, <1>17, <1>18 DEF V1Next

(* The inductive invariant.                                                *)
V1Inv ==
  CheckInv /\ CompletionInv /\ FlowInv /\ RepliesInv /\ mode \in Modes

(* The server starts with the invariant.                                   *)
LEMMA V1InitInv == V1Init => V1Inv
<1> SUFFICES ASSUME V1Init PROVE V1Inv
  OBVIOUS
<1> USE DEF V1Init
<1>1. CheckTypes
  BY ServerV1Assumption DEF CheckTypes, NoDocument, NoResolvers, NoDiagnostics
<1>2. CacheTypes
  BY DEF CacheTypes
<1>3. \A u \in Doc : CheckerKept(u) /\ ActionsFit(u)
  BY DEF CheckerKept, ActionsFit, NoResolvers, NoDiagnostics
<1>4. CompletionInv
  BY DEF CompletionInv, LatestItemsResolve, NoCompletion
<1>5. FlowInv
  <2>1. ClientFits(client)
    BY NewClientFits
  <2>2. infos \in [Doc -> [contract : Entry, entry : Entry]]
    BY DEF NoInfo, Entry
  <2> QED  BY <2>1, <2>2 DEF FlowInv, ShownKept
<1>6. RepliesInv
  BY DEF RepliesInv, AnswersCurrentText, ActionsOfCurrentText, NoReply
<1>7. mode \in Modes
  BY ServerV1Assumption
<1> QED  BY <1>1, <1>2, <1>3, <1>4, <1>5, <1>6, <1>7 DEF V1Inv, CheckInv

(* Every step keeps the invariant.                                         *)
LEMMA V1StepInv ==
  ASSUME V1Inv, V1Next
  PROVE  V1Inv'
<1> USE DEF V1Inv
<1>1. CheckInv'
  BY NextCases, CheckStay, CheckChecks, PanicChecks, WriteChecks, EditChecks
<1>2. CompletionInv'
  BY NextCases, CompletionStay, CompletionCompletes
<1>3. FlowInv'
  BY NextCases, FlowStay, InitializeFlow, AccountCommands, CodeLensFlow
<1>4. RepliesInv'
  <2>1. ASSUME NEW u \in Doc, NEW ids \in {{}} \cup {{d.id} : d \in {d \in saw : d.uri = u}}
        PROVE  0 \notin ids
    BY DEF CheckInv, CheckTypes
  <2> QED  BY <2>1, NextCases, NoAnswerReplies, PlainReplies, ActionReplies
<1>5. mode' \in Modes
  BY NextCases
<1> QED  BY <1>1, <1>2, <1>3, <1>4, <1>5

(* The parts of the invariant imply the properties of the runs.            *)
LEMMA V1InvImplies ==
  ASSUME V1Inv
  PROVE  V1TypeOK /\ RepliesInv /\ LatestItemsResolve /\ OneActiveAccount
<1> USE DEF V1Inv
<1>1. ClientFits(client) /\ ShownKept /\ (ready => client.current # 0)
  BY DEF FlowInv
<1>2. client.current \in 0 .. Len(client.accounts)
  BY <1>1 DEF ClientFits
<1>3. V1TypeOK
  BY <1>1, <1>2 DEF V1TypeOK, CheckInv, CheckTypes, CacheTypes, FlowInv
<1>4. OneActiveAccount
  BY <1>1 DEF OneActiveAccount, ClientFits, ShownKept, Accounts
<1> QED  BY <1>3, <1>4 DEF CompletionInv

(* A check that publishes for u has seen every other document it imports   *)
(* as the editor has it, if that was checked in the same project.          *)
LEMMA CheckSeesEditor ==
  ASSUME V1Inv, V1Next, NEW u \in Doc, NEW w \in Doc,
         published'[u].id > published[u].id, CheckedHere(w), w # u,
         w \in Imports[documents[u].text], documents[u].text \notin NoProgram,
         NEW c \in cache', c.project = project, c.loc = u
  PROVE  <<w, documents[w].text>> \in c.deps
<1>0. CheckTypes /\ CacheTypes /\ CheckInv
  BY DEF V1Inv, CheckInv
<1>1. published' # published
  BY <1>0 DEF CheckTypes
<1>2. Check
  <2>1. ~CheckStays
    BY <1>1 DEF CheckStays, checkVars
  <2>2. ~(WriteFlowJson \/ \E l \in Loc : WriteFile(l))
    BY <1>1 DEF WriteFlowJson, WriteFile, checkVars
  <2>3. ~\E v \in Doc : \E t \in DocTexts[v] : DidOpen(v, t) \/ DidChange(v, t)
    BY <1>1 DEF DidOpen, DidChange
  <2>4. ~CheckPanics
    BY <1>1 DEF CheckPanics
  <2> QED  BY <2>1, <2>2, <2>3, <2>4, NextCases
<1>3. checking = u
  <2>1. PICK v \in Doc : checking = v
    BY <1>0, <1>2 DEF Check, CheckTypes
  <2>2. \E valid \in BOOLEAN : Publish(v, documents[v].text, valid)
    BY <1>0, <1>2, <2>1, CheckCache
  <2>3. documents[v].text \in Text
    BY <1>0, <2>1 DEF CheckTypes
  <2>4. \A x \in Doc \ {v} : published'[x] = published[x]
    BY <1>0, <2>2, <2>3, PublishFacts
  <2>5. published[u].id \in Nat
    BY <1>0 DEF CheckTypes
  <2> QED  BY <2>1, <2>4, <2>5
<1> DEFINE t == documents[u].text
<1>4. PICK contracts \in SUBSET (Loc \ (Doc \cup Builtin)) :
        cache' = {d \in cache \cup RootCheck(u, contracts).puts : d.project # project \/ d.loc # u}
                   \cup {RootCheck(u, contracts).checker}
  BY <1>2, <1>3 DEF Check
<1>5. c = RootCheck(u, contracts).checker
  BY <1>4
<1> DEFINE g == ImportGraph(contracts)
           import == HandleImport(g, LibOf(t))
           subs == ResolvedLocations(t, contracts) \ {u}
<1>6. c.deps = {<<s, import[s].text>> : s \in {s \in subs : import[s].ok}}
  BY <1>5 DEF RootCheck
<1>7. w \in Loc \ Builtin /\ w \in subs /\ w # None /\ project \in Nat /\ None \notin Nat
  BY <1>0, ServerV1Assumption DEF ResolvedLocations, CheckTypes
<1>8. PICK d \in CachedAt(project, w) : d.text = documents[w].text
  BY <1>0, <1>3, <1>7 DEF CheckInv, CheckerKept, CheckedHere
<1>9. ImportOk(g, w) /\ ImportText(w) = documents[w].text
  BY <1>0, <1>7, <1>8, CachedImportFacts
<1>10. import[w].ok /\ import[w].text = documents[w].text
  BY <1>7, <1>9 DEF HandleImport
<1> HIDE DEF import, subs, g
<1> QED  BY <1>6, <1>7, <1>10

(***************************************************************************)
(* Every state of the server has the invariant.                            *)
(***************************************************************************)
THEOREM V1Invariant == V1Spec => []V1Inv
<1>1. V1Inv /\ UNCHANGED v1Vars => V1Inv'
  <2> SUFFICES ASSUME V1Inv, UNCHANGED v1Vars PROVE V1Inv'
    OBVIOUS
  <2>1. CheckStays /\ UNCHANGED completionVars /\ FlowStays /\ mode' = mode
    BY DEF v1Vars, CheckStays, FlowStays, envVars
  <2>2. CheckInv' /\ CompletionInv' /\ FlowInv'
    BY <2>1, CheckStay, CompletionStay, FlowStay DEF V1Inv
  <2>3. RepliesInv'
    <3>1. UNCHANGED <<documents, published, checkedIn, project, reply, open>>
      BY DEF v1Vars, envVars, checkVars
    <3> QED  BY <3>1 DEF V1Inv, RepliesInv, AnswersCurrentText, ActionsOfCurrentText, CheckedHere
  <2> QED  BY <2>1, <2>2, <2>3 DEF V1Inv
<1> QED  BY <1>1, V1InitInv, V1StepInv, PTL DEF V1Spec

(***************************************************************************)
(* The type invariant of the v1 server: its cache has at most one checker  *)
(* for a project and location, and a ready client has an active account.   *)
(***************************************************************************)
THEOREM V1TypeCorrect == V1Spec => []V1TypeOK
  BY V1Invariant, V1InvImplies, PTL

(***************************************************************************)
(* Requests about a document that was checked in the project of now are    *)
(* answered from the text the client has, for any number of documents,     *)
(* projects, edits and files.                                              *)
(***************************************************************************)
THEOREM V1AnswersCurrentText == V1Spec => []AnswersCurrentText
<1>1. V1Inv => AnswersCurrentText
  BY V1InvImplies DEF RepliesInv
<1> QED  BY <1>1, V1Invariant, PTL

(***************************************************************************)
(* Code actions, also for diagnostics of long ago, are made for the text   *)
(* the document has now.                                                   *)
(***************************************************************************)
THEOREM V1ActionsOfCurrentText == V1Spec => []ActionsOfCurrentText
<1>1. V1Inv => ActionsOfCurrentText
  BY V1InvImplies DEF RepliesInv
<1> QED  BY <1>1, V1Invariant, PTL

(***************************************************************************)
(* The items of the last completion of a document resolve by that          *)
(* completion.                                                             *)
(***************************************************************************)
THEOREM V1LatestItemsResolve == V1Spec => []LatestItemsResolve
  BY V1Invariant, V1InvImplies, PTL

(***************************************************************************)
(* The Flow client has at most one active account, account names are       *)
(* unique and the signers of shown code lenses stay what they were, for    *)
(* any names, flow.json and numbers of accounts.                           *)
(***************************************************************************)
THEOREM V1OneActiveAccount == V1Spec => []OneActiveAccount
  BY V1Invariant, V1InvImplies, PTL

(***************************************************************************)
(* A check sees an imported document as the editor has it, if that was     *)
(* checked in the same project.                                            *)
(***************************************************************************)
THEOREM V1ImportsSeeEditor == V1Spec => ImportsSeeEditor
<1> DEFINE Sees == \A u, w \in Doc :
                     published'[u].id > published[u].id /\ CheckedHere(w) /\ w # u
                       /\ w \in Imports[documents[u].text] /\ documents[u].text \notin NoProgram =>
                     \A c \in cache' : c.project = project /\ c.loc = u =>
                       <<w, documents[w].text>> \in c.deps
<1>1. V1Inv /\ [V1Next]_v1Vars => [Sees]_v1Vars
  <2>1. ASSUME V1Inv, V1Next PROVE Sees
    BY <2>1, CheckSeesEditor
  <2> QED  BY <2>1
<1> QED  BY <1>1, V1Invariant, PTL DEF V1Spec, ImportsSeeEditor
=============================================================================
