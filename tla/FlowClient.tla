----------------------------- MODULE FlowClient -----------------------------
(***************************************************************************)
(* flowkitClient (languageserver/integration/flow.go): the accounts of the *)
(* emulator it offers for signing, and the code lenses made for them       *)
(* (contracts.go, entrypoint.go).                                          *)
(*                                                                         *)
(* An account is [name, addr, own, active]: own says that it has a key of  *)
(* its own, from flow.json; the others sign with the service key.  An      *)
(* address is the number of the account on the chain; 0 is the service     *)
(* account.  Account numbers beyond the chain are of no account yet.       *)
(***************************************************************************)
EXTENDS SequencesExt

CONSTANTS
  Names,        \* the names of the accounts it creates (20 in the code)
  Configured,   \* the accounts of flow.json, a JSON object: a set of [name, addr],
                \* where the name has the mark "[flow.json]"
  Text,         \* document texts
  TextInfo,     \* [Text -> what the integration reads off a program]
  None

ASSUME FlowClientAssumption ==
  /\ Names \in Seq(STRING) /\ Names # << >> /\ IsInjective(Names)
  /\ IsFiniteSet(Configured)
  /\ \A x \in Configured : x.name \in STRING \ Range(Names) /\ x.addr \in Nat
  /\ \A x, y \in Configured : x.name = y.name => x = y
  /\ None \notin Text

NewClient == [accounts |-> << >>, current |-> 0]

Accounts(c) == {c.accounts[i] : i \in DOMAIN c.accounts}

(* CreateAccount, once the chain has made account addr: the next name by   *)
(* the number of all accounts.  The test for the limit lets the first      *)
(* index behind the names through, which panics.                           *)
CreateAccount(c, addr) ==
  LET next == Len(c.accounts)
  IN  IF next > Len(Names) THEN [result |-> "limit", client |-> c]
      ELSE IF next = Len(Names) THEN [result |-> "panic", client |-> c]
      ELSE [result |-> "ok",
            client |-> [c EXCEPT !.accounts =
                          Append(@, [name |-> Names[next + 1], addr |-> addr,
                                     own |-> FALSE, active |-> FALSE])]]

(* accountsFromState: those of flow.json that exist on the chain, in some  *)
(* order.                                                                  *)
AccountsFromState(chain) ==
  LET there == SetToSeq({x \in Configured : x.addr <= chain})
  IN  [i \in DOMAIN there |->
         [name |-> there[i].name, addr |-> there[i].addr, own |-> TRUE,
          active |-> FALSE]]

(* Initialize with n accounts on a chain that makes k of them before it    *)
(* fails, if k < n: the accounts made are kept, but none is active.        *)
InitializeClient(c, chain, n, k) ==
  LET made == [i \in 1 .. k |->
                [name |-> Names[i], addr |-> chain + i, own |-> FALSE,
                 active |-> FALSE]]
      all  == made \o AccountsFromState(chain + k)
  IN  IF n = 0 \/ n > Len(Names) THEN [result |-> "error", client |-> c]
      ELSE IF k < n THEN [result |-> "error", client |-> [c EXCEPT !.accounts = made]]
      ELSE [result |-> "ok",
            client |-> [accounts |-> [all EXCEPT ![1].active = TRUE], current |-> 1]]

(* GetClientAccount: the first account of that name, or 0.                 *)
GetClientAccount(c, name) ==
  LET hits == {i \in DOMAIN c.accounts : c.accounts[i].name = name}
  IN  IF hits = {} THEN 0 ELSE Min(hits)

(* Mutant: the account that was active stays marked.                       *)
SetActiveKeepsMark(c, name) ==
  LET i == GetClientAccount(c, name)
  IN  IF i = 0 THEN [result |-> "error", client |-> c]
      ELSE [result |-> "ok",
            client |-> [accounts |-> [c.accounts EXCEPT ![i].active = TRUE],
                        current |-> i]]

(* SetActiveClientAccount: the mark of the current account goes before the *)
(* name is looked up.                                                      *)
SetActiveClientAccount(c, name) ==
  LET bare == IF c.current = 0 THEN c.accounts
              ELSE [c.accounts EXCEPT ![c.current].active = FALSE]
      i    == GetClientAccount(c, name)
  IN  IF i = 0 THEN [result |-> "error", client |-> [c EXCEPT !.accounts = bare]]
      ELSE [result |-> "ok",
            client |-> [accounts |-> [bare EXCEPT ![i].active = TRUE], current |-> i]]

(* createSigner: the last account with that address signs, with its own    *)
(* key or else the service key.                                            *)
CreateSigner(c, addr) ==
  LET hits == {i \in DOMAIN c.accounts : c.accounts[i].addr = addr}
  IN  [addr |-> addr, own |-> hits # {} /\ c.accounts[Max(hits)].own]

(* SendTransaction and DeployContract: one signer per name.                *)
SignersOf(c, names) ==
  {CreateSigner(c, c.accounts[GetClientAccount(c, n)].addr) : n \in Range(names)}

-----------------------------------------------------------------------------
(* Code lenses.  TextInfo[t] is [contract, entry, needs, params, args,     *)
(* signers]: the kind of its sole contract declaration and of its entry    *)
(* point ("none" without), the signers the entry point needs, its number   *)
(* of parameters, the argument lists and signers its pragmas name.         *)

NoInfo == [version |-> 0, decl |-> None, pragmas |-> None]

(* update: nothing for the version it has seen.  Otherwise the declaration *)
(* is replaced if the text has one, and what the pragmas say in any case:  *)
(* a text without a declaration leaves the old one, with no pragmas.       *)
UpdateInfo(info, kind, version, t) ==
  IF info.version = version THEN info
  ELSE IF TextInfo[t][kind] = "none"
       THEN [info EXCEPT !.version = version, !.pragmas = None]
       ELSE [version |-> version, decl |-> t, pragmas |-> t]

PragmaSigners(info) ==
  IF info.pragmas = None THEN << >> ELSE TextInfo[info.pragmas].signers

ActiveName(c) == IF c.current = 0 THEN << >> ELSE <<c.accounts[c.current].name>>

(* resolveAccounts: the signers that are no accounts.                      *)
Absent(c, names) == {n \in Range(names) : GetClientAccount(c, n) = 0}

Lens(command, decl, names) == [command |-> command, decl |-> decl, signers |-> names]

(* contractInfo.codelens: the pragma's signer or the active account, whose *)
(* absence is a panic; "title" lenses run no command.                      *)
ContractLenses(c, info) ==
  IF info.decl = None THEN {}
  ELSE LET named == PragmaSigners(info)
           names == IF named = << >> THEN ActiveName(c) ELSE named
       IN  {IF names = << >> THEN Lens("panic", info.decl, << >>)
            ELSE IF Len(named) > 1 \/ Absent(c, names) # {}
            THEN Lens("title", info.decl, << >>)
            ELSE Lens("deploy", info.decl, names)}

(* transactionCodelens for one argument list.                              *)
TransactionLens(c, info) ==
  LET needs == TextInfo[info.decl].needs
      named == PragmaSigners(info)
      names == IF named = << >> /\ needs # 0 THEN ActiveName(c) ELSE named
  IN  IF named = << >> /\ needs # 0 /\ c.current = 0 THEN Lens("panic", info.decl, << >>)
      ELSE IF needs > Len(names) \/ Absent(c, names) # {}
      THEN Lens("title", info.decl, << >>)
      ELSE Lens("send", info.decl, names)

(* entryPointInfo.codelens: one lens per argument list of the pragmas, and *)
(* one without arguments for an entry point without parameters.            *)
EntryPointLenses(c, info) ==
  IF info.decl = None THEN {}
  ELSE LET i     == TextInfo[info.decl]
           lists == IF i.params = 0 THEN 1
                    ELSE IF info.pragmas = None THEN 0 ELSE i.args
       IN  IF lists = 0 THEN {}
           ELSE {IF i.entry = "script" THEN Lens("script", info.decl, << >>)
                 ELSE TransactionLens(c, info)}
=============================================================================
