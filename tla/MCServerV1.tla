----------------------------- MODULE MCServerV1 -----------------------------
(* Document a imports document b; both are on disk too.                     *)
EXTENDS ServerV1

CONSTANTS a, b, x, helpers, addr

MCNames == <<"Alice", "Bob">>
MCConfigured == {[name |-> "Service [flow.json]", addr |-> 1], [name |-> "Late [flow.json]", addr |-> 9]}

MCInfo(contract, entry, needs, params, args, signers) ==
  [contract |-> contract, entry |-> entry, needs |-> needs, params |-> params,
   args |-> args, signers |-> signers]

MCTextInfo ==
  [tx     |-> MCInfo("none", "transaction", 1, 0, 0, <<"Bob">>),
   script |-> MCInfo("none", "script", 0, 1, 1, << >>),
   c1     |-> MCInfo("contract", "none", 0, 0, 0, << >>),
   c2     |-> MCInfo("contract", "none", 0, 0, 0, << >>),
   bad    |-> MCInfo("none", "none", 0, 0, 0, << >>),
   wild   |-> MCInfo("none", "none", 0, 0, 0, << >>)]

MCProblemsOf ==
  [t \in DOMAIN MCTextInfo |->
     IF t = "script" THEN {"returnType", "members", "function", "method", "removal", "deprecated"}
     ELSE IF t = "bad" THEN {"suggestion"} ELSE IF t = "wild" THEN {"unreachable"} ELSE {}]

MCImports == [t \in DOMAIN MCTextInfo |->
  IF t = "tx" THEN {b} ELSE IF t = "wild" THEN {b, helpers, addr} ELSE {}]
MCDocTexts == [u \in {a, b} |-> IF u = a THEN {"tx", "wild"} ELSE {"c1", "bad", "script"}]
MCInitialDisk == [l \in {a, b, x, helpers} |-> IF l = a THEN "tx" ELSE IF l = helpers THEN None ELSE "c2"]
MCDiskTexts ==
  [l \in {a, b, x, helpers} |-> IF l = a THEN {"tx"} ELSE IF l = b THEN {"c2", None}
                                ELSE IF l = x THEN {"c2"} ELSE {None}]

MCBudget(m, r, c, p, w) ==
  [messages |-> m, requests |-> r, commands |-> c, projects |-> p, writes |-> w]
MCBudgets ==
  {MCBudget(3, 1, 0, 2, 0), MCBudget(2, 1, 0, 1, 1), MCBudget(2, 3, 0, 0, 0),
   MCBudget(1, 2, 3, 0, 0)}
=============================================================================
