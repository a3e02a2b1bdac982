---------------------------- MODULE MCRequestsV2 ----------------------------
(* Documents a, b and e.  The path p and the URI b denote the same file;    *)
(* the contract name c is found through flow.json.  Document a imports p,   *)
(* also by identifiers (x), b imports c and, by its URI, a, and e imports,  *)
(* by its URI, b.                                                           *)
EXTENDS RequestsV2

CONSTANTS a, b, c, e, p, x

MCKindOf ==
  [l \in Loc |->
     CASE l \in {a, b, e} -> "uri" [] l = c -> "name" [] l = p -> "path" [] l = x -> "address"]
MCFileOf == [l \in Loc |-> CASE l = p -> b [] l \in {a, b, e} -> l [] OTHER -> None]
Whole(l) == [from |-> l, ids |-> << >>]
MCDeclared ==
  [l \in Loc |->
     CASE l = a -> <<Whole(p), [from |-> p, ids |-> <<x>>]>>
       [] l = b -> <<Whole(c), Whole(a)>>
       [] l = e -> <<Whole(b)>>
       [] l = p -> <<Whole(c)>>
       [] OTHER -> << >>]
MCExisting == {<<p, "path">>, <<c, "manual">>, <<c, "installed">>}
MCParsed == MCExisting \ {<<c, "installed">>}
MCVersions ==
  {[state |-> "good", manual |-> {}, installed |-> {c}]}
    \cup [state : {"missing", "denied", "broken"}, manual : {{}}, installed : {{}}]

MCBudget(i, j, n) == [edits |-> i, requests |-> j, writes |-> n]
MCBudgets == {MCBudget(1, 2, 0), MCBudget(2, 1, 1), MCBudget(5, 0, 0)}
MCEdits == {MCBudget(3, 0, 0)}
=============================================================================
