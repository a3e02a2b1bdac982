---------------------------- MODULE MCTestRunner ----------------------------
(* Scripts with and without a fork, hooks and imports.                      *)
EXTENDS TestRunner

MCScript(pragma, tests, hooks, imports) ==
  [pragma |-> pragma, tests |-> tests, hooks |-> hooks, imports |-> imports]
MCPragma(network, height) == [network |-> network, height |-> height]

MCScripts ==
  {MCScript(None, <<"testA", "testB">>, {"setup", "beforeEach", "afterEach", "tearDown"}, {}),
   MCScript(None, <<"testC">>, {}, {"Foo"}),
   MCScript(MCPragma("mainnet", 0), <<"testD">>, {}, {"Token"}),
   MCScript(MCPragma("testnet", 1), <<"testE">>, {}, {}),
   MCScript(MCPragma("other", 0), <<"testF">>, {}, {})}

MCNone == [label |-> None, fork |-> None]
MCMainnet == [label |-> "mainnet", fork |-> [host |-> "mainnet", height |-> 0]]
MCLabelOnly == [label |-> "mainnet", fork |-> None]
MCConfigurations == {MCNone, MCMainnet, MCLabelOnly}
MCOwnerOf == [c \in {"Foo", "Token"} |-> IF c = "Foo" THEN 1 ELSE 0]
MCAddresses == {<<"testing", "Foo">>, <<"mainnet", "Foo">>}
MCImportFiles == {<<"testing", "Foo">>}
=============================================================================
