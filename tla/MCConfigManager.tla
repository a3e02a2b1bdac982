--------------------------- MODULE MCConfigManager ---------------------------
(* A project in r, a nested one in s, and a second configuration file k in  *)
(* r; one document in each directory.                                       *)
EXTENDS ConfigManager

CONSTANTS r, s, k, docR, docS

MCUp == [d \in {docR, docS} |-> IF d = docR THEN <<r>> ELSE <<s, r>>]
MCFile(x, y, z) == [c \in {r, s, k} |-> IF c = r THEN x ELSE IF c = s THEN y ELSE z]
MCFiles ==
  {MCFile("none", "none", "none"), MCFile("good", "good", "none"),
   MCFile("broken", "none", "good")}
MCOptions == {<<None, FALSE>>, <<r, TRUE>>, <<k, TRUE>>}
MCEdits == {<<r, "none">>, <<r, "good">>, <<s, "good">>, <<k, "broken">>}
MCRoot == [d \in {docR, docS} |-> IF d = docR THEN r ELSE s]
=============================================================================
