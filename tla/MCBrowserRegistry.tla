------------------------- MODULE MCBrowserRegistry -------------------------
(* BrowserRegistry for TLC, with what lower case makes of the names.       *)
EXTENDS BrowserRegistry

MCFold(n) == IF n = "Work" THEN "work" ELSE n
=============================================================================
