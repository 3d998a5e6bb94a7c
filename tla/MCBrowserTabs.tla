---------------------------- MODULE MCBrowserTabs ----------------------------
(* BrowserTabs for TLC: target ids and private contexts are alike.           *)
EXTENDS BrowserTabs, TLC

Alike == Permutations(Tabs) \cup Permutations(Contexts)
=============================================================================
