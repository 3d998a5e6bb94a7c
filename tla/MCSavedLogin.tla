---------------------------- MODULE MCSavedLogin ----------------------------
(* SavedLogin for TLC: two sites of different origins and Chromium's error   *)
(* page; the worker's manifest has an account for the first.                 *)
EXTENDS SavedLogin, TLC

CONSTANTS home, other, broken, here, there

MCOriginOf == [u \in Urls |-> CASE u = home -> here [] u = other -> there [] OTHER -> None]

Alike == Permutations(Calls) \cup Permutations(Slots) \cup Permutations(Passwords)
=============================================================================
