---------------------------- MODULE TokenPromise ----------------------------
(***************************************************************************)
(* What OAuth promises an account about the calls made in its name, without *)
(* codes, tokens, rotation or rows:                                        *)
(*   - credentials for an account reach only a client its owner approved;  *)
(*   - a call is served in the name of an account only while the account   *)
(*     exists and is trusted, and only for a client that was given         *)
(*     credentials for it.                                                 *)
(* OAuthTokens is shown to implement this module.                          *)
(***************************************************************************)
CONSTANTS Account, Client, Slot, None

VARIABLES
  accounts,   \* accounts that exist
  trusted,    \* accounts the access policy allows
  approved,   \* history: <<account, client>> the owner approved
  entitled,   \* history: <<account, client>> that was given credentials
  serving     \* the <<account, client>> each slot serves a call for, or None

vars == <<accounts, trusted, approved, entitled, serving>>

Init ==
  /\ accounts = Account
  /\ trusted \subseteq Account
  /\ approved = {}
  /\ entitled = {}
  /\ serving = [s \in Slot |-> None]

Approve(o, k) ==
  /\ o \in accounts
  /\ approved' = approved \cup {<<o, k>>}
  /\ UNCHANGED <<accounts, trusted, entitled, serving>>

HandOut(o, k) ==
  /\ o \in accounts
  /\ <<o, k>> \in approved
  /\ entitled' = entitled \cup {<<o, k>>}
  /\ UNCHANGED <<accounts, trusted, approved, serving>>

Serve(s, o, k) ==
  /\ serving[s] = None
  /\ o \in accounts \cap trusted
  /\ <<o, k>> \in entitled
  /\ serving' = [serving EXCEPT ![s] = <<o, k>>]
  /\ UNCHANGED <<accounts, trusted, approved, entitled>>

Finish(s) ==
  /\ serving[s] # None
  /\ serving' = [serving EXCEPT ![s] = None]
  /\ UNCHANGED <<accounts, trusted, approved, entitled>>

\* The whole process dies, and with it every call.
Interrupt ==
  /\ serving' = [s \in Slot |-> None]
  /\ UNCHANGED <<accounts, trusted, approved, entitled>>

Judge(t) ==
  /\ trusted' = t
  /\ UNCHANGED <<accounts, approved, entitled, serving>>

Remove(o) ==
  /\ accounts' = accounts \ {o}
  /\ UNCHANGED <<trusted, approved, entitled, serving>>

Next ==
  \/ \E o \in Account : Remove(o)
  \/ \E t \in SUBSET Account : Judge(t)
  \/ \E o \in Account, k \in Client : Approve(o, k) \/ HandOut(o, k)
  \/ \E s \in Slot : Finish(s)
  \/ \E s \in Slot, o \in Account, k \in Client : Serve(s, o, k)
  \/ Interrupt

Spec == Init /\ [][Next]_vars
=============================================================================
