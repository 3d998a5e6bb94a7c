--------------------------- MODULE BrowserPromise ---------------------------
(***************************************************************************)
(* What the control plane and the agent together promise about one         *)
(* browser, without handlers, commands or reports: a record that is        *)
(* reserved, offered to clients and finally removed, and a runtime         *)
(* (profile volume and containers) that is provisioned, powered and        *)
(* destroyed.  The promise is in the guards:                               *)
(*   - a record is offered as running only while its runtime is powered;   *)
(*   - the profile is destroyed only after the owner asked for deletion;   *)
(*   - a record is removed only when nothing of its runtime is left, and   *)
(*     nothing is ever provisioned for a removed record.                   *)
(* BrowserLifecycle is shown to implement this module.                     *)
(***************************************************************************)
CONSTANT Browser

VARIABLES
  record,     \* "absent", "pending", "offered" or "removed"
  runtime,    \* "none", "kept" (exists, not powered) or "up"
  condemned   \* has the owner asked for the deletion?

vars == <<record, runtime, condemned>>

Init ==
  /\ record = [b \in Browser |-> "absent"]
  /\ runtime = [b \in Browser |-> "none"]
  /\ condemned = [b \in Browser |-> FALSE]

Reserve(b) ==
  /\ record[b] = "absent"
  /\ record' = [record EXCEPT ![b] = "pending"]
  /\ UNCHANGED <<runtime, condemned>>

\* The agent provisions or powers the runtime of a record that exists.
PowerUp(b) ==
  /\ record[b] = "pending"
  /\ runtime[b] # "up"
  /\ runtime' \in {[runtime EXCEPT ![b] = r] : r \in {"kept", "up"}}
  /\ UNCHANGED <<record, condemned>>

Offer(b) ==
  /\ record[b] = "pending"
  /\ runtime[b] = "up"
  /\ record' = [record EXCEPT ![b] = "offered"]
  /\ UNCHANGED <<runtime, condemned>>

\* A user request or an error report; the request may be the deletion.
Withdraw(b) ==
  /\ record[b] = "offered"
  /\ record' = [record EXCEPT ![b] = "pending"]
  /\ condemned' \in {condemned, [condemned EXCEPT ![b] = TRUE]}
  /\ UNCHANGED runtime

Condemn(b) ==
  /\ record[b] = "pending"
  /\ condemned' = [condemned EXCEPT ![b] = TRUE]
  /\ UNCHANGED <<record, runtime>>

PowerDown(b) ==
  /\ record[b] = "pending"
  /\ runtime[b] = "up"
  /\ runtime' = [runtime EXCEPT ![b] = "kept"]
  /\ UNCHANGED <<record, condemned>>

Destroy(b) ==
  /\ record[b] = "pending"
  /\ condemned[b]
  /\ runtime[b] = "kept"
  /\ runtime' = [runtime EXCEPT ![b] = "none"]
  /\ UNCHANGED <<record, condemned>>

Remove(b) ==
  /\ record[b] = "pending"
  /\ condemned[b]
  /\ runtime[b] = "none"
  /\ record' = [record EXCEPT ![b] = "removed"]
  /\ UNCHANGED <<runtime, condemned>>

Next ==
  \E b \in Browser :
    \/ Reserve(b) \/ PowerUp(b) \/ Offer(b) \/ Withdraw(b)
    \/ Condemn(b) \/ PowerDown(b) \/ Destroy(b) \/ Remove(b)

Spec == Init /\ [][Next]_vars
=============================================================================
