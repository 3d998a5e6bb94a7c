--------------------------- MODULE RuntimePromise ---------------------------
(* What the agent's engine promises its loop about the runtime of one        *)
(* browser, the box of BrowserLifecycle, without containers, images or       *)
(* calls to Docker:                                                          *)
(*   - a pass climbs towards what it was asked for, or descends to it, one   *)
(*     rung with each call; only a worker that is replaced goes down on the  *)
(*     way up, and only a container that came back meanwhile, and is removed *)
(*     by force, takes two;                                                  *)
(*   - it returns without an error only over what it was asked for, unless   *)
(*     something happened to the containers meanwhile, and a deletion not    *)
(*     even then;                                                            *)
(*   - the profile goes in a deletion, last of all, and in nothing else.     *)
(* DockerRuntime is shown to implement this module.                          *)
VARIABLES
  box,   \* what there is of the runtime: BrowserLifecycle's box
  pass,  \* what the engine was called for, or "idle"
  calm   \* nothing happened to the containers since

vars == <<box, pass, calm>>

Kept == {"volume", "halted", "half", "up"}

Up == {<<"none", "volume">>, <<"volume", "halted">>, <<"halted", "half">>, <<"half", "up">>}
Stop == {<<"up", "half">>, <<"half", "halted">>}
Remove == {<<"halted", "volume">>, <<"volume", "none">>}
Forced == <<"half", "volume">>

\* How one call may move the box.  A worker that is replaced is stopped and
\* removed on the way up; what happened meanwhile may take that further down,
\* and make the removal of one container two rungs.
Moves ==
  CASE pass = "run"    -> Up \cup {<<"up", "half">>} \cup
                          (IF calm THEN {} ELSE {<<"half", "halted">>, <<"halted", "volume">>, Forced})
    [] pass = "stop"   -> Stop
    [] pass = "delete" -> Stop \cup Remove \cup (IF calm THEN {} ELSE {Forced})
    [] OTHER           -> {}

Goal ==
  CASE pass = "run"  -> {"up"}
    [] pass = "stop" -> {"none", "volume", "halted"}
    [] OTHER         -> {"none"}

Init == box = "none" /\ pass = "idle" /\ calm = FALSE

Begin ==
  /\ pass = "idle"
  /\ pass' \in {"run", "stop", "delete"}
  /\ calm' = TRUE
  /\ UNCHANGED box

Move ==
  /\ <<box, box'>> \in Moves
  /\ UNCHANGED <<pass, calm>>

\* The last call may move the box, too.
Return ==
  /\ pass # "idle"
  /\ pass' = "idle"
  /\ box' = box \/ <<box, box'>> \in Moves
  /\ calm \/ pass = "delete" => box' \in Goal
  /\ UNCHANGED calm

Fail ==
  /\ pass # "idle"
  /\ pass' = "idle"
  /\ calm' = FALSE
  /\ UNCHANGED box

\* Docker, an operator or the host: nothing of theirs touches the profile.
Shake ==
  /\ box' = box \/ {box, box'} \subseteq Kept
  /\ calm' = FALSE
  /\ UNCHANGED pass

Next == Begin \/ Move \/ Return \/ Fail \/ Shake

Spec == Init /\ [][Next]_vars
=============================================================================
