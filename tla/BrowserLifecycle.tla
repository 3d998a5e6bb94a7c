-------------------------- MODULE BrowserLifecycle --------------------------
(***************************************************************************)
(* The life of a browser between three actors:                             *)
(*   - users, whose HTTP requests are handled by the control plane: every  *)
(*     handler reads the record, decides, and saves it in a second step    *)
(*     (internal/control/app.go, internal/control/browser_quota.go);       *)
(*   - the agent, one sequential loop that polls the list of commands,     *)
(*     drives the container engine and reports back over HTTP              *)
(*     (internal/agent/runner.go);                                         *)
(*   - the container engine, whose resources survive the agent's crashes   *)
(*     (internal/agent/docker_engine.go; module DockerRuntime has its      *)
(*     inside).                                                            *)
(* One agent, as compose.yaml deploys it.  Quotas, names, owners and the   *)
(* default browser are left to BrowserRegistry.                            *)
(***************************************************************************)
EXTENDS Naturals, FiniteSets

CONSTANTS
  Browser,       \* record identifiers; an identifier is used once
  Slot,          \* user requests the control plane handles at a time
  MaxRequests,   \* bound: user requests in a behaviour
  MaxFaults,     \* bound: engine errors, image rebuilds, lost calls, crashes
  LateHandlers   \* may a handler outlive the agent call that started it?

ASSUME BrowserAssumption == Browser # {} /\ IsFiniteSet(Browser)
ASSUME BoundsAssumption == MaxRequests \in Nat /\ MaxFaults \in Nat
ASSUME LateAssumption == LateHandlers \in BOOLEAN

VARIABLES
  state,      \* control: the record's state column, or "absent", "removed"
  endpoint,   \* control: are worker_endpoint and viewer_endpoint set?
  doomed,     \* history: has a deletion of the record been saved?
  req,        \* control: the user handlers in flight
  box,        \* engine: what exists of the browser's runtime
  pc,         \* agent: where its loop is
  plan,       \* agent: commands of this pass not yet reconciled
  cmd,        \* agent: the command being reconciled
  fresh,      \* agent: telemetry it would not report again yet
  call,       \* the agent's HTTP call, with the handler serving it
  late,       \* handlers whose agent call is over
  asked,      \* user requests so far
  faults      \* faults so far

recordVars == <<state, endpoint, doomed>>
agentVars == <<pc, plan, cmd, fresh>>
vars == <<state, endpoint, doomed, req, box, pc, plan, cmd, fresh, call, late,
          asked, faults>>

Live == {"queued", "starting", "running", "error", "stopping", "stopped",
         "deleting"}
State == Live \cup {"absent", "removed"}
AgentReport == {"starting", "running", "error", "stopped"}

\* Mutant: commands claimed by an agent that died are not offered again.
CommandWithoutStarting == Live \ {"stopped", "starting"}

\* The commands of listAgentCommands: every state but "stopped".
Command == Live \ {"stopped"}
Runs == {"queued", "starting", "running", "error"}

Operation == {"none", "start", "stop", "delete"}
Request == [op : Operation, b : Browser, seen : Live \ {"deleting"}]
NoRequest == [op |-> "none", b |-> CHOOSE b \in Browser : TRUE, seen |-> "queued"]

Call == [phase : {"none", "sent", "read", "ok", "refused"},
         kind : AgentReport \cup {"confirm"}, b : Browser,
         seen : State, had : BOOLEAN]
NoCall == [phase |-> "none", kind |-> "confirm",
           b |-> CHOOSE b \in Browser : TRUE, seen |-> "absent", had |-> FALSE]

\* "volume": only the profile volume; "halted": containers that are not
\* started; "half": the browser's is, the worker's is not; "up": both are,
\* healthy or not.  Started means by the agent: Docker's own restarts are
\* DockerRuntime's.
Halted == {"none", "volume", "halted"}
Started == {"half", "up"}
Box == Halted \cup Started

Location == {"down", "idle", "pass", "ensure", "stop", "delete", "await"}

Init ==
  /\ state = [b \in Browser |-> "absent"]
  /\ endpoint = [b \in Browser |-> FALSE]
  /\ doomed = [b \in Browser |-> FALSE]
  /\ req = [s \in Slot |-> NoRequest]
  /\ box = [b \in Browser |-> "none"]
  /\ pc = "idle"
  /\ plan = [b \in Browser |-> "none"]
  /\ cmd = [b |-> NoCall.b, want |-> "error"]
  /\ fresh = [b \in Browser |-> FALSE]
  /\ call = NoCall
  /\ late = {}
  /\ asked = 0
  /\ faults = 0

-----------------------------------------------------------------------------
(***************************************************************************)
(* Saving a record.  app.Save writes the columns whose value differs from  *)
(* the one that was read, and updates no row when the record is gone; it   *)
(* takes no account of what other handlers wrote in between.               *)
(***************************************************************************)
Saved(current, seen, new) == IF new = seen THEN current ELSE new

SaveState(b, seen, new) ==
  state' = IF state[b] = "removed" THEN state
           ELSE [state EXCEPT ![b] = Saved(@, seen, new)]

(***************************************************************************)
(* The user's requests.                                                    *)
(***************************************************************************)
\* createBrowser: reserveBrowser inserts the record in one transaction.
CreateBrowser(b) ==
  /\ asked < MaxRequests
  /\ state[b] = "absent"
  /\ state' = [state EXCEPT ![b] = "queued"]
  /\ asked' = asked + 1
  /\ UNCHANGED <<endpoint, doomed, req, box, agentVars, call, late, faults>>

OwnedBrowser(b) == state[b] \in Live \ {"deleting"}

\* powerBrowser and deleteBrowser up to the point where they save.
ReadBrowser(s, b, op) ==
  /\ asked < MaxRequests
  /\ req[s].op = "none"
  /\ OwnedBrowser(b)
  /\ req' = [req EXCEPT ![s] = [op |-> op, b |-> b, seen |-> state[b]]]
  /\ asked' = asked + 1
  /\ UNCHANGED <<recordVars, box, agentVars, call, late, faults>>

PowerBrowser(s) ==
  LET r == req[s] IN
  /\ r.op \in {"start", "stop"}
  /\ SaveState(r.b, r.seen, IF r.op = "start" THEN "queued" ELSE "stopping")
  /\ req' = [req EXCEPT ![s] = NoRequest]
  /\ UNCHANGED <<endpoint, doomed, box, agentVars, call, late, asked, faults>>

DeleteBrowser(s) ==
  LET r == req[s] IN
  /\ r.op = "delete"
  /\ SaveState(r.b, r.seen, "deleting")
  /\ doomed' = [doomed EXCEPT ![r.b] = TRUE]
  /\ req' = [req EXCEPT ![s] = NoRequest]
  /\ UNCHANGED <<endpoint, box, agentVars, call, late, asked, faults>>

-----------------------------------------------------------------------------
(***************************************************************************)
(* The control plane's side of an agent call c: reportBrowserState and     *)
(* confirmBrowserDeletion, each a read with its checks and then a write.   *)
(***************************************************************************)
ValidAgentTransition(current, next) ==
  CASE next = "error"    -> current # "deleting"
    [] next = "starting" -> current \in {"queued", "starting"}
    [] next = "running"  -> current \in {"queued", "starting", "running", "error"}
    [] next = "stopped"  -> current \in {"stopping", "stopped"}

Accepted(c) ==
  /\ state[c.b] \in Live
  /\ IF c.kind = "confirm" THEN state[c.b] = "deleting"
     ELSE ValidAgentTransition(state[c.b], c.kind)

AfterRead(c) ==
  IF Accepted(c)
  THEN [c EXCEPT !.phase = "read", !.seen = state[c.b], !.had = endpoint[c.b]]
  ELSE [c EXCEPT !.phase = "refused"]

\* Every report writes the endpoints it carries; only "running" carries any.
ReportBrowserState(c) ==
  /\ SaveState(c.b, c.seen, c.kind)
  /\ endpoint' = IF state[c.b] = "removed" THEN endpoint
                 ELSE [endpoint EXCEPT ![c.b] = Saved(@, c.had, c.kind = "running")]

ConfirmBrowserDeletion(c) ==
  /\ state' = [state EXCEPT ![c.b] = "removed"]
  /\ endpoint' = [endpoint EXCEPT ![c.b] = FALSE]

Write(c) ==
  /\ c.phase = "read"
  /\ IF c.kind = "confirm" THEN ConfirmBrowserDeletion(c)
     ELSE ReportBrowserState(c)
  /\ UNCHANGED doomed

HandlerRead ==
  /\ call.phase = "sent"
  /\ call' = AfterRead(call)
  /\ UNCHANGED <<recordVars, req, box, agentVars, late, asked, faults>>

HandlerWrite ==
  /\ Write(call)
  /\ call' = [call EXCEPT !.phase = "ok"]
  /\ UNCHANGED <<req, box, agentVars, late, asked, faults>>

LateRead(c) ==
  /\ c.phase = "sent"
  /\ late' = (late \ {c}) \cup (IF Accepted(c) THEN {AfterRead(c)} ELSE {})
  /\ UNCHANGED <<recordVars, req, box, agentVars, call, asked, faults>>

LateWrite(c) ==
  /\ Write(c)
  /\ late' = late \ {c}
  /\ UNCHANGED <<req, box, agentVars, call, asked, faults>>

-----------------------------------------------------------------------------
(***************************************************************************)
(* The agent's loop.                                                       *)
(***************************************************************************)
\* Reconcile fetches the commands once and works from that list until the
\* pass is over.  The list is in creation order; here, in any order.
Poll ==
  /\ pc = "idle"
  /\ plan' = [b \in Browser |-> IF state[b] \in Command THEN state[b] ELSE "none"]
  /\ pc' = "pass"
  /\ UNCHANGED <<recordVars, req, box, cmd, fresh, call, late, asked, faults>>

EndPass ==
  /\ pc = "pass"
  /\ \A b \in Browser : plan[b] = "none"
  /\ pc' = "idle"
  /\ UNCHANGED <<recordVars, req, box, plan, cmd, fresh, call, late, asked, faults>>

\* An HTTP call of the agent, which then waits for the answer.
Send(kind, b) ==
  /\ call' = [NoCall EXCEPT !.phase = "sent", !.kind = kind, !.b = b]
  /\ pc' = "await"

\* What reconcileBrowser does first with a command.
FirstStep(want) ==
  CASE want \in {"starting", "running", "error"} -> "ensure"
    [] want = "stopping" -> "stop"
    [] want = "deleting" -> "delete"

ReconcileBrowser(b) ==
  /\ pc = "pass"
  /\ plan[b] # "none"
  /\ cmd' = [b |-> b, want |-> plan[b]]
  /\ plan' = [plan EXCEPT ![b] = "none"]
  /\ IF plan[b] = "queued"
     THEN Send("starting", b)
     ELSE pc' = FirstStep(plan[b]) /\ UNCHANGED call
  /\ UNCHANGED <<recordVars, req, box, fresh, late, asked, faults>>

\* EnsureRunning creates what is missing and starts what is not running: the
\* volume, the browser, and the worker once the browser is healthy.
EnsureRunning ==
  /\ pc = "ensure"
  /\ \E step \in {<<"none", "volume">>, <<"volume", "halted">>,
                  <<"halted", "half">>, <<"half", "up">>} :
       /\ box[cmd.b] = step[1]
       /\ box' = [box EXCEPT ![cmd.b] = step[2]]
  /\ UNCHANGED <<recordVars, req, agentVars, call, late, asked, faults>>

\* A running browser is reported again only when its telemetry is due.
ShouldReportTelemetry == cmd.want \in {"running", "error"} => ~fresh[cmd.b]

\* Mutant: "running" is reported while the containers are being started.
ReportedBeforeStart ==
  /\ pc = "ensure"
  /\ box[cmd.b] \in {"halted", "half", "up"}
  /\ Send("running", cmd.b)
  /\ UNCHANGED <<recordVars, req, box, plan, cmd, fresh, late, asked, faults>>

EnsuredRunning ==
  /\ pc = "ensure"
  /\ box[cmd.b] = "up"
  /\ IF ShouldReportTelemetry
     THEN Send("running", cmd.b)
     ELSE pc' = "pass" /\ UNCHANGED call
  /\ UNCHANGED <<recordVars, req, box, plan, cmd, fresh, late, asked, faults>>

\* EnsureStopped stops the worker, then the browser.
EnsureStopped ==
  /\ pc = "stop"
  /\ \E step \in {<<"up", "half">>, <<"half", "halted">>} :
       /\ box[cmd.b] = step[1]
       /\ box' = [box EXCEPT ![cmd.b] = step[2]]
  /\ UNCHANGED <<recordVars, req, agentVars, call, late, asked, faults>>

\* Mutant: the engine's error for the browser's container is swallowed.
StoppedHalfway ==
  /\ pc = "stop"
  /\ box[cmd.b] # "up"
  /\ Send("stopped", cmd.b)
  /\ UNCHANGED <<recordVars, req, box, plan, cmd, fresh, late, asked, faults>>

EnsuredStopped ==
  /\ pc = "stop"
  /\ box[cmd.b] \in Halted
  /\ Send("stopped", cmd.b)
  /\ UNCHANGED <<recordVars, req, box, plan, cmd, fresh, late, asked, faults>>

\* EnsureDeleted removes worker, browser and volume, in this order; a
\* container is stopped before it is removed.
EnsureDeleted ==
  /\ pc = "delete"
  /\ \E step \in {<<"up", "half">>, <<"half", "halted">>,
                  <<"halted", "volume">>, <<"volume", "none">>} :
       /\ box[cmd.b] = step[1]
       /\ box' = [box EXCEPT ![cmd.b] = step[2]]
  /\ UNCHANGED <<recordVars, req, agentVars, call, late, asked, faults>>

\* Mutant: the volume is forgotten.
DeletedButVolume ==
  /\ pc = "delete"
  /\ box[cmd.b] \in {"none", "volume"}
  /\ Send("confirm", cmd.b)
  /\ UNCHANGED <<recordVars, req, box, plan, cmd, fresh, late, asked, faults>>

EnsuredDeleted ==
  /\ pc = "delete"
  /\ box[cmd.b] = "none"
  /\ Send("confirm", cmd.b)
  /\ UNCHANGED <<recordVars, req, box, plan, cmd, fresh, late, asked, faults>>

\* The answer of the control plane.  Only two answers matter to the agent:
\* a granted claim lets it start the runtime, and an accepted "running"
\* report is remembered.
Answered ==
  /\ pc = "await"
  /\ call.phase \in {"ok", "refused"}
  /\ pc' = IF call.kind = "starting" /\ call.phase = "ok" THEN "ensure" ELSE "pass"
  /\ fresh' = [fresh EXCEPT ![cmd.b] =
                 @ \/ (call.kind = "running" /\ call.phase = "ok")]
  /\ call' = NoCall
  /\ UNCHANGED <<recordVars, req, box, plan, cmd, late, asked, faults>>

\* telemetryInterval has passed since the report, or the page has changed.
TelemetryDue(b) ==
  /\ fresh[b]
  /\ fresh' = [fresh EXCEPT ![b] = FALSE]
  /\ UNCHANGED <<recordVars, req, box, pc, plan, cmd, call, late, asked, faults>>

-----------------------------------------------------------------------------
(***************************************************************************)
(* What can go wrong.                                                      *)
(***************************************************************************)
Fault == faults < MaxFaults /\ faults' = faults + 1

\* Mutant: a failed start cleans up what it created, and what was there.
ReportErrorCleaning ==
  /\ Fault
  /\ pc \in {"ensure", "stop"}
  /\ box' = [box EXCEPT ![cmd.b] = IF @ = "volume" THEN "none" ELSE @]
  /\ Send("error", cmd.b)
  /\ UNCHANGED <<recordVars, req, plan, cmd, fresh, late, asked>>

\* reportError after a failed EnsureRunning or EnsureStopped.
ReportError ==
  /\ Fault
  /\ pc \in {"ensure", "stop"}
  /\ Send("error", cmd.b)
  /\ UNCHANGED <<recordVars, req, box, plan, cmd, fresh, late, asked>>

\* The worker's image was rebuilt: ensureWorkerContainer removes the worker
\* of the old image, and may fail or die before it has created the new one.
ReplaceWorker ==
  /\ Fault
  /\ pc = "ensure"
  /\ box[cmd.b] = "up"
  /\ box' = [box EXCEPT ![cmd.b] = "half"]
  /\ UNCHANGED <<recordVars, req, agentVars, call, late, asked>>

\* A failed EnsureDeleted is not reported: the next pass tries again.
DeleteFails ==
  /\ Fault
  /\ pc = "delete"
  /\ pc' = "pass"
  /\ UNCHANGED <<recordVars, req, box, plan, cmd, fresh, call, late, asked>>

\* The request or the answer is lost, or the agent's client gives up.  With
\* LateHandlers the handler may go on after that.
CallFails ==
  /\ Fault
  /\ pc = "await"
  /\ LateHandlers \/ call.phase # "read"
  /\ late' \in {late} \cup (IF LateHandlers /\ call.phase \in {"sent", "read"}
                            THEN {late \cup {call}} ELSE {})
  /\ call.phase = "read" => late' # late
  /\ pc' = "pass"
  /\ call' = NoCall
  /\ UNCHANGED <<recordVars, req, box, plan, cmd, fresh, asked>>

AgentCrash ==
  /\ Fault
  /\ pc # "down"
  /\ pc' = "down"
  /\ plan' = [b \in Browser |-> "none"]
  /\ fresh' = [b \in Browser |-> FALSE]
  /\ late' = IF call.phase \in {"sent", "read"} THEN late \cup {call} ELSE late
  /\ call' = NoCall
  /\ UNCHANGED <<recordVars, req, box, cmd, asked>>

AgentRestart ==
  /\ pc = "down"
  /\ LateHandlers \/ late = {}
  /\ pc' = "idle"
  /\ UNCHANGED <<recordVars, req, box, plan, cmd, fresh, call, late, asked, faults>>

\* The control plane dies with the handlers in flight; its database stays.
ControlRestart ==
  /\ Fault
  /\ req' = [s \in Slot |-> NoRequest]
  /\ late' = {}
  /\ call' = IF call.phase \in {"sent", "read"}
             THEN [call EXCEPT !.phase = "refused"] ELSE call
  /\ UNCHANGED <<recordVars, box, agentVars, asked>>

-----------------------------------------------------------------------------
UserStep ==
  \/ \E b \in Browser : CreateBrowser(b)
  \/ \E s \in Slot, b \in Browser, op \in {"start", "stop", "delete"} :
       ReadBrowser(s, b, op)

HandlerStep ==
  \/ \E s \in Slot : PowerBrowser(s) \/ DeleteBrowser(s)
  \/ HandlerRead \/ HandlerWrite
  \/ \E c \in late : LateRead(c) \/ LateWrite(c)

AgentStep ==
  \/ Poll \/ EndPass
  \/ \E b \in Browser : ReconcileBrowser(b)
  \/ EnsureRunning \/ EnsuredRunning
  \/ EnsureStopped \/ EnsuredStopped
  \/ EnsureDeleted \/ EnsuredDeleted
  \/ Answered

FaultStep ==
  \/ ReportError \/ ReplaceWorker \/ DeleteFails
  \/ CallFails \/ AgentCrash \/ ControlRestart

Next ==
  \/ UserStep
  \/ HandlerStep
  \/ AgentStep
  \/ \E b \in Browser : TelemetryDue(b)
  \/ AgentRestart
  \/ FaultStep

Spec == Init /\ [][Next]_vars

\* The agent polls on a ticker and its restart policy is unless-stopped; a
\* handler that runs finishes; the clock advances.  Users owe nothing.
Fairness ==
  /\ WF_vars(AgentStep)
  /\ WF_vars(AgentRestart)
  /\ WF_vars(HandlerRead) /\ WF_vars(HandlerWrite)
  /\ WF_vars(\E c \in late : LateRead(c) \/ LateWrite(c))
  /\ \A s \in Slot : WF_vars(PowerBrowser(s) \/ DeleteBrowser(s))
  /\ \A b \in Browser : WF_vars(TelemetryDue(b))

FairSpec == Spec /\ Fairness

-----------------------------------------------------------------------------
TypeOK ==
  /\ state \in [Browser -> State]
  /\ endpoint \in [Browser -> BOOLEAN]
  /\ doomed \in [Browser -> BOOLEAN]
  /\ req \in [Slot -> Request]
  /\ box \in [Browser -> Box]
  /\ pc \in Location
  /\ plan \in [Browser -> Command \cup {"none"}]
  /\ cmd \in [b : Browser, want : Command]
  /\ fresh \in [Browser -> BOOLEAN]
  /\ call \in Call
  /\ late \subseteq Call
  /\ asked \in 0 .. MaxRequests
  /\ faults \in 0 .. MaxFaults

\* No runtime without a record: when a record is not there yet, or is
\* removed, nothing of its volume and containers exists.  The agent confirms
\* a deletion over HTTP while user requests race with it, and never looks at
\* a browser again once its record is gone.
NoOrphan == \A b \in Browser : state[b] \in {"absent", "removed"} => box[b] = "none"

\* A record is shown as running only while its browser's container is started,
\* whatever stale command, crash or lost answer came in between.  (Its worker
\* may be missing while the agent replaces one of an outdated image.)
RunningIsUp == \A b \in Browser : state[b] = "running" => box[b] \in Started

\* A record shown as stopped has no containers the agent left running:
\* "stopped" is the one state the agent never revisits.
StoppedIsHalted == \A b \in Browser : state[b] = "stopped" => box[b] \in Halted

\* Handlers that require state "running" then use worker_endpoint: it is set.
RunningHasEndpoint == \A b \in Browser : state[b] = "running" => endpoint[b]

\* The profile volume is destroyed only for a browser whose deletion was
\* saved: no stop, error, stale command or crash ever destroys user data.
ProfileKept ==
  [][\A b \in Browser : box[b] # "none" /\ box'[b] = "none" => doomed[b]]_vars

\* Once users and faults are quiet, record and runtime agree for good:
\* nothing stays in error, half started, half stopped or half deleted.
Settled(b) ==
  \/ state[b] = "absent"
  \/ state[b] = "running" /\ box[b] = "up" /\ endpoint[b]
  \/ state[b] = "stopped" /\ box[b] \in Halted
  \/ state[b] = "removed" /\ box[b] = "none"

Convergence == <>[](\A b \in Browser : Settled(b))

-----------------------------------------------------------------------------
(***************************************************************************)
(* The inductive invariant behind these properties when no handler is      *)
(* late.  The agent works on one command at a time and nobody else writes  *)
(* "running" or "stopped", so what it saw when it polled still limits what *)
(* the record can be.                                                      *)
(***************************************************************************)
Working == {"ensure", "stop", "delete"}

\* What a command says about its browser until the agent reports on it.
Holds(b, want) ==
  /\ state[b] \notin {"absent", "removed"}
  /\ want \in Runs => state[b] # "stopped"
  /\ want \in {"stopping", "deleting"} => state[b] # "running"
  /\ want = "deleting" => doomed[b]

\* What a call that can still write says about the runtime.
Backed(c) ==
  /\ c.kind = "running" => box[c.b] = "up"
  /\ c.kind = "stopped" => box[c.b] \in Halted
  /\ c.kind = "confirm" => box[c.b] = "none"

\* After the handler's read only users have written the record.
Recent(c) ==
  c.phase = "read" =>
    /\ c.seen \in Live
    /\ state[c.b] \in {c.seen, "queued", "stopping", "deleting"}
    /\ c.kind = "confirm" => c.seen = "deleting" /\ doomed[c.b]
    /\ c.kind \in AgentReport => ValidAgentTransition(c.seen, c.kind)
    /\ c.had = endpoint[c.b]

KindOfWant ==
  /\ call.kind = "starting" => cmd.want = "queued"
  /\ call.kind = "running" => cmd.want \in Runs
  /\ call.kind = "error" => cmd.want \in Runs \cup {"stopping"}
  /\ call.kind = "stopped" => cmd.want = "stopping"
  /\ call.kind = "confirm" => cmd.want = "deleting"

AgentInv ==
  /\ pc \in {"down", "idle"} => \A b \in Browser : plan[b] = "none"
  /\ pc \in Working \cup {"await"} => plan[cmd.b] = "none"
  /\ pc = "ensure" => cmd.want \in Runs
  /\ pc = "stop" => cmd.want = "stopping"
  /\ pc = "delete" => cmd.want = "deleting"
  /\ pc \in Working => Holds(cmd.b, cmd.want)
  /\ \A b \in Browser : plan[b] # "none" => Holds(b, plan[b])

CallInv ==
  /\ call.phase # "none" <=> pc = "await"
  /\ call.phase # "none" => call.b = cmd.b /\ KindOfWant
  /\ call.phase \in {"sent", "read"} => Holds(cmd.b, cmd.want) /\ Backed(call)
  /\ call.phase = "ok" /\ call.kind = "starting" => Holds(cmd.b, cmd.want)
  /\ Recent(call)

LateInv ==
  /\ late # {} => pc = "down"
  /\ \A c \in late : c.phase \in {"sent", "read"} /\ Backed(c) /\ Recent(c)
  /\ \A c, d \in late : c = d

UserInv == \A s \in Slot : req[s].op # "none" => state[req[s].b] # "absent"

DoomedInv == \A b \in Browser : state[b] \in {"deleting", "removed"} => doomed[b]

Safety == NoOrphan /\ RunningIsUp /\ StoppedIsHalted /\ RunningHasEndpoint

IInv ==
  TypeOK /\ AgentInv /\ CallInv /\ LateInv /\ UserInv /\ DoomedInv /\ Safety

\* What ProfileKept rests on, late handlers or not: the agent deletes only on
\* a command, and a command says "deleting" only after the owner did.
DeletionAsked ==
  /\ \A b \in Browser : "deleting" \in {state[b], plan[b]} => doomed[b]
  /\ pc = "delete" => doomed[cmd.b]

-----------------------------------------------------------------------------
\* What the documentation says of the record: it holds the desired state.  So a
\* deletion, which the user was told is under way, ends only with the removal
\* of the record; and while the user saves nothing, a browser that is to stop
\* leaves "stopping" only to be "stopped".
UserSaved(b) == \E s \in Slot : req[s].b = b /\ req[s].op # "none" /\ req'[s].op = "none"

DesiredStateKept ==
  [][\A b \in Browser : state'[b] # state[b] =>
       /\ state[b] = "deleting" => state'[b] = "removed"
       /\ state[b] = "stopping" => state'[b] = "stopped" \/ UserSaved(b)]_vars

\* The promise: the record seen as reserved, offered or removed, and the
\* runtime as absent, kept or powered.
Offered(s) == CASE s = "running" -> "offered"
                [] s \in {"absent", "removed"} -> s
                [] OTHER -> "pending"

Powered(x) == CASE x = "none" -> "none"
                [] x \in Started -> "up"
                [] OTHER -> "kept"

Promise == INSTANCE BrowserPromise WITH
  record <- [b \in Browser |-> Offered(state[b])],
  runtime <- [b \in Browser |-> Powered(box[b])],
  condemned <- doomed

\* Control plane and agent together keep the promise of BrowserPromise, which
\* knows of no handler, command or report.
ImplementsPromise == Promise!Spec

\* What the agent has its engine do for b, and whether the engine's word on it
\* stands: from the call until the agent has reported what came of it.
PassOf(b) ==
  IF cmd.b # b THEN "idle"
  ELSE CASE pc = "ensure" -> "run"
         [] pc = "stop"   -> "stop"
         [] pc = "delete" -> "delete"
         [] OTHER         -> "idle"

CalmOf(b) ==
  /\ cmd.b = b
  /\ pc \in Working \/ (pc = "await" /\ call.kind \in {"running", "stopped", "confirm"})

Engine(b) == INSTANCE RuntimePromise WITH
  box <- box[b], pass <- PassOf(b), calm <- CalmOf(b)

\* The engine this module has does nothing but what RuntimePromise, which
\* DockerRuntime implements, lets an engine do: it is used for one browser at a
\* time, moves a box as a pass moves it, and what is reported rests on what it
\* returned over.  It is the quiet case of the promise: nothing moves a box here
\* behind the agent's back.
UsesEngine ==
  /\ \A b \in Browser : Engine(b)!Init
  /\ [][\A b \in Browser : [Engine(b)!Next]_(Engine(b)!vars)]_vars
=============================================================================
