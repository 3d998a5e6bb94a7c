----------------------- MODULE BrowserLifecycleProofs -----------------------
(***************************************************************************)
(* Proofs about BrowserLifecycle: type correctness and the profile for     *)
(* every instance; the safety properties and the refinement of             *)
(* BrowserPromise for every instance without late handlers; and, for every *)
(* instance, that the engine used here keeps to RuntimePromise, as         *)
(* DockerRuntime is shown to do in AgentProofs.                            *)
(***************************************************************************)
EXTENDS BrowserLifecycle, TLAPS

LEMMA NullTypes ==
  /\ NoRequest \in Request
  /\ NoCall \in Call
  /\ NoCall.b \in Browser
  /\ NoRequest.op = "none"
  /\ NoCall.phase = "none"
BY BrowserAssumption
DEF NoRequest, Request, NoCall, Call, Operation, State, Live, AgentReport

\* Saving a column leaves a well-typed record, and touches no other record.
LEMMA SaveStateType ==
  ASSUME TypeOK, NEW b \in Browser, NEW seen \in State, NEW new \in State,
         SaveState(b, seen, new)
  PROVE  state' \in [Browser -> State]
BY DEF TypeOK, SaveState, Saved

LEMMA WriteType ==
  ASSUME TypeOK, NEW c \in Call, Write(c)
  PROVE  /\ state' \in [Browser -> State]
         /\ endpoint' \in [Browser -> BOOLEAN]
         /\ doomed' \in [Browser -> BOOLEAN]
<1>1. c.b \in Browser /\ c.seen \in State /\ c.had \in BOOLEAN
  BY DEF Call
<1>2. CASE c.kind = "confirm"
  BY <1>1, <1>2 DEF Write, ConfirmBrowserDeletion, TypeOK, State
<1>3. CASE c.kind # "confirm"
  <2>1. c.kind \in State
    BY <1>3 DEF Call, AgentReport, State, Live
  <2>2. state' \in [Browser -> State]
    BY <1>1, <1>3, <2>1, SaveStateType DEF Write, ReportBrowserState
  <2>3. endpoint' \in [Browser -> BOOLEAN]
    <3>1. Saved(endpoint[c.b], c.had, c.kind = "running") \in BOOLEAN
      BY <1>1 DEF Saved, TypeOK
    <3>2. QED
      BY <1>1, <1>3, <3>1 DEF Write, ReportBrowserState, TypeOK
  <2>4. QED
    BY <1>3, <2>2, <2>3 DEF Write, TypeOK
<1>4. QED
  BY <1>2, <1>3

LEMMA AfterReadType ==
  ASSUME TypeOK, NEW c \in Call
  PROVE  AfterRead(c) \in Call /\ AfterRead(c).phase \in {"read", "refused"}
<1>1. c.b \in Browser /\ state[c.b] \in State /\ endpoint[c.b] \in BOOLEAN
  BY DEF Call, TypeOK
<1>2. QED
  BY <1>1 DEF AfterRead, Call

LEMMA SendType ==
  ASSUME NEW kind \in AgentReport \cup {"confirm"}, NEW b \in Browser,
         Send(kind, b)
  PROVE  call' \in Call /\ pc' \in Location
BY NullTypes DEF Send, Call, NoCall, Location, State, Live

LEMMA FaultType ==
  ASSUME TypeOK, Fault
  PROVE  faults' \in 0 .. MaxFaults
BY BoundsAssumption DEF TypeOK, Fault

LEMMA TypeInit == Init => TypeOK
<1> SUFFICES ASSUME Init PROVE TypeOK
  OBVIOUS
<1>1. cmd \in [b : Browser, want : Command]
  BY NullTypes DEF Init, Command, Live
<1>2. asked \in 0 .. MaxRequests /\ faults \in 0 .. MaxFaults
  BY BoundsAssumption DEF Init
<1>3. QED
  BY <1>1, <1>2, NullTypes DEF Init, TypeOK, State, Box, Halted, Started, Location

LEMMA TypeUser ==
  ASSUME TypeOK, UserStep
  PROVE  TypeOK'
<1>1. ASSUME NEW b \in Browser, CreateBrowser(b) PROVE TypeOK'
  <2>1. asked' \in 0 .. MaxRequests
    BY <1>1, BoundsAssumption DEF CreateBrowser, TypeOK
  <2>2. QED
    BY <1>1, <2>1 DEF CreateBrowser, TypeOK, agentVars, State, Live
<1>2. ASSUME NEW s \in Slot, NEW b \in Browser,
             NEW op \in {"start", "stop", "delete"}, ReadBrowser(s, b, op)
      PROVE  TypeOK'
  <2>1. asked' \in 0 .. MaxRequests
    BY <1>2, BoundsAssumption DEF ReadBrowser, TypeOK
  <2>2. [op |-> op, b |-> b, seen |-> state[b]] \in Request
    BY <1>2 DEF ReadBrowser, OwnedBrowser, Request, Operation
  <2>3. req' \in [Slot -> Request]
    BY <1>2, <2>2 DEF ReadBrowser, TypeOK
  <2>4. QED
    BY <1>2, <2>1, <2>3 DEF ReadBrowser, TypeOK, recordVars, agentVars
<1>3. QED
  BY <1>1, <1>2 DEF UserStep

LEMMA TypeHandler ==
  ASSUME TypeOK, HandlerStep
  PROVE  TypeOK'
<1>1. ASSUME NEW s \in Slot, PowerBrowser(s) PROVE TypeOK'
  <2>1. req[s].b \in Browser /\ req[s].seen \in State
    BY DEF TypeOK, Request, State
  <2>2. (IF req[s].op = "start" THEN "queued" ELSE "stopping") \in State
    BY DEF State, Live
  <2>3. state' \in [Browser -> State]
    BY <1>1, <2>1, <2>2, SaveStateType DEF PowerBrowser
  <2>4. QED
    BY <1>1, <2>3, NullTypes DEF PowerBrowser, TypeOK, agentVars
<1>2. ASSUME NEW s \in Slot, DeleteBrowser(s) PROVE TypeOK'
  <2>1. req[s].b \in Browser /\ req[s].seen \in State
    BY DEF TypeOK, Request, State
  <2>2. state' \in [Browser -> State]
    BY <1>2, <2>1, SaveStateType DEF DeleteBrowser, State, Live
  <2>3. QED
    BY <1>2, <2>2, NullTypes DEF DeleteBrowser, TypeOK, agentVars
<1>3. CASE HandlerRead
  BY <1>3, AfterReadType DEF HandlerRead, TypeOK, recordVars, agentVars
<1>4. CASE HandlerWrite
  <2>1. call \in Call /\ call' \in Call
    BY <1>4 DEF HandlerWrite, TypeOK, Call
  <2>2. QED
    BY <1>4, <2>1, WriteType DEF HandlerWrite, TypeOK, agentVars
<1>5. ASSUME NEW c \in late, LateRead(c) PROVE TypeOK'
  <2>1. c \in Call
    BY DEF TypeOK
  <2>2. QED
    BY <1>5, <2>1, AfterReadType DEF LateRead, TypeOK, recordVars, agentVars
<1>6. ASSUME NEW c \in late, LateWrite(c) PROVE TypeOK'
  <2>1. c \in Call
    BY DEF TypeOK
  <2>2. QED
    BY <1>6, <2>1, WriteType DEF LateWrite, TypeOK, agentVars
<1>7. QED
  BY <1>1, <1>2, <1>3, <1>4, <1>5, <1>6 DEF HandlerStep

LEMMA TypeAgent ==
  ASSUME TypeOK, AgentStep
  PROVE  TypeOK'
<1>1. cmd.b \in Browser /\ cmd.want \in Command
  BY DEF TypeOK
<1>2. CASE Poll
  BY <1>2 DEF Poll, TypeOK, recordVars, Location
<1>3. CASE EndPass
  BY <1>3 DEF EndPass, TypeOK, recordVars, Location
<1>4. ASSUME NEW b \in Browser, ReconcileBrowser(b) PROVE TypeOK'
  <2>1. plan[b] \in Command
    BY <1>4 DEF ReconcileBrowser, TypeOK
  <2>2. cmd' \in [b : Browser, want : Command] /\ plan' \in [Browser -> Command \cup {"none"}]
    BY <1>4, <2>1 DEF ReconcileBrowser, TypeOK
  <2>3. call' \in Call /\ pc' \in Location
    <3>1. CASE plan[b] = "queued"
      BY <1>4, <3>1, SendType DEF ReconcileBrowser, AgentReport
    <3>2. CASE plan[b] # "queued"
      BY <1>4, <2>1, <3>2
      DEF ReconcileBrowser, FirstStep, Command, Live, Location, TypeOK
    <3>3. QED
      BY <3>1, <3>2
  <2>4. QED
    BY <1>4, <2>2, <2>3 DEF ReconcileBrowser, TypeOK, recordVars
<1>5. CASE EnsureRunning
  BY <1>1, <1>5 DEF EnsureRunning, TypeOK, recordVars, agentVars, Box, Halted, Started
<1>6. CASE EnsuredRunning
  <2>1. call' \in Call /\ pc' \in Location
    <3>1. CASE ShouldReportTelemetry
      BY <1>1, <1>6, <3>1, SendType DEF EnsuredRunning, AgentReport
    <3>2. CASE ~ShouldReportTelemetry
      BY <1>6, <3>2 DEF EnsuredRunning, Location, TypeOK
    <3>3. QED
      BY <3>1, <3>2
  <2>2. QED
    BY <1>6, <2>1 DEF EnsuredRunning, TypeOK, recordVars
<1>7. CASE EnsureStopped
  BY <1>1, <1>7 DEF EnsureStopped, TypeOK, recordVars, agentVars, Box, Halted, Started
<1>12. CASE EnsuredStopped
  <2>1. call' \in Call /\ pc' \in Location
    BY <1>1, <1>12, SendType DEF EnsuredStopped, AgentReport
  <2>2. QED
    BY <1>12, <2>1 DEF EnsuredStopped, TypeOK, recordVars
<1>8. CASE EnsureDeleted
  BY <1>1, <1>8 DEF EnsureDeleted, TypeOK, recordVars, agentVars, Box, Halted, Started
<1>9. CASE EnsuredDeleted
  <2>1. call' \in Call /\ pc' \in Location
    BY <1>1, <1>9, SendType DEF EnsuredDeleted
  <2>2. QED
    BY <1>9, <2>1 DEF EnsuredDeleted, TypeOK, recordVars
<1>10. CASE Answered
  <2>1. fresh' \in [Browser -> BOOLEAN]
    BY <1>1, <1>10 DEF Answered, TypeOK
  <2>2. QED
    BY <1>10, <2>1, NullTypes DEF Answered, TypeOK, recordVars, Location
<1>11. QED
  BY <1>2, <1>3, <1>4, <1>5, <1>6, <1>7, <1>8, <1>9, <1>10, <1>12 DEF AgentStep

LEMMA TypeFault ==
  ASSUME TypeOK, FaultStep
  PROVE  TypeOK'
<1>1. cmd.b \in Browser /\ cmd.want \in Command
  BY DEF TypeOK
<1>2. CASE ReportError
  <2>1. call' \in Call /\ pc' \in Location
    BY <1>1, <1>2, SendType DEF ReportError, AgentReport
  <2>2. QED
    BY <1>2, <2>1, FaultType DEF ReportError, TypeOK, recordVars
<1>8. CASE ReplaceWorker
  BY <1>1, <1>8, FaultType DEF ReplaceWorker, TypeOK, recordVars, agentVars, Box, Started
<1>3. CASE DeleteFails
  BY <1>3, FaultType DEF DeleteFails, TypeOK, recordVars, Location
<1>4. CASE CallFails
  <2>1. late' \subseteq Call
    BY <1>4 DEF CallFails, TypeOK
  <2>2. QED
    BY <1>4, <2>1, FaultType, NullTypes DEF CallFails, TypeOK, recordVars, Location
<1>5. CASE AgentCrash
  <2>1. late' \subseteq Call
    BY <1>5 DEF AgentCrash, TypeOK
  <2>2. QED
    BY <1>5, <2>1, FaultType, NullTypes DEF AgentCrash, TypeOK, recordVars, Location
<1>6. CASE ControlRestart
  <2>1. call' \in Call
    BY <1>6 DEF ControlRestart, TypeOK, Call
  <2>2. req' \in [Slot -> Request]
    BY <1>6, NullTypes DEF ControlRestart
  <2>3. QED
    BY <1>6, <2>1, <2>2, FaultType DEF ControlRestart, TypeOK, recordVars, agentVars
<1>7. QED
  BY <1>2, <1>3, <1>4, <1>5, <1>6, <1>8 DEF FaultStep

LEMMA TypeNext == TypeOK /\ [Next]_vars => TypeOK'
<1> SUFFICES ASSUME TypeOK, [Next]_vars PROVE TypeOK'
  OBVIOUS
<1>1. CASE UserStep
  BY <1>1, TypeUser
<1>2. CASE HandlerStep
  BY <1>2, TypeHandler
<1>3. CASE AgentStep
  BY <1>3, TypeAgent
<1>4. CASE \E b \in Browser : TelemetryDue(b)
  BY <1>4 DEF TelemetryDue, TypeOK, recordVars
<1>5. CASE AgentRestart
  BY <1>5 DEF AgentRestart, TypeOK, recordVars, Location
<1>6. CASE FaultStep
  BY <1>6, TypeFault
<1>7. CASE UNCHANGED vars
  BY <1>7 DEF vars, TypeOK
<1>8. QED
  BY <1>1, <1>2, <1>3, <1>4, <1>5, <1>6, <1>7 DEF Next

\* Every behaviour of the lifecycle, late handlers and all, keeps its types:
\* records, handlers, commands and calls stay within what the code can hold.
THEOREM TypeCorrect == Spec => []TypeOK
<1>1. QED
  BY TypeInit, TypeNext, PTL DEF Spec

-----------------------------------------------------------------------------
(***************************************************************************)
(* The inductive invariant.                                                *)
(***************************************************************************)

\* A user's save changes one record to a state only users write, and disturbs
\* nothing the agent relies on.
LEMMA UserWriteInv ==
  ASSUME IInv, TypeOK',
         \A b \in Browser :
           \/ state'[b] = state[b]
           \/ state'[b] \in {"queued", "stopping", "deleting"} /\ state[b] # "removed",
         \A b \in Browser : doomed[b] => doomed'[b],
         \A b \in Browser : state'[b] = "deleting" => doomed'[b],
         UNCHANGED <<endpoint, box, agentVars, call, late>>
  PROVE  AgentInv' /\ CallInv' /\ LateInv' /\ DoomedInv' /\ Safety'
<1> USE DEF IInv
<1>0. /\ pc' = pc /\ plan' = plan /\ cmd' = cmd /\ call' = call
      /\ late' = late /\ box' = box /\ endpoint' = endpoint
  BY DEF agentVars
<1>1. ASSUME NEW b \in Browser, NEW want \in Command, Holds(b, want)
      PROVE  /\ state'[b] \notin {"absent", "removed"}
             /\ want \in Runs => state'[b] # "stopped"
             /\ want \in {"stopping", "deleting"} => state'[b] # "running"
             /\ want = "deleting" => doomed'[b]
  BY <1>1 DEF Holds, Command, Live
<1>2. ASSUME NEW c \in Call, Recent(c)
      PROVE  c.phase = "read" =>
               /\ state'[c.b] \in {c.seen, "queued", "stopping", "deleting"}
               /\ c.kind = "confirm" => doomed'[c.b]
  <2>1. c.b \in Browser
    BY DEF Call
  <2>2. QED
    BY <1>2, <2>1 DEF Recent, TypeOK, Live
<1>4. cmd.b \in Browser /\ cmd.want \in Command /\ call \in Call /\ late \subseteq Call
  BY DEF TypeOK
<1>5. AgentInv'
  <2>1. \A b \in Browser : plan[b] # "none" => Holds(b, plan[b])'
    <3> SUFFICES ASSUME NEW b \in Browser, plan[b] # "none"
                 PROVE  Holds(b, plan[b])'
      OBVIOUS
    <3>1. plan[b] \in Command /\ Holds(b, plan[b])
      BY DEF AgentInv, TypeOK
    <3>2. QED
      BY <1>0, <1>1, <3>1 DEF Holds
  <2>2. pc \in Working => Holds(cmd.b, cmd.want)'
    BY <1>0, <1>1, <1>4 DEF AgentInv, Holds
  <2>3. QED
    BY <1>0, <2>1, <2>2 DEF AgentInv, Holds
<1>6. CallInv'
  <2>1. /\ call.phase \in {"sent", "read"} => Holds(cmd.b, cmd.want)'
        /\ call.phase = "ok" /\ call.kind = "starting" => Holds(cmd.b, cmd.want)'
    BY <1>0, <1>1, <1>4 DEF CallInv, Holds
  <2>2. Recent(call)'
    BY <1>0, <1>2, <1>4 DEF CallInv, Recent
  <2>3. QED
    BY <1>0, <2>1, <2>2 DEF CallInv, KindOfWant, Backed
<1>7. LateInv'
  <2>1. ASSUME NEW c \in late PROVE Recent(c)' /\ Backed(c)'
    BY <1>0, <1>2, <1>4 DEF LateInv, Recent, Backed
  <2>2. QED
    BY <1>0, <2>1 DEF LateInv
<1>8. DoomedInv'
  BY DEF DoomedInv
<1>9. Safety'
  BY <1>0 DEF Safety, NoOrphan, RunningIsUp, StoppedIsHalted, RunningHasEndpoint, TypeOK
<1>10. QED
  BY <1>5, <1>6, <1>7, <1>8, <1>9

LEMMA UserKeepsInv ==
  ASSUME IInv, TypeOK', UserStep
  PROVE  IInv'
<1>1. ASSUME NEW b \in Browser, CreateBrowser(b) PROVE IInv'
  <2>1. /\ \A a \in Browser : \/ state'[a] = state[a]
                              \/ state'[a] = "queued" /\ state[a] # "removed"
        /\ doomed' = doomed
        /\ UNCHANGED <<endpoint, box, agentVars, call, late>>
    BY <1>1 DEF CreateBrowser, IInv, TypeOK
  <2>2. \A a \in Browser : state'[a] = "deleting" => doomed'[a]
    BY <2>1 DEF IInv, DoomedInv
  <2>3. AgentInv' /\ CallInv' /\ LateInv' /\ DoomedInv' /\ Safety'
    BY <2>1, <2>2, UserWriteInv
  <2>4. UserInv'
    BY <1>1 DEF CreateBrowser, IInv, TypeOK, UserInv, Request
  <2>5. QED
    BY <2>3, <2>4 DEF IInv
<1>2. ASSUME NEW s \in Slot, NEW b \in Browser,
             NEW op \in {"start", "stop", "delete"}, ReadBrowser(s, b, op)
      PROVE  IInv'
  <2>1. AgentInv' /\ CallInv' /\ LateInv' /\ DoomedInv' /\ Safety'
    BY <1>2, UserWriteInv DEF ReadBrowser, recordVars, IInv, DoomedInv
  <2>2. UserInv'
    BY <1>2 DEF ReadBrowser, OwnedBrowser, Live, recordVars, IInv, TypeOK, UserInv
  <2>3. QED
    BY <2>1, <2>2 DEF IInv
<1>3. QED
  BY <1>1, <1>2 DEF UserStep

LEMMA UserSaveKeepsInv ==
  ASSUME IInv, TypeOK', NEW s \in Slot, PowerBrowser(s) \/ DeleteBrowser(s)
  PROVE  IInv'
<1>1. req[s].b \in Browser
  BY DEF IInv, TypeOK, Request
<1>2. CASE PowerBrowser(s)
  <2>1. AgentInv' /\ CallInv' /\ LateInv' /\ DoomedInv' /\ Safety'
    BY <1>1, <1>2, UserWriteInv
    DEF PowerBrowser, SaveState, Saved, IInv, TypeOK, DoomedInv
  <2>2. UserInv'
    BY <1>1, <1>2, NullTypes
    DEF PowerBrowser, SaveState, Saved, IInv, TypeOK, UserInv, Request
  <2>3. QED
    BY <2>1, <2>2 DEF IInv
<1>3. CASE DeleteBrowser(s)
  <2>1. AgentInv' /\ CallInv' /\ LateInv' /\ DoomedInv' /\ Safety'
    BY <1>1, <1>3, UserWriteInv
    DEF DeleteBrowser, SaveState, Saved, IInv, TypeOK, DoomedInv
  <2>2. UserInv'
    BY <1>1, <1>3, NullTypes
    DEF DeleteBrowser, SaveState, Saved, IInv, TypeOK, UserInv, Request
  <2>3. QED
    BY <2>1, <2>2 DEF IInv
<1>4. QED
  BY <1>2, <1>3

\* A write that the runtime backs and whose read only users have overtaken
\* keeps the record safe, and leaves every other record alone.
LEMMA WriteSafety ==
  ASSUME IInv, NEW c \in Call, Write(c), Backed(c), Recent(c), UNCHANGED box
  PROVE  /\ c.b \in Browser
         /\ \A b \in Browser \ {c.b} : state'[b] = state[b]
         /\ state'[c.b] # "absent"
         /\ c.kind = "starting" => state'[c.b] \in Live \ {"stopped", "running"}
         /\ doomed' = doomed
         /\ DoomedInv' /\ Safety'
<1> DEFINE b == c.b
<1>1. /\ b \in Browser /\ c.phase = "read" /\ c.seen \in Live
      /\ state[b] \in {c.seen, "queued", "stopping", "deleting"}
      /\ doomed' = doomed /\ box' = box
  BY DEF Call, Write, Recent
<1>2. state[b] \in Live
  BY <1>1 DEF Live
<1>3. CASE c.kind = "confirm"
  <2>1. /\ state' = [state EXCEPT ![b] = "removed"]
        /\ endpoint' = [endpoint EXCEPT ![b] = FALSE]
        /\ box[b] = "none" /\ doomed[b]
    BY <1>1, <1>3 DEF Write, ConfirmBrowserDeletion, Backed, Recent
  <2>2. DoomedInv'
    BY <1>1, <2>1 DEF DoomedInv, IInv, TypeOK
  <2>3. Safety'
    BY <1>1, <2>1
    DEF Safety, NoOrphan, RunningIsUp, StoppedIsHalted, RunningHasEndpoint, IInv, TypeOK
  <2>4. QED
    BY <1>1, <1>3, <2>1, <2>2, <2>3 DEF IInv, TypeOK
<1>4. CASE c.kind # "confirm"
  <2>1. c.kind \in AgentReport /\ ValidAgentTransition(c.seen, c.kind)
    BY <1>1, <1>4 DEF Call, Recent
  <2>2. state' = [state EXCEPT ![b] = IF c.kind = c.seen THEN @ ELSE c.kind]
    BY <1>1, <1>2, <1>4 DEF Write, ReportBrowserState, SaveState, Saved, Live
  <2>3. endpoint' = [endpoint EXCEPT ![b] = (c.kind = "running")]
    BY <1>1, <1>2, <1>4 DEF Write, ReportBrowserState, Saved, Live, Recent
  <2>4. /\ state'[b] \in Live
        /\ state'[b] = "running" => c.kind = "running"
        /\ state'[b] = "stopped" => c.kind = "stopped"
        /\ state'[b] = "deleting" => state[b] = "deleting"
        /\ c.kind = "starting" => state'[b] \notin {"stopped", "running"}
    BY <1>1, <1>2, <2>1, <2>2
    DEF AgentReport, ValidAgentTransition, Live, IInv, TypeOK
  <2>5. DoomedInv'
    BY <1>1, <2>2, <2>4 DEF DoomedInv, IInv, TypeOK, Live
  <2>6. ASSUME NEW a \in Browser
        PROVE  /\ state'[a] \in {"absent", "removed"} => box[a] = "none"
               /\ state'[a] = "running" => box[a] \in Started /\ endpoint'[a]
               /\ state'[a] = "stopped" => box[a] \in Halted
    <3>1. CASE a = b
      BY <1>1, <2>3, <2>4, <3>1 DEF Live, Backed, Started, IInv, TypeOK
    <3>2. CASE a # b
      BY <1>1, <2>2, <2>3, <3>2
      DEF IInv, TypeOK, Safety, NoOrphan, RunningIsUp, StoppedIsHalted, RunningHasEndpoint
    <3>3. QED
      BY <3>1, <3>2
  <2>7. Safety'
    BY <1>1, <2>6
    DEF Safety, NoOrphan, RunningIsUp, StoppedIsHalted, RunningHasEndpoint
  <2>8. QED
    BY <1>1, <1>4, <2>2, <2>4, <2>5, <2>7 DEF Live, IInv, TypeOK
<1>5. QED
  BY <1>3, <1>4

\* What the handler has read is recent, and says who may still write.
LEMMA AfterReadInv ==
  ASSUME IInv, NEW c \in Call, c.phase = "sent", Backed(c),
         UNCHANGED <<state, endpoint, doomed, box>>
  PROVE  /\ AfterRead(c).kind = c.kind /\ AfterRead(c).b = c.b
         /\ AfterRead(c).phase = IF Accepted(c) THEN "read" ELSE "refused"
         /\ Backed(AfterRead(c)) /\ Recent(AfterRead(c))
         /\ Backed(AfterRead(c))' /\ Recent(AfterRead(c))'
<1>1. /\ c.b \in Browser /\ c.kind \in AgentReport \cup {"confirm"}
      /\ state[c.b] \in State
  BY DEF Call, IInv, TypeOK
<1>2. /\ AfterRead(c).kind = c.kind /\ AfterRead(c).b = c.b
      /\ AfterRead(c).phase = IF Accepted(c) THEN "read" ELSE "refused"
      /\ Accepted(c) => AfterRead(c).seen = state[c.b] /\ AfterRead(c).had = endpoint[c.b]
  BY DEF AfterRead, Call
<1>3. /\ Backed(AfterRead(c)) /\ Recent(AfterRead(c))
  BY <1>1, <1>2 DEF Backed, Recent, Accepted, IInv, DoomedInv, AgentReport
<1>4. QED
  BY <1>2, <1>3 DEF Backed, Recent, AfterRead, Accepted

LEMMA HandlerKeepsInv ==
  ASSUME IInv, TypeOK', HandlerRead \/ HandlerWrite
  PROVE  IInv'
<1>1. /\ call \in Call /\ pc = "await" /\ late = {} /\ call.b = cmd.b
      /\ plan[cmd.b] = "none" /\ Backed(call) /\ Holds(cmd.b, cmd.want)
      /\ Recent(call) /\ KindOfWant /\ cmd.b \in Browser /\ cmd.want \in Command
  BY DEF HandlerRead, HandlerWrite, Write, IInv, TypeOK, CallInv, AgentInv, LateInv
<1>2. CASE HandlerRead
  <2>1. /\ call' = AfterRead(call) /\ call.phase = "sent"
        /\ pc' = pc /\ plan' = plan /\ cmd' = cmd /\ late' = late
        /\ UNCHANGED <<state, endpoint, doomed, box, req>>
    BY <1>2 DEF HandlerRead, agentVars, recordVars
  <2>2. /\ call'.phase \in {"read", "refused"} /\ call'.kind = call.kind
        /\ call'.b = call.b /\ Backed(call)' /\ Recent(call)'
    BY <1>1, <2>1, AfterReadInv DEF Backed, Recent
  <2>3. CallInv'
    BY <1>1, <2>1, <2>2 DEF CallInv, KindOfWant, Holds
  <2>4. AgentInv' /\ LateInv'
    BY <1>1, <2>1 DEF IInv, AgentInv, LateInv, Holds, Working
  <2>5. QED
    BY <2>1, <2>3, <2>4
    DEF IInv, UserInv, DoomedInv, Safety, NoOrphan, RunningIsUp, StoppedIsHalted,
        RunningHasEndpoint
<1>3. CASE HandlerWrite
  <2>1. /\ call' = [call EXCEPT !.phase = "ok"] /\ Write(call)
        /\ pc' = pc /\ plan' = plan /\ cmd' = cmd /\ late' = late
        /\ UNCHANGED box /\ UNCHANGED req
    BY <1>3 DEF HandlerWrite, agentVars
  <2>2. /\ \A b \in Browser \ {cmd.b} : state'[b] = state[b]
        /\ state'[cmd.b] # "absent"
        /\ call.kind = "starting" => state'[cmd.b] \in Live \ {"stopped", "running"}
        /\ doomed' = doomed /\ DoomedInv' /\ Safety'
    BY <1>1, <2>1, WriteSafety
  <2>3. call'.phase = "ok" /\ call'.kind = call.kind /\ call'.b = call.b
    BY <1>1, <2>1 DEF Call
  <2>4. CallInv'
    BY <1>1, <2>1, <2>2, <2>3
    DEF CallInv, KindOfWant, Holds, Recent, Live, Runs
  <2>5. AgentInv' /\ LateInv'
    BY <1>1, <2>1, <2>2 DEF IInv, AgentInv, LateInv, Holds, Working, TypeOK
  <2>6. UserInv'
    BY <1>1, <2>1, <2>2 DEF IInv, UserInv, TypeOK, Request
  <2>7. QED
    BY <2>2, <2>4, <2>5, <2>6 DEF IInv
<1>4. QED
  BY <1>2, <1>3

LEMMA LateKeepsInv ==
  ASSUME IInv, TypeOK', NEW c \in late, LateRead(c) \/ LateWrite(c)
  PROVE  IInv'
<1>1. /\ c \in Call /\ late = {c} /\ Backed(c) /\ Recent(c) /\ c.b \in Browser
      /\ pc = "down" /\ call.phase = "none"
      /\ \A b \in Browser : plan[b] = "none"
  BY DEF IInv, TypeOK, Call, LateInv, AgentInv, CallInv
<1>2. pc' = pc /\ plan' = plan /\ cmd' = cmd /\ call' = call /\ box' = box /\ req' = req
  BY DEF LateRead, LateWrite, agentVars
<1>3. AgentInv' /\ CallInv'
  BY <1>1, <1>2 DEF IInv, AgentInv, CallInv, Working, Recent
<1>4. CASE LateRead(c)
  <2>1. /\ c.phase = "sent" /\ UNCHANGED <<state, endpoint, doomed, box>>
        /\ late' = IF Accepted(c) THEN {AfterRead(c)} ELSE {}
    BY <1>1, <1>4 DEF LateRead, recordVars
  <2>2. LateInv'
    BY <1>1, <1>2, <2>1, AfterReadInv DEF LateInv, Backed, Recent
  <2>3. QED
    BY <1>2, <1>3, <2>1, <2>2
    DEF IInv, UserInv, DoomedInv, Safety, NoOrphan, RunningIsUp, StoppedIsHalted,
        RunningHasEndpoint
<1>5. CASE LateWrite(c)
  <2>1. late' = {} /\ Write(c) /\ UNCHANGED box
    BY <1>1, <1>5 DEF LateWrite
  <2>2. /\ \A b \in Browser \ {c.b} : state'[b] = state[b]
        /\ state'[c.b] # "absent" /\ DoomedInv' /\ Safety'
    BY <1>1, <2>1, WriteSafety
  <2>3. UserInv'
    BY <1>1, <1>2, <2>2 DEF IInv, UserInv, TypeOK, Request
  <2>4. QED
    BY <1>3, <2>1, <2>2, <2>3 DEF IInv, LateInv
<1>6. QED
  BY <1>4, <1>5

\* A call just sent: the agent waits, and no handler has read anything yet.
LEMMA SendFacts ==
  ASSUME NEW kind \in AgentReport \cup {"confirm"}, NEW b \in Browser, Send(kind, b)
  PROVE  /\ call'.phase = "sent" /\ call'.kind = kind /\ call'.b = b
         /\ pc' = "await"
BY DEF Send, NoCall

\* A step that leaves the database and the user's handlers alone keeps their
\* part of the invariant as long as the runtime it changes stays backed.
LEMMA RecordsKept ==
  ASSUME IInv, UNCHANGED <<recordVars, req>>,
         \A b \in Browser :
           \/ box'[b] = box[b]
           \/ state[b] \notin {"absent", "removed", "running", "stopped"}
           \/ state[b] = "running" /\ box'[b] \in Started
           \/ state[b] = "stopped" /\ box'[b] \in Halted
  PROVE  UserInv' /\ DoomedInv' /\ Safety'
<1>1. state' = state /\ endpoint' = endpoint /\ doomed' = doomed /\ req' = req
  BY DEF recordVars
<1>2. UserInv' /\ DoomedInv'
  BY <1>1 DEF IInv, UserInv, DoomedInv
<1>3. Safety'
  BY <1>1
  DEF IInv, Safety, NoOrphan, RunningIsUp, StoppedIsHalted, RunningHasEndpoint
<1>4. QED
  BY <1>2, <1>3

\* The agent outside a call: nothing of it is at the control plane.
LEMMA AgentAlone ==
  ASSUME IInv, pc \notin {"await", "down"}
  PROVE  call.phase = "none" /\ late = {} /\ cmd.b \in Browser /\ cmd.want \in Command
BY DEF IInv, CallInv, LateInv, TypeOK

LEMMA PassKeepsInv ==
  ASSUME IInv, TypeOK', Poll \/ EndPass \/ \E b \in Browser : ReconcileBrowser(b)
  PROVE  IInv'
<1>1. call.phase = "none" /\ late = {}
  BY AgentAlone DEF Poll, EndPass, ReconcileBrowser
<1>2. /\ state' = state /\ endpoint' = endpoint /\ doomed' = doomed
      /\ req' = req /\ box' = box /\ late' = late
      /\ UNCHANGED <<recordVars, req>>
  BY DEF Poll, EndPass, ReconcileBrowser, recordVars
<1>3. UserInv' /\ DoomedInv' /\ Safety'
  BY <1>2, RecordsKept
<1>4. LateInv'
  BY <1>1, <1>2 DEF LateInv
<1>5. CASE Poll
  <2>1. /\ pc' = "pass" /\ cmd' = cmd /\ call' = call
        /\ plan' = [b \in Browser |-> IF state[b] \in Command THEN state[b] ELSE "none"]
    BY <1>5 DEF Poll
  <2>2. \A b \in Browser : plan'[b] # "none" => Holds(b, plan[b])'
    BY <1>2, <2>1 DEF Holds, IInv, DoomedInv, Command, Live, Runs
  <2>3. AgentInv'
    BY <2>1, <2>2 DEF AgentInv, Working, Holds
  <2>4. CallInv'
    BY <1>1, <2>1 DEF CallInv, Recent
  <2>5. QED
    BY <1>3, <1>4, <2>3, <2>4 DEF IInv
<1>6. CASE EndPass
  <2>1. /\ pc' = "idle" /\ cmd' = cmd /\ call' = call /\ plan' = plan
        /\ \A b \in Browser : plan[b] = "none"
    BY <1>6 DEF EndPass
  <2>2. AgentInv' /\ CallInv'
    BY <1>1, <2>1 DEF AgentInv, CallInv, Recent, Working
  <2>3. QED
    BY <1>3, <1>4, <2>2 DEF IInv
<1>7. ASSUME NEW b \in Browser, ReconcileBrowser(b) PROVE IInv'
  <2>1. /\ plan[b] \in Command /\ Holds(b, plan[b])
        /\ cmd' = [b |-> b, want |-> plan[b]]
        /\ plan' = [plan EXCEPT ![b] = "none"]
    BY <1>7 DEF ReconcileBrowser, IInv, TypeOK, AgentInv
  <2>2. /\ plan'[b] = "none" /\ Holds(cmd.b, cmd.want)'
        /\ \A a \in Browser : plan'[a] # "none" => Holds(a, plan[a])'
    BY <1>2, <2>1 DEF Holds, IInv, TypeOK, AgentInv
  <2>3. CASE plan[b] = "queued"
    <3>1. /\ call'.phase = "sent" /\ call'.kind = "starting" /\ call'.b = b
          /\ pc' = "await"
      BY <1>7, <2>3, SendFacts DEF ReconcileBrowser, AgentReport
    <3>2. CallInv'
      BY <2>1, <2>2, <2>3, <3>1 DEF CallInv, KindOfWant, Backed, Recent
    <3>3. AgentInv'
      BY <2>1, <2>2, <3>1 DEF AgentInv, Working, Holds
    <3>4. QED
      BY <1>3, <1>4, <3>2, <3>3 DEF IInv
  <2>4. CASE plan[b] # "queued"
    <3>1. pc' = FirstStep(plan[b]) /\ call' = call
      BY <1>7, <2>4 DEF ReconcileBrowser
    <3>2. /\ pc' \in Working
          /\ pc' = "ensure" => plan[b] \in Runs
          /\ pc' = "stop" => plan[b] = "stopping"
          /\ pc' = "delete" => plan[b] = "deleting"
      BY <2>1, <2>4, <3>1 DEF FirstStep, Command, Live, Runs, Working
    <3>3. AgentInv'
      BY <2>1, <2>2, <3>2 DEF AgentInv, Holds, Working
    <3>4. CallInv'
      BY <1>1, <3>1, <3>2 DEF CallInv, Recent, Working
    <3>5. QED
      BY <1>3, <1>4, <3>3, <3>4 DEF IInv
  <2>5. QED
    BY <2>3, <2>4
<1>8. QED
  BY <1>5, <1>6, <1>7

\* The agent sends a report that the runtime, as it now is, backs.
LEMMA SentKeepsInv ==
  ASSUME IInv, TypeOK', pc \notin {"await", "down"},
         NEW kind \in (AgentReport \ {"starting"}) \cup {"confirm"}, Send(kind, cmd.b),
         plan[cmd.b] = "none", Holds(cmd.b, cmd.want),
         kind = "running" => cmd.want \in Runs /\ box'[cmd.b] = "up",
         kind = "error" => cmd.want \in Runs \cup {"stopping"},
         kind = "stopped" => cmd.want = "stopping" /\ box'[cmd.b] \in Halted,
         kind = "confirm" => cmd.want = "deleting" /\ box'[cmd.b] = "none",
         UNCHANGED <<recordVars, req, plan, cmd, late>>
  PROVE  AgentInv' /\ CallInv' /\ LateInv'
<1>1. /\ call'.phase = "sent" /\ call'.kind = kind /\ call'.b = cmd.b /\ pc' = "await"
  BY AgentAlone, SendFacts
<1>2. /\ state' = state /\ doomed' = doomed /\ plan' = plan /\ cmd' = cmd
      /\ late' = late /\ late = {}
  BY AgentAlone DEF recordVars
<1>3. Backed(call)' /\ KindOfWant'
  BY <1>1, <1>2 DEF Backed, KindOfWant, AgentReport
<1>4. CallInv'
  BY <1>1, <1>2, <1>3 DEF CallInv, Holds, Recent
<1>5. AgentInv'
  BY <1>1, <1>2 DEF IInv, AgentInv, Holds, Working
<1>6. QED
  BY <1>2, <1>4, <1>5 DEF LateInv

\* The agent goes on in its loop without a call.
LEMMA LoopKeepsInv ==
  ASSUME IInv, TypeOK', pc \notin {"await", "down"},
         pc' = pc \/ (pc' = "pass" /\ pc # "idle"),
         UNCHANGED <<recordVars, req, plan, cmd, call, late>>
  PROVE  AgentInv' /\ CallInv' /\ LateInv'
<1>1. /\ state' = state /\ doomed' = doomed /\ plan' = plan /\ cmd' = cmd
      /\ call' = call /\ late' = late /\ late = {} /\ call.phase = "none"
  BY AgentAlone DEF recordVars
<1>2. CallInv' /\ LateInv'
  BY <1>1 DEF IInv, CallInv, LateInv, Recent
<1>3. AgentInv'
  BY <1>1 DEF IInv, AgentInv, Holds, Working
<1>4. QED
  BY <1>2, <1>3

LEMMA EnsureKeepsInv ==
  ASSUME IInv, TypeOK',
         EnsureRunning \/ EnsuredRunning \/ EnsureStopped \/ EnsuredStopped
         \/ EnsureDeleted \/ EnsuredDeleted
  PROVE  IInv'
<1>1. /\ pc \in Working /\ pc \notin {"await", "down", "idle"}
      /\ cmd.b \in Browser /\ plan[cmd.b] = "none" /\ Holds(cmd.b, cmd.want)
      /\ UNCHANGED <<recordVars, req, plan, cmd, late>>
      /\ pc = "ensure" => cmd.want \in Runs
      /\ pc = "stop" => cmd.want = "stopping"
      /\ pc = "delete" => cmd.want = "deleting"
  BY DEF EnsureRunning, EnsuredRunning, EnsureStopped, EnsuredStopped, EnsureDeleted, EnsuredDeleted,
         Working, agentVars, IInv, TypeOK, AgentInv
<1>2. state[cmd.b] \in Live /\ box[cmd.b] \in Box /\ box \in [Browser -> Box]
  BY <1>1 DEF Holds, IInv, TypeOK, State
<1>3. CASE EnsureRunning
  <2>1. pc = "ensure" /\ pc' = pc /\ call' = call
    BY <1>3 DEF EnsureRunning, agentVars
  <2>2. /\ \/ box[cmd.b] \in Halted
           \/ box[cmd.b] = "half" /\ box'[cmd.b] = "up"
        /\ \A b \in Browser \ {cmd.b} : box'[b] = box[b]
    BY <1>1, <1>2, <1>3 DEF EnsureRunning, Halted
  <2>3. /\ state[cmd.b] # "stopped"
        /\ state[cmd.b] = "running" => box'[cmd.b] \in Started
    BY <1>1, <2>1, <2>2 DEF IInv, Safety, RunningIsUp, Holds, Halted, Started
  <2>4. UserInv' /\ DoomedInv' /\ Safety'
    BY <1>1, <1>2, <2>2, <2>3, RecordsKept DEF Live
  <2>5. QED
    BY <1>1, <2>1, <2>4, LoopKeepsInv DEF IInv
<1>4. CASE EnsuredRunning
  <2>1. pc = "ensure" /\ box' = box /\ box[cmd.b] = "up"
    BY <1>4 DEF EnsuredRunning
  <2>2. UserInv' /\ DoomedInv' /\ Safety'
    BY <1>1, <2>1, RecordsKept
  <2>3. CASE ShouldReportTelemetry
    <3>1. Send("running", cmd.b)
      BY <1>4, <2>3 DEF EnsuredRunning
    <3>2. AgentInv' /\ CallInv' /\ LateInv'
      BY <1>1, <2>1, <3>1, SentKeepsInv DEF AgentReport
    <3>3. QED
      BY <2>2, <3>2 DEF IInv
  <2>4. CASE ~ShouldReportTelemetry
    <3>1. pc' = "pass" /\ call' = call
      BY <1>4, <2>4 DEF EnsuredRunning
    <3>2. QED
      BY <1>1, <2>2, <3>1, LoopKeepsInv DEF IInv
  <2>5. QED
    BY <2>3, <2>4
<1>5. CASE EnsureStopped \/ EnsureDeleted
  <2>1. pc \in {"stop", "delete"} /\ pc' = pc /\ call' = call
    BY <1>5 DEF EnsureStopped, EnsureDeleted, agentVars
  <2>2. box'[cmd.b] \in Halted \cup {"half"} /\ \A b \in Browser \ {cmd.b} : box'[b] = box[b]
    BY <1>1, <1>2, <1>5 DEF EnsureStopped, EnsureDeleted, Halted
  <2>3. state[cmd.b] # "running" /\ (state[cmd.b] = "stopped" => box'[cmd.b] \in Halted)
    BY <1>1, <1>2, <1>5, <2>1
    DEF EnsureStopped, EnsureDeleted, Holds, Halted, IInv, Safety, StoppedIsHalted
  <2>4. UserInv' /\ DoomedInv' /\ Safety'
    BY <1>1, <1>2, <2>2, <2>3, RecordsKept DEF Live
  <2>5. QED
    BY <1>1, <2>1, <2>4, LoopKeepsInv DEF IInv
<1>6. CASE EnsuredStopped
  <2>1. pc = "stop" /\ box' = box /\ box[cmd.b] \in Halted /\ Send("stopped", cmd.b)
    BY <1>6 DEF EnsuredStopped
  <2>2. UserInv' /\ DoomedInv' /\ Safety'
    BY <1>1, <2>1, RecordsKept
  <2>3. AgentInv' /\ CallInv' /\ LateInv'
    BY <1>1, <2>1, SentKeepsInv DEF AgentReport
  <2>4. QED
    BY <2>2, <2>3 DEF IInv
<1>7. CASE EnsuredDeleted
  <2>1. pc = "delete" /\ box' = box /\ box[cmd.b] = "none" /\ Send("confirm", cmd.b)
    BY <1>7 DEF EnsuredDeleted
  <2>2. UserInv' /\ DoomedInv' /\ Safety'
    BY <1>1, <2>1, RecordsKept
  <2>3. AgentInv' /\ CallInv' /\ LateInv'
    BY <1>1, <2>1, SentKeepsInv
  <2>4. QED
    BY <2>2, <2>3 DEF IInv
<1>8. QED
  BY <1>3, <1>4, <1>5, <1>6, <1>7

LEMMA AnsweredKeepsInv ==
  ASSUME IInv, TypeOK', Answered
  PROVE  IInv'
<1>1. /\ pc = "await" /\ call.phase \in {"ok", "refused"} /\ late = {}
      /\ plan[cmd.b] = "none"
      /\ call.kind = "starting" /\ call.phase = "ok"
           => cmd.want = "queued" /\ Holds(cmd.b, cmd.want)
  BY DEF Answered, IInv, LateInv, AgentInv, CallInv, KindOfWant
<1>2. /\ pc' = IF call.kind = "starting" /\ call.phase = "ok" THEN "ensure" ELSE "pass"
      /\ call'.phase = "none" /\ late' = late /\ plan' = plan /\ cmd' = cmd
      /\ box' = box /\ state' = state /\ doomed' = doomed
      /\ UNCHANGED <<recordVars, req>>
  BY NullTypes DEF Answered, recordVars
<1>3. UserInv' /\ DoomedInv' /\ Safety'
  BY <1>2, RecordsKept
<1>4. CallInv' /\ LateInv'
  BY <1>1, <1>2 DEF CallInv, LateInv, Recent
<1>5. AgentInv'
  BY <1>1, <1>2 DEF IInv, AgentInv, Holds, Working, Runs
<1>6. QED
  BY <1>3, <1>4, <1>5 DEF IInv

LEMMA FaultKeepsInv ==
  ASSUME IInv, TypeOK', ~LateHandlers, FaultStep \/ AgentRestart
  PROVE  IInv'
<1>1. CASE ReplaceWorker
  <2>1. /\ pc = "ensure" /\ pc' = pc
        /\ UNCHANGED <<recordVars, req, plan, cmd, call, late>>
        /\ box[cmd.b] = "up" /\ box' = [box EXCEPT ![cmd.b] = "half"]
    BY <1>1 DEF ReplaceWorker, agentVars
  <2>2. cmd.b \in Browser /\ \A b \in Browser \ {cmd.b} : box'[b] = box[b]
    BY <2>1 DEF IInv, TypeOK
  <2>3. box'[cmd.b] \in Started /\ state[cmd.b] \notin {"stopped", "absent", "removed"}
    BY <2>1, <2>2 DEF IInv, TypeOK, AgentInv, Working, Holds, Started
  <2>4. UserInv' /\ DoomedInv' /\ Safety'
    BY <2>1, <2>2, <2>3, RecordsKept
  <2>5. AgentInv' /\ CallInv' /\ LateInv'
    BY <2>1, LoopKeepsInv
  <2>6. QED
    BY <2>4, <2>5 DEF IInv
<1> SUFFICES ASSUME ~ReplaceWorker PROVE IInv'
  BY <1>1
<1>9. UNCHANGED <<recordVars, box>>
  BY DEF FaultStep, ReportError, DeleteFails, CallFails, AgentCrash, ControlRestart,
         AgentRestart, recordVars
<1>2. state' = state /\ endpoint' = endpoint /\ doomed' = doomed /\ box' = box
  BY <1>9 DEF recordVars
<1>3. CASE ReportError
  <2>1. /\ pc \in {"ensure", "stop"} /\ Send("error", cmd.b)
        /\ UNCHANGED <<req, plan, cmd, late>>
    BY <1>3 DEF ReportError
  <2>2. UserInv' /\ DoomedInv' /\ Safety'
    BY <1>9, <2>1, RecordsKept
  <2>3. /\ plan[cmd.b] = "none" /\ Holds(cmd.b, cmd.want)
        /\ cmd.want \in Runs \cup {"stopping"}
    BY <2>1 DEF IInv, AgentInv, Working
  <2>4. AgentInv' /\ CallInv' /\ LateInv'
    BY <1>9, <2>1, <2>3, SentKeepsInv DEF AgentReport
  <2>5. QED
    BY <2>2, <2>4 DEF IInv
<1>4. CASE DeleteFails
  <2>1. pc = "delete" /\ pc' = "pass" /\ UNCHANGED <<req, plan, cmd, call, late>>
    BY <1>4 DEF DeleteFails
  <2>2. UserInv' /\ DoomedInv' /\ Safety'
    BY <1>9, <2>1, RecordsKept
  <2>3. AgentInv' /\ CallInv' /\ LateInv'
    BY <1>9, <2>1, LoopKeepsInv
  <2>4. QED
    BY <2>2, <2>3 DEF IInv
<1>5. CASE CallFails
  <2>1. /\ pc = "await" /\ pc' = "pass" /\ call'.phase = "none" /\ late' = late
        /\ UNCHANGED <<req, plan, cmd>>
    BY <1>5, NullTypes DEF CallFails
  <2>2. late = {}
    BY <2>1 DEF IInv, LateInv
  <2>3. UserInv' /\ DoomedInv' /\ Safety'
    BY <1>9, <2>1, RecordsKept
  <2>4. CallInv' /\ LateInv'
    BY <2>1, <2>2 DEF CallInv, LateInv, Recent
  <2>5. AgentInv'
    BY <1>2, <2>1 DEF IInv, AgentInv, Holds, Working
  <2>6. QED
    BY <2>3, <2>4, <2>5 DEF IInv
<1>6. CASE AgentCrash
  <2>1. /\ pc # "down" /\ pc' = "down" /\ call'.phase = "none"
        /\ plan' = [b \in Browser |-> "none"] /\ req' = req
        /\ late' = IF call.phase \in {"sent", "read"} THEN late \cup {call} ELSE late
    BY <1>6, NullTypes DEF AgentCrash
  <2>2. late = {} /\ Recent(call) /\ (call.phase \in {"sent", "read"} => Backed(call))
    BY <2>1 DEF IInv, LateInv, CallInv
  <2>3. UserInv' /\ DoomedInv' /\ Safety'
    BY <1>9, <2>1, RecordsKept
  <2>4. LateInv'
    BY <1>2, <2>1, <2>2 DEF LateInv, Backed, Recent
  <2>5. AgentInv' /\ CallInv'
    BY <2>1 DEF AgentInv, CallInv, Recent, Working
  <2>6. QED
    BY <2>3, <2>4, <2>5 DEF IInv
<1>7. CASE ControlRestart
  <2>1. /\ pc' = pc /\ plan' = plan /\ cmd' = cmd /\ late' = {}
        /\ req' = [s \in Slot |-> NoRequest]
        /\ call' = IF call.phase \in {"sent", "read"}
                   THEN [call EXCEPT !.phase = "refused"] ELSE call
    BY <1>7 DEF ControlRestart, agentVars
  <2>2. /\ call'.kind = call.kind /\ call'.b = call.b
        /\ call'.phase = IF call.phase \in {"sent", "read"} THEN "refused" ELSE call.phase
    BY <2>1 DEF IInv, TypeOK, Call
  <2>3. UserInv'
    BY <2>1, NullTypes DEF UserInv
  <2>4. DoomedInv' /\ Safety'
    BY <1>2 DEF IInv, DoomedInv, Safety, NoOrphan, RunningIsUp, StoppedIsHalted,
                RunningHasEndpoint
  <2>5. AgentInv' /\ LateInv'
    BY <1>2, <2>1 DEF IInv, AgentInv, LateInv, Holds, Working
  <2>6. CallInv'
    BY <1>2, <2>1, <2>2 DEF IInv, TypeOK, Call, CallInv, KindOfWant, Holds, Recent
  <2>7. QED
    BY <2>3, <2>4, <2>5, <2>6 DEF IInv
<1>8. CASE AgentRestart
  <2>1. /\ pc = "down" /\ pc' = "idle" /\ late = {}
        /\ late' = late /\ call' = call /\ UNCHANGED <<req, plan, cmd>>
    BY <1>8 DEF AgentRestart
  <2>2. UserInv' /\ DoomedInv' /\ Safety'
    BY <1>9, <2>1, RecordsKept
  <2>3. CallInv' /\ LateInv'
    BY <2>1 DEF IInv, CallInv, LateInv, Recent
  <2>4. AgentInv'
    BY <2>1 DEF IInv, AgentInv, Working
  <2>5. QED
    BY <2>2, <2>3, <2>4 DEF IInv
<1>10. QED
  BY <1>3, <1>4, <1>5, <1>6, <1>7, <1>8 DEF FaultStep

LEMMA QuietKeepsInv ==
  ASSUME IInv, TypeOK', UNCHANGED vars \/ \E b \in Browser : TelemetryDue(b)
  PROVE  IInv'
<1>1. /\ state' = state /\ endpoint' = endpoint /\ doomed' = doomed /\ req' = req
      /\ box' = box /\ pc' = pc /\ plan' = plan /\ cmd' = cmd /\ call' = call
      /\ late' = late
  BY DEF vars, TelemetryDue, recordVars
<1>2. QED
  BY <1>1
  DEF IInv, AgentInv, CallInv, KindOfWant, LateInv, UserInv, DoomedInv, Safety, Holds,
      Backed, Recent, NoOrphan, RunningIsUp, StoppedIsHalted, RunningHasEndpoint

LEMMA InvInit == Init => IInv
<1> SUFFICES ASSUME Init PROVE IInv
  OBVIOUS
<1>1. TypeOK
  BY TypeInit
<1>2. AgentInv /\ CallInv /\ LateInv
  BY NullTypes DEF Init, AgentInv, CallInv, LateInv, Recent, Working
<1>3. UserInv /\ DoomedInv /\ Safety
  BY NullTypes DEF Init, UserInv, DoomedInv, Safety, NoOrphan, RunningIsUp,
                   StoppedIsHalted, RunningHasEndpoint
<1>4. QED
  BY <1>1, <1>2, <1>3 DEF IInv

LEMMA InvNext == IInv /\ [Next]_vars /\ ~LateHandlers => IInv'
<1> SUFFICES ASSUME IInv, [Next]_vars, ~LateHandlers PROVE IInv'
  OBVIOUS
<1>1. TypeOK'
  BY TypeNext DEF IInv
<1>2. CASE UserStep
  BY <1>1, <1>2, UserKeepsInv
<1>3. CASE HandlerStep
  BY <1>1, <1>3, UserSaveKeepsInv, HandlerKeepsInv, LateKeepsInv DEF HandlerStep
<1>4. CASE AgentStep
  BY <1>1, <1>4, PassKeepsInv, EnsureKeepsInv, AnsweredKeepsInv DEF AgentStep
<1>5. CASE FaultStep \/ AgentRestart
  BY <1>1, <1>5, FaultKeepsInv
<1>6. CASE UNCHANGED vars \/ \E b \in Browser : TelemetryDue(b)
  BY <1>1, <1>6, QuietKeepsInv
<1>7. QED
  BY <1>2, <1>3, <1>4, <1>5, <1>6 DEF Next

\* As long as no handler outlives the agent's call, and for any number of
\* browsers, requests and faults: no runtime without a record, "running" only
\* over a runtime that is up and with its endpoints set, "stopped" only over
\* one that is not.
THEOREM SafetyHolds ==
  ASSUME ~LateHandlers
  PROVE  Spec => [](NoOrphan /\ RunningIsUp /\ StoppedIsHalted /\ RunningHasEndpoint)
<1>1. IInv /\ [Next]_vars => IInv'
  BY InvNext
<1>2. IInv => NoOrphan /\ RunningIsUp /\ StoppedIsHalted /\ RunningHasEndpoint
  BY DEF IInv, Safety
<1>3. QED
  BY <1>1, <1>2, InvInit, PTL DEF Spec

\* The invariant the others rest on: what plans, commands and calls in flight
\* say of the records they were made from, with the safety of those records.
THEOREM InvariantHolds ==
  ASSUME ~LateHandlers
  PROVE  Spec => []IInv
<1>1. IInv /\ [Next]_vars => IInv'
  BY InvNext
<1>2. QED
  BY <1>1, InvInit, PTL DEF Spec

\* "running" is said only over a runtime that is up.
THEOREM RunningUp ==
  ASSUME ~LateHandlers
  PROVE  Spec => []RunningIsUp
<1>1. IInv => RunningIsUp
  BY DEF IInv, Safety
<1>2. QED
  BY <1>1, InvariantHolds, PTL

\* "stopped" is said only over a runtime of which nothing runs.
THEOREM StoppedHalted ==
  ASSUME ~LateHandlers
  PROVE  Spec => []StoppedIsHalted
<1>1. IInv => StoppedIsHalted
  BY DEF IInv, Safety
<1>2. QED
  BY <1>1, InvariantHolds, PTL

\* A "running" record has the endpoints the control plane connects to.
THEOREM EndpointSet ==
  ASSUME ~LateHandlers
  PROVE  Spec => []RunningHasEndpoint
<1>1. IInv => RunningHasEndpoint
  BY DEF IInv, Safety
<1>2. QED
  BY <1>1, InvariantHolds, PTL

-----------------------------------------------------------------------------
(***************************************************************************)
(* The profile, with or without late handlers.                             *)
(***************************************************************************)

\* A step that leaves the deletions alone and writes no "deleting" keeps what
\* is known of them.
LEMMA DeletionKept ==
  ASSUME TypeOK, TypeOK', DeletionAsked, doomed' = doomed,
         \A b \in Browser : state'[b] = "deleting" => state[b] = "deleting",
         \A b \in Browser : plan'[b] = "deleting" => "deleting" \in {state[b], plan[b]},
         pc' = "delete" => \/ pc = "delete" /\ cmd' = cmd
                          \/ plan[cmd'.b] = "deleting"
  PROVE  DeletionAsked'
<1>1. \A b \in Browser : "deleting" \in {state[b], plan[b]} => doomed[b]
  BY DEF DeletionAsked
<1>2. \A b \in Browser : "deleting" \in {state'[b], plan'[b]} => doomed'[b]
  BY <1>1
<1>3. pc' = "delete" => doomed'[cmd'.b]
  BY <1>1 DEF DeletionAsked, TypeOK
<1>4. QED
  BY <1>2, <1>3 DEF DeletionAsked

LEMMA WriteNeverDeletes ==
  ASSUME TypeOK, NEW c \in Call, Write(c)
  PROVE  doomed' = doomed /\ \A b \in Browser : state'[b] = "deleting" => state[b] = "deleting"
<1>1. c.b \in Browser /\ c.kind # "deleting"
  BY DEF Call, AgentReport
<1>2. QED
  BY <1>1 DEF Write, ConfirmBrowserDeletion, ReportBrowserState, SaveState, Saved, TypeOK

LEMMA DeletionNext == TypeOK /\ DeletionAsked /\ [Next]_vars => DeletionAsked'
<1> SUFFICES ASSUME TypeOK, DeletionAsked, [Next]_vars PROVE DeletionAsked'
  OBVIOUS
<1>1. TypeOK'
  BY TypeNext
<1>2. CASE UserStep
  <2>1. ASSUME NEW b \in Browser, CreateBrowser(b) PROVE DeletionAsked'
    BY <1>1, <2>1, DeletionKept DEF CreateBrowser, agentVars, TypeOK
  <2>2. ASSUME NEW s \in Slot, NEW b \in Browser,
               NEW op \in {"start", "stop", "delete"}, ReadBrowser(s, b, op)
        PROVE  DeletionAsked'
    BY <1>1, <2>2, DeletionKept DEF ReadBrowser, recordVars, agentVars
  <2>3. QED
    BY <1>2, <2>1, <2>2 DEF UserStep
<1>3. ASSUME NEW s \in Slot, PowerBrowser(s) PROVE DeletionAsked'
  <2>1. req[s].b \in Browser /\ doomed' = doomed /\ plan' = plan /\ pc' = pc /\ cmd' = cmd
    BY <1>3 DEF PowerBrowser, agentVars, TypeOK, Request
  <2>2. \A b \in Browser : state'[b] = "deleting" => state[b] = "deleting"
    BY <1>3, <2>1 DEF PowerBrowser, SaveState, Saved, TypeOK
  <2>3. QED
    BY <1>1, <2>1, <2>2, DeletionKept
<1>4. ASSUME NEW s \in Slot, DeleteBrowser(s) PROVE DeletionAsked'
  <2>1. /\ req[s].b \in Browser /\ plan' = plan /\ pc' = pc /\ cmd' = cmd
        /\ doomed' = [doomed EXCEPT ![req[s].b] = TRUE]
    BY <1>4 DEF DeleteBrowser, agentVars, TypeOK, Request
  <2>2. \A b \in Browser \ {req[s].b} : state'[b] = state[b]
    BY <1>4, <2>1 DEF DeleteBrowser, SaveState, TypeOK
  <2>3. QED
    BY <2>1, <2>2 DEF DeletionAsked, TypeOK
<1>5. CASE HandlerRead \/ \E c \in late : LateRead(c)
  BY <1>1, <1>5, DeletionKept DEF HandlerRead, LateRead, recordVars, agentVars
<1>6. CASE HandlerWrite \/ \E c \in late : LateWrite(c)
  <2>1. \E c \in Call : Write(c)
    BY <1>6 DEF HandlerWrite, LateWrite, TypeOK
  <2>2. pc' = pc /\ plan' = plan /\ cmd' = cmd
    BY <1>6 DEF HandlerWrite, LateWrite, agentVars
  <2>3. QED
    BY <1>1, <2>1, <2>2, DeletionKept, WriteNeverDeletes
<1>7. CASE AgentStep
  <2>1. state' = state /\ doomed' = doomed
    BY <1>7 DEF AgentStep, Poll, EndPass, ReconcileBrowser, EnsureRunning, EnsuredRunning,
                EnsureStopped, EnsuredStopped, EnsureDeleted, EnsuredDeleted, Answered, recordVars
  <2>2. CASE Poll
    BY <1>1, <2>1, <2>2, DeletionKept DEF Poll, TypeOK
  <2>3. ASSUME NEW b \in Browser, ReconcileBrowser(b) PROVE DeletionAsked'
    <3>1. /\ plan' = [plan EXCEPT ![b] = "none"] /\ cmd'.b = b
          /\ plan[b] \in Command
      BY <2>3 DEF ReconcileBrowser, TypeOK
    <3>2. pc' = "delete" => plan[b] = "deleting"
      BY <2>3, <3>1 DEF ReconcileBrowser, Send, FirstStep, Command, Live
    <3>3. QED
      BY <1>1, <2>1, <3>1, <3>2, DeletionKept DEF TypeOK
  <2>4. CASE EndPass \/ EnsureRunning \/ EnsuredRunning \/ EnsureStopped
             \/ EnsuredStopped \/ EnsureDeleted \/ EnsuredDeleted \/ Answered
    <3>1. plan' = plan /\ cmd' = cmd /\ (pc' = "delete" => pc = "delete")
      BY <2>4 DEF EndPass, EnsureRunning, EnsuredRunning, EnsureStopped, EnsuredStopped,
                  EnsureDeleted, EnsuredDeleted, Answered, Send, agentVars
    <3>2. QED
      BY <1>1, <2>1, <3>1, DeletionKept
  <2>5. QED
    BY <1>7, <2>2, <2>3, <2>4 DEF AgentStep
<1>8. CASE (\E b \in Browser : TelemetryDue(b)) \/ AgentRestart \/ FaultStep \/ UNCHANGED vars
  <2>1. /\ state' = state /\ doomed' = doomed
        /\ cmd' = cmd /\ (pc' = "delete" => pc = "delete")
    BY <1>8 DEF TelemetryDue, AgentRestart, FaultStep, ReportError, ReplaceWorker, DeleteFails, CallFails,
                AgentCrash, ControlRestart, Send, vars, recordVars, agentVars
  <2>2. \A b \in Browser : plan'[b] \in {plan[b], "none"}
    BY <1>8 DEF TelemetryDue, AgentRestart, FaultStep, ReportError, ReplaceWorker, DeleteFails, CallFails,
                AgentCrash, ControlRestart, vars, agentVars
  <2>3. QED
    BY <1>1, <2>1, <2>2, DeletionKept
<1>9. QED
  BY <1>2, <1>3, <1>4, <1>5, <1>6, <1>7, <1>8 DEF Next, HandlerStep

LEMMA OnlyDeletionDestroys ==
  ASSUME TypeOK, DeletionAsked, [Next]_vars, NEW b \in Browser,
         box[b] # "none", box'[b] = "none"
  PROVE  doomed[b]
<1>1. cmd.b \in Browser /\ box \in [Browser -> Box]
  BY DEF TypeOK
<1>2. CASE EnsureDeleted
  BY <1>1, <1>2 DEF EnsureDeleted, DeletionAsked
<1>3. CASE EnsureRunning
  BY <1>1, <1>3 DEF EnsureRunning
<1>4. CASE EnsureStopped
  BY <1>1, <1>4 DEF EnsureStopped
<1>5. CASE AgentStep /\ ~EnsureDeleted /\ ~EnsureRunning /\ ~EnsureStopped
  BY <1>5 DEF AgentStep, Poll, EndPass, ReconcileBrowser, EnsuredRunning, EnsuredStopped,
              EnsuredDeleted,
              Answered
<1>6. CASE UserStep \/ HandlerStep
  BY <1>6 DEF UserStep, HandlerStep, CreateBrowser, ReadBrowser, PowerBrowser,
              DeleteBrowser, HandlerRead, HandlerWrite, LateRead, LateWrite
<1>7. CASE (\E a \in Browser : TelemetryDue(a)) \/ AgentRestart \/ FaultStep \/ UNCHANGED vars
  BY <1>7 DEF TelemetryDue, AgentRestart, FaultStep, ReportError, ReplaceWorker, DeleteFails, CallFails,
              AgentCrash, ControlRestart, vars, TypeOK
<1>8. QED
  BY <1>2, <1>3, <1>4, <1>5, <1>6, <1>7 DEF Next

\* Whatever the interleaving, with crashes, lost calls and late handlers: a
\* profile volume is destroyed only after a deletion of its record was saved.
THEOREM ProfileIsKept == Spec => ProfileKept
<1>1. Init => TypeOK /\ DeletionAsked
  BY TypeInit DEF Init, DeletionAsked
<1>2. TypeOK /\ DeletionAsked /\ [Next]_vars => (TypeOK /\ DeletionAsked)'
  BY TypeNext, DeletionNext
<1>3. TypeOK /\ DeletionAsked /\ [Next]_vars
        => [\A b \in Browser : box[b] # "none" /\ box'[b] = "none" => doomed[b]]_vars
  BY OnlyDeletionDestroys
<1>4. QED
  BY <1>1, <1>2, <1>3, PTL DEF Spec, ProfileKept

-----------------------------------------------------------------------------
(***************************************************************************)
(* BrowserLifecycle implements BrowserPromise: every step of users, agent, *)
(* handlers and faults is a step of the promise or leaves it as it is.     *)
(***************************************************************************)


\* What one step of the promise does to one browser: record, runtime and
\* condemned before (r, x, d) and after it.
PromiseStep(r, x, d, r2, x2, d2) ==
  \/ r = "absent" /\ r2 = "pending" /\ x2 = x /\ d2 = d
  \/ r = "pending" /\ r2 = r /\ x # "up" /\ x2 \in {"kept", "up"} /\ d2 = d
  \/ r = "pending" /\ x = "up" /\ r2 = "offered" /\ x2 = x /\ d2 = d
  \/ r = "offered" /\ r2 = "pending" /\ x2 = x /\ (d2 = d \/ d2)
  \/ r = "pending" /\ r2 = r /\ x2 = x /\ d2
  \/ r = "pending" /\ r2 = r /\ x = "up" /\ x2 = "kept" /\ d2 = d
  \/ r = "pending" /\ r2 = r /\ d /\ x = "kept" /\ x2 = "none" /\ d2 = d
  \/ r = "pending" /\ d /\ x = "none" /\ r2 = "removed" /\ x2 = x /\ d2 = d

\* A step that touches one browser, and that one as the promise allows.
LEMMA OneBrowserStep ==
  ASSUME TypeOK, TypeOK', NEW b \in Browser,
         \A a \in Browser \ {b} :
           state'[a] = state[a] /\ box'[a] = box[a] /\ doomed'[a] = doomed[a],
         \/ PromiseStep(Offered(state[b]), Powered(box[b]), doomed[b],
                        Offered(state'[b]), Powered(box'[b]), doomed'[b])
         \/ /\ Offered(state'[b]) = Offered(state[b])
            /\ Powered(box'[b]) = Powered(box[b])
            /\ doomed'[b] = doomed[b]
  PROVE  [Promise!Next]_(Promise!vars)
<1> DEFINE rec == [a \in Browser |-> Offered(state[a])]
           run == [a \in Browser |-> Powered(box[a])]
           rec2 == [a \in Browser |-> Offered(state'[a])]
           run2 == [a \in Browser |-> Powered(box'[a])]
<1>1. /\ rec2 = [rec EXCEPT ![b] = Offered(state'[b])]
      /\ run2 = [run EXCEPT ![b] = Powered(box'[b])]
      /\ doomed' = [doomed EXCEPT ![b] = doomed'[b]]
      /\ rec[b] = Offered(state[b]) /\ run[b] = Powered(box[b])
  <2>1. rec2 = [rec EXCEPT ![b] = Offered(state'[b])]
    OBVIOUS
  <2>2. run2 = [run EXCEPT ![b] = Powered(box'[b])]
    OBVIOUS
  <2>3. doomed' = [doomed EXCEPT ![b] = doomed'[b]]
    BY DEF TypeOK
  <2>4. QED
    BY <2>1, <2>2, <2>3
<1>2. doomed[b] \in BOOLEAN /\ doomed'[b] \in BOOLEAN
  BY DEF TypeOK
<1>3. CASE /\ Offered(state'[b]) = Offered(state[b])
           /\ Powered(box'[b]) = Powered(box[b])
           /\ doomed'[b] = doomed[b]
  <2>1. \A a \in Browser : /\ Offered(state'[a]) = Offered(state[a])
                           /\ Powered(box'[a]) = Powered(box[a])
                           /\ doomed'[a] = doomed[a]
    BY <1>3
  <2>2. rec2 = rec /\ run2 = run
    BY <2>1
  <2>3. doomed' = doomed
    BY <2>1 DEF TypeOK
  <2>4. QED
    BY <2>2, <2>3 DEF Promise!vars
<1>4. CASE PromiseStep(Offered(state[b]), Powered(box[b]), doomed[b],
                       Offered(state'[b]), Powered(box'[b]), doomed'[b])
  <2> DEFINE r == rec[b]
             x == run[b]
             r2 == Offered(state'[b])
             x2 == Powered(box'[b])
             d2 == doomed'[b]
  <2>0. /\ doomed[b] \in BOOLEAN /\ d2 \in BOOLEAN
        /\ rec = [rec EXCEPT ![b] = rec[b]] /\ run = [run EXCEPT ![b] = run[b]]
        /\ doomed = [doomed EXCEPT ![b] = doomed[b]]
    BY <1>2 DEF TypeOK
  <2>1. PromiseStep(r, x, doomed[b], r2, x2, d2)
    BY <1>1, <1>4
  <2> HIDE DEF rec, run, rec2, run2, r2, x2, d2
  <2>2. /\ rec2 = [rec EXCEPT ![b] = r2] /\ run2 = [run EXCEPT ![b] = x2]
        /\ doomed' = [doomed EXCEPT ![b] = d2]
    BY <1>1 DEF r2, x2, d2
  <2>3. \/ /\ rec[b] = "absent" /\ rec2 = [rec EXCEPT ![b] = "pending"]
           /\ run2 = run /\ doomed' = doomed
        \/ /\ rec[b] = "pending" /\ run[b] # "up" /\ rec2 = rec /\ doomed' = doomed
           /\ run2 \in {[run EXCEPT ![b] = z] : z \in {"kept", "up"}}
        \/ /\ rec[b] = "pending" /\ run[b] = "up" /\ rec2 = [rec EXCEPT ![b] = "offered"]
           /\ run2 = run /\ doomed' = doomed
        \/ /\ rec[b] = "offered" /\ rec2 = [rec EXCEPT ![b] = "pending"] /\ run2 = run
           /\ doomed' \in {doomed, [doomed EXCEPT ![b] = TRUE]}
        \/ /\ rec[b] = "pending" /\ rec2 = rec /\ run2 = run
           /\ doomed' = [doomed EXCEPT ![b] = TRUE]
        \/ /\ rec[b] = "pending" /\ run[b] = "up" /\ rec2 = rec /\ doomed' = doomed
           /\ run2 = [run EXCEPT ![b] = "kept"]
        \/ /\ rec[b] = "pending" /\ doomed[b] /\ run[b] = "kept" /\ rec2 = rec
           /\ doomed' = doomed /\ run2 = [run EXCEPT ![b] = "none"]
        \/ /\ rec[b] = "pending" /\ doomed[b] /\ run[b] = "none" /\ run2 = run
           /\ doomed' = doomed /\ rec2 = [rec EXCEPT ![b] = "removed"]
    BY <2>0, <2>1, <2>2 DEF PromiseStep
  <2>4. \/ Promise!Reserve(b) \/ Promise!PowerUp(b) \/ Promise!Offer(b)
        \/ Promise!Withdraw(b) \/ Promise!Condemn(b) \/ Promise!PowerDown(b)
        \/ Promise!Destroy(b) \/ Promise!Remove(b)
    BY <2>3, Zenon
    DEF rec, run, rec2, run2, Promise!Reserve, Promise!PowerUp, Promise!Offer,
        Promise!Withdraw, Promise!Condemn, Promise!PowerDown, Promise!Destroy, Promise!Remove
  <2>5. QED
    BY <2>4 DEF Promise!Next
<1>5. QED
  BY <1>3, <1>4

LEMMA NoBrowserStep ==
  ASSUME UNCHANGED <<state, box, doomed>>
  PROVE  [Promise!Next]_(Promise!vars)
BY DEF Promise!vars

LEMMA UserRefines ==
  ASSUME IInv, IInv', UserStep
  PROVE  [Promise!Next]_(Promise!vars)
<1>0. TypeOK /\ TypeOK'
  BY DEF IInv
<1>1. ASSUME NEW b \in Browser, CreateBrowser(b) PROVE [Promise!Next]_(Promise!vars)
  <2>1. /\ Offered(state[b]) = "absent" /\ Offered(state'[b]) = "pending"
        /\ box' = box /\ doomed' = doomed
        /\ \A a \in Browser \ {b} : state'[a] = state[a]
    BY <1>0, <1>1 DEF CreateBrowser, TypeOK, Offered
  <2>2. QED
    BY <1>0, <2>1, OneBrowserStep DEF PromiseStep
<1>2. ASSUME NEW s \in Slot, NEW b \in Browser,
             NEW op \in {"start", "stop", "delete"}, ReadBrowser(s, b, op)
      PROVE  [Promise!Next]_(Promise!vars)
  BY <1>2, NoBrowserStep DEF ReadBrowser, recordVars
<1>3. QED
  BY <1>1, <1>2 DEF UserStep

LEMMA UserSaveRefines ==
  ASSUME IInv, IInv', NEW s \in Slot, PowerBrowser(s) \/ DeleteBrowser(s)
  PROVE  [Promise!Next]_(Promise!vars)
<1> DEFINE b == req[s].b
<1>1. /\ TypeOK /\ TypeOK' /\ b \in Browser /\ req[s].seen # "deleting" /\ box' = box
      /\ state[b] \in Live \cup {"removed"} /\ state \in [Browser -> State]
      /\ state[b] = "removed" => doomed[b]
  BY DEF PowerBrowser, DeleteBrowser, IInv, TypeOK, Request, UserInv, DoomedInv, State
<1>2. CASE PowerBrowser(s)
  <2>1. /\ \A a \in Browser \ {b} : state'[a] = state[a]
        /\ doomed' = doomed
        /\ state'[b] \in {state[b], "queued", "stopping"}
        /\ state[b] = "removed" => state'[b] = state[b]
    BY <1>1, <1>2 DEF PowerBrowser, SaveState, Saved
  <2>2. \/ Offered(state'[b]) = Offered(state[b])
        \/ Offered(state[b]) = "offered" /\ Offered(state'[b]) = "pending"
    BY <1>1, <2>1 DEF Offered, Live
  <2>3. QED
    BY <1>1, <2>1, <2>2, OneBrowserStep DEF PromiseStep
<1>3. CASE DeleteBrowser(s)
  <2>1. /\ \A a \in Browser \ {b} : state'[a] = state[a] /\ doomed'[a] = doomed[a]
        /\ doomed'[b]
        /\ state'[b] = IF state[b] = "removed" THEN "removed" ELSE "deleting"
    BY <1>1, <1>3 DEF DeleteBrowser, SaveState, Saved, TypeOK
  <2>2. CASE state[b] = "removed"
    <3>1. doomed[b] /\ doomed'[b] /\ doomed[b] \in BOOLEAN /\ doomed'[b] \in BOOLEAN
      BY <1>1, <2>1, <2>2 DEF TypeOK
    <3>2. doomed'[b] = doomed[b]
      BY <3>1
    <3>3. QED
      BY <1>1, <2>1, <2>2, <3>2, OneBrowserStep
  <2>3. CASE state[b] # "removed"
    <3>1. /\ Offered(state[b]) \in {"pending", "offered"}
          /\ Offered(state'[b]) = "pending"
      BY <1>1, <2>1, <2>3 DEF Offered, Live
    <3>2. QED
      BY <1>1, <2>1, <3>1, OneBrowserStep DEF PromiseStep
  <2>4. QED
    BY <2>2, <2>3
<1>4. QED
  BY <1>2, <1>3

LEMMA WriteRefines ==
  ASSUME IInv, IInv', NEW c \in Call, Write(c), Backed(c), Recent(c), box' = box
  PROVE  [Promise!Next]_(Promise!vars)
<1> DEFINE b == c.b
<1>1. /\ TypeOK /\ TypeOK' /\ b \in Browser /\ c.phase = "read" /\ c.seen \in Live
      /\ state[b] \in {c.seen, "queued", "stopping", "deleting"}
      /\ doomed' = doomed /\ state \in [Browser -> State]
  BY DEF Call, Write, Recent, IInv, TypeOK
<1>2. state[b] \in Live
  BY <1>1 DEF Live
<1>3. CASE c.kind = "confirm"
  <2>1. /\ state' = [state EXCEPT ![b] = "removed"] /\ box[b] = "none" /\ doomed[b]
        /\ state[b] \in {"queued", "stopping", "deleting"}
    BY <1>1, <1>3 DEF Write, ConfirmBrowserDeletion, Backed, Recent
  <2>2. /\ Offered(state[b]) = "pending" /\ Offered(state'[b]) = "removed"
        /\ Powered(box[b]) = "none" /\ \A a \in Browser \ {b} : state'[a] = state[a]
    BY <1>1, <2>1 DEF Offered, Powered, Started
  <2>3. QED
    BY <1>1, <2>1, <2>2, OneBrowserStep DEF PromiseStep
<1>4. CASE c.kind # "confirm"
  <2>1. c.kind \in AgentReport /\ ValidAgentTransition(c.seen, c.kind)
    BY <1>1, <1>4 DEF Call, Recent
  <2>2. state' = [state EXCEPT ![b] = IF c.kind = c.seen THEN @ ELSE c.kind]
    BY <1>1, <1>2, <1>4 DEF Write, ReportBrowserState, SaveState, Saved, Live
  <2>3. /\ state'[b] \in Live
        /\ state'[b] = "running" => Powered(box[b]) = "up"
    BY <1>1, <1>2, <2>1, <2>2 DEF AgentReport, Live, Backed, Powered, Started
  <2>4. /\ Offered(state[b]) \in {"pending", "offered"}
        /\ Offered(state'[b]) \in {"pending", "offered"}
        /\ Offered(state'[b]) = "offered" => Powered(box[b]) = "up"
        /\ \A a \in Browser \ {b} : state'[a] = state[a]
    BY <1>1, <1>2, <2>2, <2>3 DEF Offered, Live
  <2>5. QED
    BY <1>1, <2>4, OneBrowserStep DEF PromiseStep
<1>5. QED
  BY <1>3, <1>4

LEMMA HandlerRefines ==
  ASSUME IInv, IInv', HandlerStep
  PROVE  [Promise!Next]_(Promise!vars)
<1>1. CASE \E s \in Slot : PowerBrowser(s) \/ DeleteBrowser(s)
  BY <1>1, UserSaveRefines
<1>2. CASE HandlerRead \/ \E c \in late : LateRead(c)
  BY <1>2, NoBrowserStep DEF HandlerRead, LateRead, recordVars
<1>3. CASE HandlerWrite
  <2>1. call \in Call /\ Write(call) /\ Backed(call) /\ Recent(call) /\ box' = box
    BY <1>3 DEF HandlerWrite, Write, IInv, TypeOK, CallInv
  <2>2. QED
    BY <2>1, WriteRefines
<1>4. ASSUME NEW c \in late, LateWrite(c) PROVE [Promise!Next]_(Promise!vars)
  <2>1. c \in Call /\ Write(c) /\ Backed(c) /\ Recent(c) /\ box' = box
    BY <1>4 DEF LateWrite, IInv, TypeOK, LateInv
  <2>2. QED
    BY <2>1, WriteRefines
<1>5. QED
  BY <1>1, <1>2, <1>3, <1>4 DEF HandlerStep

LEMMA AgentRefines ==
  ASSUME IInv, IInv', AgentStep
  PROVE  [Promise!Next]_(Promise!vars)
<1> DEFINE b == cmd.b
<1>1. /\ TypeOK /\ TypeOK' /\ b \in Browser /\ state[b] \in State /\ box[b] \in Box
      /\ box \in [Browser -> Box]
      /\ pc \in Working => Holds(b, cmd.want)
      /\ pc = "ensure" => cmd.want \in Runs
      /\ pc = "stop" => cmd.want = "stopping"
      /\ pc = "delete" => cmd.want = "deleting"
  BY DEF IInv, TypeOK, AgentInv
<1>2. state' = state /\ doomed' = doomed
  BY DEF AgentStep, Poll, EndPass, ReconcileBrowser, EnsureRunning, EnsuredRunning,
         EnsureStopped, EnsuredStopped, EnsureDeleted, EnsuredDeleted, Answered, recordVars
<1>3. CASE EnsureRunning
  <2>1. /\ <<box[b], box'[b]>> \in {<<"none", "volume">>, <<"volume", "halted">>,
                                  <<"halted", "half">>, <<"half", "up">>}
        /\ \A a \in Browser \ {b} : box'[a] = box[a]
        /\ pc = "ensure"
    BY <1>1, <1>3 DEF EnsureRunning
  <2>2. CASE box[b] = "half"
    <3>1. Powered(box'[b]) = Powered(box[b])
      BY <2>1, <2>2 DEF Powered, Started
    <3>2. QED
      BY <1>1, <1>2, <2>1, <3>1, OneBrowserStep
  <2>3. CASE box[b] # "half"
    <3>1. state[b] \notin {"absent", "removed", "running"}
      BY <1>1, <2>1, <2>3 DEF Holds, Working, Started, IInv, Safety, RunningIsUp
    <3>2. /\ Offered(state[b]) = "pending" /\ Powered(box[b]) # "up"
          /\ Powered(box'[b]) \in {"kept", "up"}
      BY <2>1, <2>3, <3>1 DEF Offered, Powered, Started
    <3>3. QED
      BY <1>1, <1>2, <2>1, <3>2, OneBrowserStep DEF PromiseStep
  <2>4. QED
    BY <2>2, <2>3
<1>4. CASE EnsureStopped
  <2>1. /\ <<box[b], box'[b]>> \in {<<"up", "half">>, <<"half", "halted">>}
        /\ \A a \in Browser \ {b} : box'[a] = box[a]
        /\ pc = "stop"
    BY <1>1, <1>4 DEF EnsureStopped
  <2>2. state[b] \notin {"absent", "removed", "running"}
    BY <1>1, <2>1 DEF Holds, Working
  <2>3. /\ Offered(state[b]) = "pending"
        /\ \/ Powered(box[b]) = "up" /\ Powered(box'[b]) = "kept"
           \/ Powered(box'[b]) = Powered(box[b])
    BY <2>1, <2>2 DEF Offered, Powered, Started
  <2>4. QED
    BY <1>1, <1>2, <2>1, <2>3, OneBrowserStep DEF PromiseStep
<1>5. CASE EnsureDeleted
  <2>1. /\ <<box[b], box'[b]>> \in {<<"up", "half">>, <<"half", "halted">>,
                                  <<"halted", "volume">>, <<"volume", "none">>}
        /\ \A a \in Browser \ {b} : box'[a] = box[a]
        /\ pc = "delete"
    BY <1>1, <1>5 DEF EnsureDeleted
  <2>2. state[b] \notin {"absent", "removed", "running"} /\ doomed[b]
    BY <1>1, <2>1 DEF Holds, Working
  <2>3. /\ Offered(state[b]) = "pending"
        /\ \/ Powered(box[b]) = "up" /\ Powered(box'[b]) = "kept"
           \/ Powered(box[b]) = "kept" /\ Powered(box'[b]) = "none"
           \/ Powered(box'[b]) = Powered(box[b])
    BY <2>1, <2>2 DEF Offered, Powered, Started
  <2>4. QED
    BY <1>1, <1>2, <2>1, <2>2, <2>3, OneBrowserStep DEF PromiseStep
<1>6. CASE ~EnsureRunning /\ ~EnsureStopped /\ ~EnsureDeleted
  <2>1. box' = box
    BY <1>6 DEF AgentStep, Poll, EndPass, ReconcileBrowser, EnsuredRunning, EnsuredStopped,
                EnsuredDeleted, Answered
  <2>2. QED
    BY <1>2, <2>1, NoBrowserStep
<1>7. QED
  BY <1>3, <1>4, <1>5, <1>6

LEMMA QuietRefines ==
  ASSUME (\E b \in Browser : TelemetryDue(b)) \/ AgentRestart \/ FaultStep \/ UNCHANGED vars,
         TypeOK, TypeOK'
  PROVE  [Promise!Next]_(Promise!vars)
<1>1. CASE ReplaceWorker
  <2>1. /\ cmd.b \in Browser /\ state' = state /\ doomed' = doomed
        /\ box[cmd.b] = "up" /\ box' = [box EXCEPT ![cmd.b] = "half"]
    BY <1>1 DEF ReplaceWorker, recordVars, TypeOK
  <2>2. /\ Powered(box'[cmd.b]) = Powered(box[cmd.b])
        /\ \A a \in Browser \ {cmd.b} : box'[a] = box[a]
    BY <2>1 DEF Powered, Started, TypeOK
  <2>3. QED
    BY <2>1, <2>2, OneBrowserStep
<1>2. CASE ~ReplaceWorker
  BY <1>2, NoBrowserStep
  DEF TelemetryDue, AgentRestart, FaultStep, ReportError, DeleteFails, CallFails,
      AgentCrash, ControlRestart, vars, recordVars
<1>3. QED
  BY <1>1, <1>2

LEMMA InitRefines == Init => Promise!Init
BY DEF Init, Promise!Init, Offered, Powered, Started

\* With no late handlers, the whole system implements the promise, for any
\* number of browsers, handlers, requests and faults.
THEOREM LifecycleRefines ==
  ASSUME ~LateHandlers
  PROVE  Spec => ImplementsPromise
<1>1. IInv /\ [Next]_vars => IInv'
  BY InvNext
<1>2. IInv /\ IInv' /\ [Next]_vars => [Promise!Next]_(Promise!vars)
  BY UserRefines, HandlerRefines, AgentRefines, QuietRefines DEF Next, IInv
<1>3. QED
  BY <1>1, <1>2, InvInit, InitRefines, PTL DEF Spec, ImplementsPromise, Promise!Spec

-----------------------------------------------------------------------------
(***************************************************************************)
(* The engine.                                                             *)
(***************************************************************************)
\* A step that leaves b's box alone and does not end or begin work on it: the
\* engine's word on b stands, or is given up.
LEMMA EngineIdle ==
  ASSUME NEW b \in Browser, box'[b] = box[b], PassOf(b)' = PassOf(b),
         CalmOf(b)' = CalmOf(b) \/ CalmOf(b)' = FALSE
  PROVE  [Engine(b)!Next]_(Engine(b)!vars)
BY DEF Engine!Next, Engine!Shake, Engine!vars

\* The agent calls its engine, or goes on to another browser.
LEMMA EngineBegins ==
  ASSUME NEW b \in Browser, box'[b] = box[b], PassOf(b) = "idle",
         PassOf(b)' \in {"run", "stop", "delete"}, CalmOf(b)' = TRUE
  PROVE  [Engine(b)!Next]_(Engine(b)!vars)
BY DEF Engine!Next, Engine!Begin

\* The engine fails.
LEMMA EngineFails ==
  ASSUME NEW b \in Browser, box'[b] = box[b], PassOf(b) # "idle",
         PassOf(b)' = "idle", CalmOf(b)' = FALSE
  PROVE  [Engine(b)!Next]_(Engine(b)!vars)
BY DEF Engine!Next, Engine!Fail

\* The engine is called for one browser at a time, and where the agent stands
\* says for what.
LEMMA EngineAt ==
  ASSUME TypeOK, NEW b \in Browser
  PROVE  /\ PassOf(b) \in {"run", "stop", "delete", "idle"}
         /\ cmd.b # b => PassOf(b) = "idle" /\ CalmOf(b) = FALSE
         /\ cmd.b = b /\ pc = "ensure" => PassOf(b) = "run" /\ CalmOf(b) = TRUE
         /\ cmd.b = b /\ pc = "stop" => PassOf(b) = "stop" /\ CalmOf(b) = TRUE
         /\ cmd.b = b /\ pc = "delete" => PassOf(b) = "delete" /\ CalmOf(b) = TRUE
         /\ pc \notin Working => PassOf(b) = "idle"
         /\ pc \notin Working \cup {"await"} => CalmOf(b) = FALSE
BY DEF PassOf, CalmOf, Working, TypeOK, Location

\* One step of the engine, for the browser the agent works on.
LEMMA EngineMoves ==
  ASSUME TypeOK, TypeOK', NEW b \in Browser, EnsureRunning \/ EnsureStopped \/ EnsureDeleted \/ ReplaceWorker
  PROVE  [Engine(b)!Next]_(Engine(b)!vars)
<1>1. pc' = pc /\ cmd' = cmd /\ call' = call /\ pc \in Working
  BY DEF EnsureRunning, EnsureStopped, EnsureDeleted, ReplaceWorker, agentVars, Working
<1>2. PassOf(b)' = PassOf(b) /\ CalmOf(b)' = CalmOf(b)
  BY <1>1 DEF PassOf, CalmOf
<1>3. CASE cmd.b # b
  <2>1. box'[b] = box[b]
    BY <1>3 DEF EnsureRunning, EnsureStopped, EnsureDeleted, ReplaceWorker, TypeOK
  <2> QED
    BY <1>2, <2>1, EngineIdle
<1>4. CASE cmd.b = b
  <2>1. <<box[b], box'[b]>> \in Engine(b)!Moves
    <3>1. CASE EnsureRunning \/ ReplaceWorker
      <4>1. PassOf(b) = "run"
        BY <1>4, <3>1, EngineAt DEF EnsureRunning, ReplaceWorker
      <4>2. \/ box[b] = "none" /\ box'[b] = "volume"
            \/ box[b] = "volume" /\ box'[b] = "halted"
            \/ box[b] = "halted" /\ box'[b] = "half"
            \/ box[b] = "half" /\ box'[b] = "up"
            \/ box[b] = "up" /\ box'[b] = "half"
        BY <1>4, <3>1 DEF EnsureRunning, ReplaceWorker, TypeOK
      <4> QED
        BY <4>1, <4>2 DEF Engine!Moves, Engine!Up
    <3>2. CASE EnsureStopped
      <4>1. PassOf(b) = "stop"
        BY <1>4, <3>2, EngineAt DEF EnsureStopped
      <4>2. \/ box[b] = "up" /\ box'[b] = "half"
            \/ box[b] = "half" /\ box'[b] = "halted"
        BY <1>4, <3>2 DEF EnsureStopped, TypeOK
      <4> QED
        BY <4>1, <4>2 DEF Engine!Moves, Engine!Stop
    <3>3. CASE EnsureDeleted
      <4>1. PassOf(b) = "delete"
        BY <1>4, <3>3, EngineAt DEF EnsureDeleted
      <4>2. \/ box[b] = "up" /\ box'[b] = "half"
            \/ box[b] = "half" /\ box'[b] = "halted"
            \/ box[b] = "halted" /\ box'[b] = "volume"
            \/ box[b] = "volume" /\ box'[b] = "none"
        BY <1>4, <3>3 DEF EnsureDeleted, TypeOK
      <4> QED
        BY <4>1, <4>2 DEF Engine!Moves, Engine!Stop, Engine!Remove
    <3> QED
      BY <3>1, <3>2, <3>3
  <2> QED
    BY <1>2, <2>1 DEF Engine!Next, Engine!Move
<1> QED
  BY <1>3, <1>4

\* What the agent reports of the runtime is what its engine returned over.
LEMMA EngineReturns ==
  ASSUME TypeOK, TypeOK', NEW b \in Browser, EnsuredRunning \/ EnsuredStopped \/ EnsuredDeleted
  PROVE  [Engine(b)!Next]_(Engine(b)!vars)
<1>1. /\ box' = box /\ cmd' = cmd /\ pc \in Working
      /\ \/ pc' = "await" /\ call'.kind \in {"running", "stopped", "confirm"}
         \/ pc' = "pass"
  BY DEF EnsuredRunning, EnsuredStopped, EnsuredDeleted, Send, NoCall, Working
<1>2. /\ pc = "ensure" => box[cmd.b] = "up"
      /\ pc = "stop" => box[cmd.b] \in {"none", "volume", "halted"}
      /\ pc = "delete" => box[cmd.b] = "none"
  BY DEF EnsuredRunning, EnsuredStopped, EnsuredDeleted, Halted
<1>3. CASE cmd.b # b
  <2>1. PassOf(b)' = PassOf(b) /\ CalmOf(b)' = CalmOf(b)
    BY <1>1, <1>3 DEF PassOf, CalmOf
  <2> QED
    BY <1>1, <2>1, EngineIdle
<1>4. CASE cmd.b = b
  <2>1. PassOf(b) # "idle" /\ PassOf(b)' = "idle"
    BY <1>1, <1>4 DEF PassOf, Working
  <2>2. CalmOf(b) = TRUE /\ CalmOf(b)' = (pc' = "await")
    BY <1>1, <1>4 DEF CalmOf, Working
  <2>3. CASE pc' = "pass"
    BY <1>1, <2>1, <2>2, <2>3, EngineFails
  <2>4. CASE pc' = "await"
    <3>1. box[b] \in Engine(b)!Goal
      BY <1>1, <1>2, <1>4, EngineAt DEF Engine!Goal, Working
    <3> QED
      BY <1>1, <2>1, <2>2, <2>4, <3>1 DEF Engine!Next, Engine!Return
  <2> QED
    BY <1>1, <2>3, <2>4
<1> QED
  BY <1>3, <1>4

\* Between two calls to the engine its word is given up, and a granted claim
\* or the next command calls it again.
LEMMA EngineCalled ==
  ASSUME TypeOK, TypeOK', NEW b \in Browser,
         (\E a \in Browser : ReconcileBrowser(a)) \/ Answered
  PROVE  [Engine(b)!Next]_(Engine(b)!vars)
<1>1. /\ box' = box /\ pc \in {"pass", "await"}
      /\ pc' \in {"await", "ensure", "stop", "delete", "pass"}
      /\ pc' = "await" => call'.kind = "starting"
  <2>1. CASE Answered
    BY <2>1 DEF Answered
  <2>2. ASSUME NEW a \in Browser, ReconcileBrowser(a) 
        PROVE  /\ box' = box /\ pc \in {"pass", "await"}
               /\ pc' \in {"await", "ensure", "stop", "delete", "pass"}
               /\ pc' = "await" => call'.kind = "starting"
    <3>1. plan[a] = "queued" => call'.kind = "starting" /\ pc' = "await"
      BY <2>2 DEF ReconcileBrowser, Send, NoCall
    <3>2. plan[a] # "queued" => pc' \in {"ensure", "stop", "delete"}
      BY <2>2 DEF ReconcileBrowser, FirstStep, TypeOK, Command, Live
    <3> QED
      BY <2>2, <3>1, <3>2 DEF ReconcileBrowser
  <2> QED
    BY <2>1, <2>2
<1>2. PassOf(b) = "idle"
  BY <1>1, EngineAt DEF Working
<1>3. CASE cmd'.b = b /\ pc' \in Working
  <2>1. PassOf(b)' \in {"run", "stop", "delete"} /\ CalmOf(b)' = TRUE
    BY <1>3 DEF PassOf, CalmOf, Working
  <2> QED
    BY <1>1, <1>2, <2>1, EngineBegins
<1>4. CASE ~(cmd'.b = b /\ pc' \in Working)
  <2>1. PassOf(b)' = "idle" /\ CalmOf(b)' = FALSE
    BY <1>1, <1>4 DEF PassOf, CalmOf, Working
  <2> QED
    BY <1>1, <1>2, <2>1, EngineIdle
<1> QED
  BY <1>3, <1>4

\* A failed call to the engine and the death of the agent end the pass.
LEMMA EngineInterrupted ==
  ASSUME TypeOK, TypeOK', NEW b \in Browser,
         ReportError \/ DeleteFails \/ CallFails \/ AgentCrash
  PROVE  [Engine(b)!Next]_(Engine(b)!vars)
<1>1. /\ box' = box /\ cmd' = cmd
      /\ pc' \in {"pass", "down"} \/ (pc' = "await" /\ call'.kind = "error")
  BY DEF ReportError, DeleteFails, CallFails, AgentCrash, Send, NoCall
<1>2. PassOf(b)' = "idle" /\ CalmOf(b)' = FALSE
  BY <1>1 DEF PassOf, CalmOf, Working
<1> QED
  BY <1>1, <1>2, EngineIdle, EngineFails

\* Everything else leaves the agent's place, and what it was told, alone.
LEMMA EngineUntouched ==
  ASSUME TypeOK, NEW b \in Browser,
         \/ UserStep \/ HandlerStep \/ Poll \/ EndPass
         \/ \E a \in Browser : TelemetryDue(a)
         \/ AgentRestart \/ ControlRestart \/ UNCHANGED vars
  PROVE  [Engine(b)!Next]_(Engine(b)!vars)
<1>1. /\ box' = box /\ cmd' = cmd
      /\ \/ pc' = pc /\ call'.kind = call.kind
         \/ pc \notin Working \cup {"await"} /\ pc' \notin Working \cup {"await"}
  <2>1. CASE UserStep \/ \E s \in Slot : PowerBrowser(s) \/ DeleteBrowser(s)
    BY <2>1 DEF UserStep, CreateBrowser, ReadBrowser, PowerBrowser, DeleteBrowser, agentVars
  <2>2. CASE HandlerRead \/ HandlerWrite
    BY <2>2 DEF HandlerRead, AfterRead, HandlerWrite, TypeOK, Call, agentVars
  <2>3. CASE \E c \in late : LateRead(c) \/ LateWrite(c)
    BY <2>3 DEF LateRead, LateWrite, agentVars
  <2>4. CASE Poll \/ EndPass \/ AgentRestart
    BY <2>4 DEF Poll, EndPass, AgentRestart, Working
  <2>5. CASE (\E a \in Browser : TelemetryDue(a)) \/ UNCHANGED vars
    BY <2>5 DEF TelemetryDue, vars
  <2>6. CASE ControlRestart
    BY <2>6 DEF ControlRestart, TypeOK, Call, agentVars
  <2> QED
    BY <2>1, <2>2, <2>3, <2>4, <2>5, <2>6 DEF HandlerStep
<1>2. PassOf(b)' = PassOf(b) /\ CalmOf(b)' = CalmOf(b)
  BY <1>1 DEF PassOf, CalmOf, Working
<1> QED
  BY <1>1, <1>2, EngineIdle

\* For every browser, agent and box of this module do what RuntimePromise lets
\* an engine do and no more, whatever is lost, late or dead; so do the
\* containers of DockerRuntime (EngineRefines in AgentProofs).
THEOREM EngineIsUsed == Spec => UsesEngine
<1>1. Init => \A b \in Browser : Engine(b)!Init
  BY DEF Init, Engine!Init, PassOf, CalmOf, NoCall, Working
<1>2. TypeOK /\ TypeOK' /\ [Next]_vars =>
        [\A b \in Browser : [Engine(b)!Next]_(Engine(b)!vars)]_vars
  <2> SUFFICES ASSUME TypeOK, TypeOK', [Next]_vars, NEW b \in Browser
               PROVE  [Engine(b)!Next]_(Engine(b)!vars)
    OBVIOUS
  <2>1. CASE EnsureRunning \/ EnsureStopped \/ EnsureDeleted \/ ReplaceWorker
    BY <2>1, EngineMoves
  <2>2. CASE EnsuredRunning \/ EnsuredStopped \/ EnsuredDeleted
    BY <2>2, EngineReturns
  <2>3. CASE (\E a \in Browser : ReconcileBrowser(a)) \/ Answered
    BY <2>3, EngineCalled
  <2>4. CASE ReportError \/ DeleteFails \/ CallFails \/ AgentCrash
    BY <2>4, EngineInterrupted
  <2>5. CASE \/ UserStep \/ HandlerStep \/ Poll \/ EndPass
             \/ \E a \in Browser : TelemetryDue(a)
             \/ AgentRestart \/ ControlRestart \/ UNCHANGED vars
    BY <2>5, EngineUntouched
  <2> QED
    BY <2>1, <2>2, <2>3, <2>4, <2>5 DEF Next, AgentStep, FaultStep
<1>3. Spec => []TypeOK
  BY TypeCorrect
<1> QED
  BY <1>1, <1>2, <1>3, PTL DEF Spec, UsesEngine
=============================================================================
