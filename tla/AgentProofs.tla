----------------------------- MODULE AgentProofs -----------------------------
(***************************************************************************)
(* Proofs about the two halves of the agent's engine.                      *)
(*                                                                         *)
(* DockerRuntime, for any number of faults and requests: IInv is           *)
(* inductive.  It says what a pass has seen to at each of its calls as     *)
(* long as nothing happens to the containers meanwhile.  That a report of  *)
(* a running browser is true, that a pass over a runtime in order leaves   *)
(* it alone, and that no worker is given up for an image there is not,     *)
(* follow from it; with BoxInv it also shows that every step of the engine *)
(* maps to one of RuntimePromise, which the lifecycle's engine keeps, too. *)
(*                                                                         *)
(* WorkerRecovery, for every grace period, cooldown and number of probes:  *)
(* RecoveryInv is inductive.  The counters never claim more than the       *)
(* worker did; the two promises about restarts follow, since only a        *)
(* restart that is due is attempted.                                       *)
(***************************************************************************)
EXTENDS DockerRuntime, WorkerRecovery, TLAPS

USE RuntimeAssumption

\* The invariant holds initially.
LEMMA InitInv == Init => IInv
<1> SUFFICES ASSUME Init PROVE IInv
  OBVIOUS
<1>1. TypeOK
  <2>1. DockerType
    BY DEF Init, DockerType, BrowserState, WorkerState, Fits
  <2>2. AgentType
    BY DEF Init, AgentType, BrowserState, WorkerState, Fits, Step
  <2>3. OtherType
    <3>1. faults \in 0 .. MaxFaults /\ requests \in 0 .. MaxRequests
      BY DEF Init
    <3> QED
      BY <3>1 DEF Init, OtherType
  <2> QED
    BY <2>1, <2>2, <2>3 DEF TypeOK
<1>2. ProfileFirst /\ PassInv /\ TidyInv
  BY DEF Init, ProfileFirst, PassInv, TidyInv, Running
<1> QED
  BY <1>1, <1>2 DEF IInv

-----------------------------------------------------------------------------
(* One lemma for each kind of step.                                        *)

\* The agent begins a pass.
LEMMA BeginInv == IInv /\ BeginPass => IInv'
<1> SUFFICES ASSUME IInv, BeginPass PROVE IInv'
  OBVIOUS
<1>1. pc' \in {"volume", "stopWorker", "removeWorker"}
  BY DEF BeginPass, IInv, TypeOK, OtherType
<1> QED
  BY <1>1 DEF BeginPass, docker, IInv, TypeOK, DockerType, AgentType, OtherType, ProfileFirst,
            PassInv, TidyInv, Attached,
              Step, Running, Stopping, Deleting, BrowserState, WorkerState, Fits

\* EnsureRunning makes its next call, for the browser.
LEMMA BrowserStepInv ==
  ASSUME IInv,
         \/ EnsureVolume \/ InspectBrowser \/ CreateBrowser \/ StartBrowser
         \/ RestartBrowser \/ BrowserFoundRunning \/ WaitForBrowser
  PROVE  IInv'
<1> USE DEF Call, saw, IInv, TypeOK, DockerType, AgentType, OtherType, ProfileFirst,
            PassInv, TidyInv, Attached, Step,
            Running, Stopping, Deleting, BrowserState, WorkerState, Fits
<1>1. CASE EnsureVolume
  BY <1>1 DEF EnsureVolume
<1>2. CASE InspectBrowser
  BY <1>2 DEF InspectBrowser
<1>3. CASE CreateBrowser
  BY <1>3 DEF CreateBrowser
<1>4. CASE StartBrowser
  <2>1. TypeOK'
    <3>1. DockerType'
      BY <1>4 DEF StartBrowser, BrowserStarts
    <3>2. AgentType'
      BY <1>4 DEF StartBrowser, BrowserStarts
    <3>3. OtherType'
      BY <1>4 DEF StartBrowser, BrowserStarts
    <3> QED
      BY <3>1, <3>2, <3>3
  <2>2. ProfileFirst'
    BY <1>4 DEF StartBrowser, BrowserStarts
  <2>3. PassInv'
    BY <1>4 DEF StartBrowser, BrowserStarts
  <2>4. TidyInv'
    BY <1>4 DEF StartBrowser, BrowserStarts
  <2> QED
    BY <2>1, <2>2, <2>3, <2>4
<1>5. CASE RestartBrowser
  BY <1>5 DEF RestartBrowser, BrowserStarts, NeedsRestart
<1>6. CASE BrowserFoundRunning
  BY <1>6 DEF BrowserFoundRunning, NeedsRestart, Up
<1>7. CASE WaitForBrowser
  BY <1>7 DEF WaitForBrowser
<1> QED
  BY <1>1, <1>2, <1>3, <1>4, <1>5, <1>6, <1>7

\* EnsureRunning makes its next call, for the worker.
LEMMA WorkerStepInv ==
  ASSUME IInv,
         \/ InspectWorker \/ ResolveImage \/ CreateWorker \/ StartCreatedWorker
         \/ CompareStarts \/ StartWorker \/ ReattachWorker \/ WorkerFoundRunning
         \/ ReportRunning
  PROVE  IInv'
<1> USE DEF Call, saw, IInv, TypeOK, DockerType, AgentType, OtherType, ProfileFirst,
            PassInv, TidyInv, Attached, Step,
            Running, Stopping, Deleting, BrowserState, WorkerState, Fits
<1>1. CASE InspectWorker
  BY <1>1 DEF InspectWorker
<1>2. CASE ResolveImage
  BY <1>2 DEF ResolveImage, Outdated
<1>3. CASE CreateWorker
  BY <1>3 DEF CreateWorker
<1>4. CASE StartCreatedWorker
  <2>1. TypeOK'
    <3>1. DockerType'
      BY <1>4 DEF StartCreatedWorker, WorkerStarts
    <3>2. AgentType'
      BY <1>4 DEF StartCreatedWorker, WorkerStarts
    <3>3. OtherType'
      BY <1>4 DEF StartCreatedWorker, WorkerStarts
    <3> QED
      BY <3>1, <3>2, <3>3
  <2>2. ProfileFirst'
    BY <1>4 DEF StartCreatedWorker, WorkerStarts
  <2>3. PassInv'
    BY <1>4 DEF StartCreatedWorker, WorkerStarts
  <2>4. TidyInv'
    BY <1>4 DEF StartCreatedWorker, WorkerStarts
  <2> QED
    BY <2>1, <2>2, <2>3, <2>4
<1>5. CASE CompareStarts
  BY <1>5 DEF CompareStarts, Predates, Up
<1>6. CASE StartWorker
  <2>1. TypeOK'
    <3>1. DockerType'
      BY <1>6 DEF StartWorker, WorkerStarts
    <3>2. AgentType'
      BY <1>6 DEF StartWorker, WorkerStarts
    <3>3. OtherType'
      BY <1>6 DEF StartWorker, WorkerStarts
    <3> QED
      BY <3>1, <3>2, <3>3
  <2>2. ProfileFirst'
    BY <1>6 DEF StartWorker, WorkerStarts
  <2>3. PassInv'
    BY <1>6 DEF StartWorker, WorkerStarts
  <2>4. TidyInv'
    BY <1>6 DEF StartWorker, WorkerStarts
  <2> QED
    BY <2>1, <2>2, <2>3, <2>4
<1>7. CASE ReattachWorker
  BY <1>7 DEF ReattachWorker, WorkerStarts
<1>8. CASE WorkerFoundRunning
  <2>1. TypeOK'
    BY <1>8 DEF WorkerFoundRunning
  <2>2. ProfileFirst'
    BY <1>8 DEF WorkerFoundRunning
  <2>3. PassInv'
    BY <1>8 DEF WorkerFoundRunning
  <2>4. TidyInv'
    BY <1>8 DEF WorkerFoundRunning
  <2> QED
    BY <2>1, <2>2, <2>3, <2>4
<1>9. CASE ReportRunning
  BY <1>9 DEF ReportRunning
<1> QED
  BY <1>1, <1>2, <1>3, <1>4, <1>5, <1>6, <1>7, <1>8, <1>9

\* A container or the volume is stopped or removed.
LEMMA HaltStepInv == IInv /\ EnsureHalted => IInv'
<1> SUFFICES ASSUME IInv, EnsureHalted PROVE IInv'
  OBVIOUS
<1> USE DEF Call, saw, IInv, TypeOK, DockerType, AgentType, OtherType, ProfileFirst,
            PassInv, TidyInv, Attached, Step,
            Running, Stopping, Deleting, BrowserState, WorkerState, Fits
<1>1. CASE StopWorker
  BY <1>1 DEF StopWorker
<1>2. CASE RemoveWorker
  BY <1>2 DEF RemoveWorker
<1>3. CASE StopBrowser
  <2>1. TypeOK'
    <3>1. DockerType'
      BY <1>3 DEF StopBrowser
    <3>2. AgentType'
      BY <1>3 DEF StopBrowser
    <3>3. OtherType'
      BY <1>3 DEF StopBrowser
    <3> QED
      BY <3>1, <3>2, <3>3
  <2>2. ProfileFirst'
    <3>1. pc' \notin Running
      BY <1>3 DEF StopBrowser
    <3> QED
      BY <1>3, <3>1 DEF StopBrowser, Up
  <2>3. PassInv'
    BY <1>3 DEF StopBrowser
  <2>4. TidyInv'
    BY <1>3 DEF StopBrowser
  <2> QED
    BY <2>1, <2>2, <2>3, <2>4
<1>4. CASE RemoveBrowser
  BY <1>4 DEF RemoveBrowser
<1>5. CASE RemoveVolume
  <2>1. TypeOK'
    <3>1. DockerType'
      BY <1>5 DEF RemoveVolume
    <3>2. AgentType'
      BY <1>5 DEF RemoveVolume
    <3>3. OtherType'
      BY <1>5 DEF RemoveVolume
    <3> QED
      BY <3>1, <3>2, <3>3
  <2>2. ProfileFirst'
    BY <1>5 DEF RemoveVolume
  <2>3. PassInv'
    BY <1>5 DEF RemoveVolume
  <2>4. TidyInv'
    BY <1>5 DEF RemoveVolume
  <2> QED
    BY <2>1, <2>2, <2>3, <2>4
<1> QED
  BY <1>1, <1>2, <1>3, <1>4, <1>5 DEF EnsureHalted

\* A pass ends early.
LEMMA AbortInv ==
  ASSUME IInv, Refused \/ WaitTimesOut \/ PassAborted
  PROVE  IInv'
<1>1. pc' = "idle" /\ calm' = FALSE /\ UNCHANGED docker
  BY DEF Refused, WaitTimesOut, PassAborted, Fails
<1>2. UNCHANGED <<wanted, sawBrowser, saw, reattach, tidy, requests>> /\ faults' \in 0 .. MaxFaults
  BY DEF Refused, WaitTimesOut, PassAborted, Fault, IInv, TypeOK, OtherType
<1>3. TypeOK'
  BY <1>1, <1>2 DEF docker, saw, IInv, TypeOK, DockerType, AgentType, OtherType, Step
<1>4. ProfileFirst' /\ PassInv' /\ TidyInv'
  BY <1>1 DEF docker, IInv, ProfileFirst, PassInv, TidyInv, Running
<1> QED
  BY <1>3, <1>4 DEF IInv

\* Something happens to the containers: the pass is not calm any more.
LEMMA DisturbanceInv ==
  ASSUME IInv,
         \/ BrowserRestarted \/ BrowserStopped \/ BrowserRemoved \/ BrowserFails
         \/ WorkerRestarted \/ WorkerStopped \/ WorkerRemoved
         \/ ImageRebuilt \/ ImagePruned
  PROVE  IInv'
<1>1. calm' = FALSE /\ Disturbance
  BY DEF BrowserRestarted, BrowserStopped, BrowserRemoved, BrowserFails, WorkerRestarted,
         WorkerStopped, WorkerRemoved, ImageRebuilt, ImagePruned, Disturbance
<1>2. /\ browser' \in BrowserState /\ worker' \in WorkerState /\ fit' \subseteq Fits
      /\ image' \in {"there", "gone"} /\ sawFit' \subseteq Fits /\ resolved' \in BOOLEAN
      /\ browser' # "none" => browser # "none"
  BY DEF BrowserRestarted, BrowserStopped, BrowserRemoved, BrowserFails, WorkerRestarted,
         WorkerStopped, WorkerRemoved, ImageRebuilt, ImagePruned, BrowserStarts,
         WorkerStarts, IInv, TypeOK, DockerType, AgentType, BrowserState, WorkerState, Fits, Up
<1> QED
  <2>1. TypeOK'
    <3>1. DockerType' /\ AgentType'
      BY <1>2, <1>1 DEF Disturbance, IInv, TypeOK, DockerType, AgentType
    <3>2. OtherType'
      <4>1. faults' \in 0 .. MaxFaults
        BY <1>1 DEF Disturbance, Fault, IInv, TypeOK, OtherType
      <4> QED
        BY <1>1, <4>1 DEF Disturbance, IInv, TypeOK, OtherType
    <3> QED
      BY <3>1, <3>2 DEF TypeOK
  <2>2. ProfileFirst'
    BY <1>1, <1>2 DEF Disturbance, IInv, ProfileFirst
  <2>3. PassInv' /\ TidyInv'
    BY <1>1 DEF PassInv, TidyInv
  <2> QED
    BY <2>1, <2>2, <2>3 DEF IInv

\* Every step preserves the invariant.
LEMMA NextInv == IInv /\ [Next]_vars => IInv'
<1> SUFFICES ASSUME IInv, [Next]_vars PROVE IInv'
  OBVIOUS
<1>1. CASE BeginPass
  BY <1>1, BeginInv
<1>2. CASE EnsureRunning
  BY <1>2, BrowserStepInv, WorkerStepInv DEF EnsureRunning
<1>3. CASE EnsureHalted
  BY <1>3, HaltStepInv
<1>4. CASE Refused \/ WaitTimesOut \/ PassAborted
  BY <1>4, AbortInv
<1>5. CASE BrowserHealthy
  BY <1>5 DEF BrowserHealthy, agent, saw, IInv, TypeOK, DockerType, AgentType, OtherType, ProfileFirst,
            PassInv, TidyInv,
              Attached, BrowserState
<1>6. CASE WantedChanges
  <2>1. requests' \in 0 .. MaxRequests /\ wanted' \in {"run", "stop", "delete"}
    BY <1>6 DEF WantedChanges, IInv, TypeOK, OtherType
  <2>2. UNCHANGED <<docker, agent, calm, tidy, faults>>
    BY <1>6 DEF WantedChanges
  <2>3. TypeOK'
    BY <2>1, <2>2 DEF docker, agent, saw, IInv, TypeOK, DockerType, AgentType, OtherType
  <2>4. ProfileFirst' /\ PassInv' /\ TidyInv'
    BY <2>2 DEF docker, agent, saw, IInv, ProfileFirst, PassInv, TidyInv, Attached
  <2> QED
    BY <2>3, <2>4 DEF IInv
<1>7. CASE Environment /\ ~BrowserHealthy /\ ~WantedChanges
  BY <1>7, DisturbanceInv DEF Environment
<1>8. CASE UNCHANGED vars
  BY <1>8 DEF vars, docker, agent, saw, IInv, TypeOK, DockerType, AgentType, OtherType, ProfileFirst,
            PassInv, TidyInv,
              Attached
<1> QED
  BY <1>1, <1>2, <1>3, <1>4, <1>5, <1>6, <1>7, <1>8 DEF Next, Agent

\* What a pass has seen to, it keeps as long as nothing happens.
THEOREM PassKeepsItsWord == Spec => []IInv
<1>1. Init => IInv
  BY InitInv
<1>2. IInv /\ [Next]_vars => IInv'
  BY NextInv
<1> QED
  BY <1>1, <1>2, PTL DEF Spec

-----------------------------------------------------------------------------
\* A browser is reported as running only with a worker that can drive it,
\* unless something happened during the very pass (EnsureRunning).
THEOREM ReportsAreTruthful == Spec => ReportTruthful
<1>1. IInv /\ [Next]_vars => [ReportRunning /\ calm => Attached]_vars
  BY DEF IInv, PassInv, ReportRunning, Call, Attached
<1> QED
  BY <1>1, PassKeepsItsWord, PTL DEF Spec, ReportTruthful

\* A pass over a runtime in order restarts, stops and removes nothing.
THEOREM PassesAreIdempotent == Spec => PassIdempotent
<1>1. IInv /\ [Next]_vars => [calm /\ tidy => ~Interrupts]_vars
  <2> SUFFICES ASSUME IInv, calm, tidy, Interrupts PROVE FALSE
    OBVIOUS
  <2>1. pc \in Running
    BY DEF Interrupts, RestartBrowser, ReattachWorker, Call, Running
  <2> QED
    BY <2>1 DEF Interrupts, RestartBrowser, ReattachWorker, StopWorker, RemoveWorker,
                Call, NeedsRestart, IInv, TidyInv, Running
<1> QED
  BY <1>1, PassKeepsItsWord, PTL DEF Spec, PassIdempotent

\* No worker is removed to make room for one of an image there is not.
THEOREM OldWorkerIsKept == Spec => OldWorkerKept
<1>1. IInv /\ [Next]_vars =>
        [worker # "none" /\ RemoveWorker /\ pc = "replace" /\ calm => image = "there"]_vars
  BY DEF IInv, PassInv
<1> QED
  BY <1>1, PassKeepsItsWord, PTL DEF Spec, OldWorkerKept

-----------------------------------------------------------------------------
(* The promise.                                                            *)

\* Only a pass makes containers, and a deletion removes the worker first.
LEMMA BoxInvHolds == Spec => []BoxInv
<1>1. Init => BoxInv
  BY DEF Init, BoxInv
<1>2. IInv /\ BoxInv /\ [Next]_vars => BoxInv'
  <2> SUFFICES ASSUME IInv, BoxInv, [Next]_vars PROVE BoxInv'
    OBVIOUS
  <2> USE DEF IInv, TypeOK, DockerType, AgentType, ProfileFirst, BoxInv, Call, saw,
              Running, Up, BrowserState, WorkerState
  <2>1. CASE BeginPass
    BY <2>1 DEF BeginPass, docker, OtherType
  <2>2. CASE \/ EnsureVolume \/ InspectBrowser \/ CreateBrowser \/ StartBrowser
             \/ RestartBrowser \/ BrowserFoundRunning \/ WaitForBrowser
    BY <2>2 DEF EnsureVolume, InspectBrowser, CreateBrowser, StartBrowser, BrowserStarts,
                RestartBrowser, BrowserFoundRunning, WaitForBrowser
  <2>3. CASE \/ InspectWorker \/ ResolveImage \/ CreateWorker \/ StartCreatedWorker
             \/ CompareStarts \/ StartWorker \/ ReattachWorker \/ WorkerFoundRunning
             \/ ReportRunning
    BY <2>3 DEF InspectWorker, ResolveImage, CreateWorker, StartCreatedWorker, WorkerStarts,
                CompareStarts, StartWorker, ReattachWorker, WorkerFoundRunning, ReportRunning
  <2>4. CASE EnsureHalted
    BY <2>4 DEF EnsureHalted, StopWorker, RemoveWorker, StopBrowser, RemoveBrowser, RemoveVolume
  <2>5. CASE Refused \/ WaitTimesOut \/ PassAborted
    BY <2>5 DEF Refused, WaitTimesOut, PassAborted, Fails, docker
  <2>6. CASE Environment /\ ~BrowserHealthy /\ ~WantedChanges
    BY <2>6 DEF Environment, Disturbance, BrowserRestarted, BrowserStarts, BrowserStopped,
                BrowserRemoved, BrowserFails, WorkerRestarted, WorkerStarts, WorkerStopped,
                WorkerRemoved, ImageRebuilt, ImagePruned
  <2>7. CASE BrowserHealthy
    BY <2>7 DEF BrowserHealthy, agent
  <2>8. CASE WantedChanges \/ UNCHANGED vars
    BY <2>8 DEF WantedChanges, vars, docker, agent
  <2> QED
    BY <2>1, <2>2, <2>3, <2>4, <2>5, <2>6, <2>7, <2>8 DEF Next, Agent, EnsureRunning
<1> QED
  BY <1>1, <1>2, PassKeepsItsWord, PTL DEF Spec

\* A call that moves the box by a rung the pass allows, or not at all.
LEMMA MovePromised ==
  ASSUME Box' = Box \/ <<Box, Box'>> \in Promise!Moves, Pass' = Pass, calm' = calm
  PROVE  [Promise!Next]_(Promise!vars)
BY DEF Promise!Next, Promise!Move, Promise!vars

\* EnsureRunning climbs; only the worker that is replaced goes down.
LEMMA RunPromised ==
  ASSUME IInv, BoxInv, EnsureRunning
  PROVE  [Promise!Next]_(Promise!vars)
<1> USE DEF Call, saw, Running
<1>0. pc \in Step /\ calm' = calm
  BY DEF IInv, TypeOK, AgentType, EnsureRunning, EnsureVolume, InspectBrowser, CreateBrowser, StartBrowser,
         RestartBrowser, BrowserFoundRunning, WaitForBrowser, InspectWorker, ResolveImage,
         CreateWorker, StartCreatedWorker, CompareStarts, StartWorker, ReattachWorker,
         WorkerFoundRunning, ReportRunning
<1>1. CASE ReportRunning
  <2>1. Box' = Box /\ (calm => Box = "up")
    BY <1>1 DEF ReportRunning, Box, IInv, PassInv, TypeOK, DockerType, Up
  <2>2. Pass = "run" /\ Pass' = "idle"
    BY <1>1 DEF ReportRunning, Pass, Stopping, Deleting
  <2> QED
    BY <1>0, <2>1, <2>2 DEF Promise!Next, Promise!Return, Promise!Goal
<1>2. CASE ~ReportRunning
  <2>1. pc \in Running /\ pc' \in Running
    BY <1>2 DEF EnsureRunning, EnsureVolume, InspectBrowser, CreateBrowser, StartBrowser,
         RestartBrowser, BrowserFoundRunning, WaitForBrowser, InspectWorker, ResolveImage,
         CreateWorker, StartCreatedWorker, CompareStarts, StartWorker, ReattachWorker,
         WorkerFoundRunning
  <2>2. Pass = "run" /\ Pass' = "run"
    BY <2>1 DEF Pass, Stopping, Deleting
  <2>3. \/ Box' = Box
        \/ <<Box, Box'>> \in {<<"none", "volume">>, <<"volume", "halted">>,
                              <<"halted", "half">>, <<"half", "up">>}
    <3> USE DEF Box, IInv, TypeOK, DockerType, ProfileFirst, BoxInv, Up, BrowserState, WorkerState
    <3>1. CASE EnsureVolume \/ InspectBrowser \/ CreateBrowser
      BY <3>1 DEF EnsureVolume, InspectBrowser, CreateBrowser
    <3>2. CASE StartBrowser \/ RestartBrowser
      BY <3>2 DEF StartBrowser, RestartBrowser, BrowserStarts
    <3>3. CASE BrowserFoundRunning \/ WaitForBrowser \/ InspectWorker \/ ResolveImage
               \/ CompareStarts \/ WorkerFoundRunning
      BY <3>3 DEF BrowserFoundRunning, WaitForBrowser, InspectWorker, ResolveImage,
                  CompareStarts, WorkerFoundRunning
    <3>4. CASE CreateWorker
      BY <3>4 DEF CreateWorker
    <3>5. CASE StartCreatedWorker \/ StartWorker \/ ReattachWorker
      BY <3>5 DEF StartCreatedWorker, StartWorker, ReattachWorker, WorkerStarts
    <3> QED
      BY <1>2, <3>1, <3>2, <3>3, <3>4, <3>5 DEF EnsureRunning
  <2>4. Box' = Box \/ <<Box, Box'>> \in Promise!Moves
    BY <2>2, <2>3 DEF Promise!Moves, Promise!Up
  <2> QED
    BY <1>0, <2>2, <2>4, MovePromised
<1> QED
  BY <1>1, <1>2

\* EnsureStopped and EnsureDeleted descend, and so does the worker that is
\* replaced: with its browser up by one rung.
LEMMA HaltPromised ==
  ASSUME IInv, BoxInv, EnsureHalted
  PROVE  [Promise!Next]_(Promise!vars)
<1> USE DEF Call, saw, Running, Stopping, Deleting, IInv, TypeOK, DockerType, BoxInv,
            Up, BrowserState, WorkerState
<1>1. CASE pc = "replace"
  <2>1. pc' \in Running /\ calm' = calm
    BY <1>1 DEF EnsureHalted, StopWorker, RemoveWorker, StopBrowser, RemoveBrowser, RemoveVolume
  <2>2. Pass = "run" /\ Pass' = "run"
    BY <1>1, <2>1 DEF Pass
  <2>3. \/ Box' = Box \/ <<Box, Box'>> = <<"up", "half">>
        \/ ~calm /\ <<Box, Box'>> \in {<<"half", "halted">>, <<"halted", "volume">>, <<"half", "volume">>}
    BY <1>1 DEF EnsureHalted, StopWorker, RemoveWorker, StopBrowser, RemoveBrowser,
                RemoveVolume, Box, PassInv
  <2> QED
    BY <2>1, <2>2, <2>3, MovePromised DEF Promise!Moves, Promise!Forced
<1>2. CASE pc \in Stopping
  <2>1. calm' = calm /\ pc' \in {"stopBrowser", "idle"} /\ (StopWorker \/ StopBrowser)
    BY <1>2 DEF EnsureHalted, StopWorker, RemoveWorker, StopBrowser, RemoveBrowser, RemoveVolume
  <2>2. Pass = "stop" /\ Pass' = IF pc' = "idle" THEN "idle" ELSE "stop"
    BY <1>2, <2>1 DEF Pass
  <2>3. Box' = Box \/ <<Box, Box'>> \in {<<"up", "half">>, <<"half", "halted">>}
    BY <1>2, <2>1 DEF StopWorker, StopBrowser, Box
  <2>4. pc' = "idle" /\ calm => Box' \in {"none", "volume", "halted"}
    BY <1>2, <2>1 DEF StopWorker, StopBrowser, Box
  <2>5. Box' = Box \/ <<Box, Box'>> \in Promise!Moves
    BY <2>2, <2>3 DEF Promise!Moves, Promise!Stop
  <2>6. CASE pc' = "idle"
    BY <2>1, <2>2, <2>4, <2>5, <2>6 DEF Promise!Next, Promise!Return, Promise!Goal
  <2> QED
    BY <2>1, <2>2, <2>5, <2>6, MovePromised
<1>3. CASE pc \in Deleting
  <2>1. /\ calm' = calm
        /\ pc' \in Deleting \/ (pc' = "idle" /\ RemoveVolume)
    BY <1>3 DEF EnsureHalted, StopWorker, RemoveWorker, StopBrowser, RemoveBrowser, RemoveVolume
  <2>2. Pass = "delete" /\ Pass' = IF pc' = "idle" THEN "idle" ELSE "delete"
    BY <1>3, <2>1 DEF Pass
  <2>3. \/ Box' = Box
        \/ <<Box, Box'>> \in {<<"up", "half">>, <<"half", "halted">>,
                              <<"halted", "volume">>, <<"volume", "none">>}
        \/ ~calm /\ <<Box, Box'>> = <<"half", "volume">>
    BY <1>3 DEF EnsureHalted, StopWorker, RemoveWorker, StopBrowser, RemoveBrowser,
                RemoveVolume, Box, ProfileFirst
  <2>4. RemoveVolume => Box' = "none"
    BY DEF RemoveVolume, Box
  <2>5. Box' = Box \/ <<Box, Box'>> \in Promise!Moves
    BY <2>2, <2>3 DEF Promise!Moves, Promise!Stop, Promise!Remove, Promise!Forced
  <2>6. CASE pc' = "idle"
    BY <2>1, <2>2, <2>4, <2>5, <2>6 DEF Promise!Next, Promise!Return, Promise!Goal
  <2> QED
    BY <2>1, <2>2, <2>5, <2>6, MovePromised
<1> QED
  BY <1>1, <1>2, <1>3 DEF EnsureHalted, StopWorker, RemoveWorker, StopBrowser, RemoveBrowser,
                          RemoveVolume

\* Whatever happens to the containers, the profile stays what it is.
LEMMA ShakePromised ==
  ASSUME IInv, BoxInv, Environment, ~BrowserHealthy, ~WantedChanges
  PROVE  [Promise!Next]_(Promise!vars)
<1>1. /\ volume' = volume /\ pc' = pc /\ calm' = FALSE
      /\ browser' # "none" => browser # "none"
      /\ worker' # "none" => worker # "none"
  BY DEF Environment, Disturbance, BrowserRestarted, BrowserStarts, BrowserStopped,
         BrowserRemoved, BrowserFails, WorkerRestarted, WorkerStarts, WorkerStopped,
         WorkerRemoved, ImageRebuilt, ImagePruned, Up
<1>2. Box' = Box \/ {Box, Box'} \subseteq {"volume", "halted", "half", "up"}
  BY <1>1 DEF Box, IInv, TypeOK, DockerType, ProfileFirst, BoxInv, Up, BrowserState, WorkerState
<1>3. Pass' = Pass
  BY <1>1 DEF Pass
<1> QED
  BY <1>1, <1>2, <1>3 DEF Promise!Next, Promise!Shake, Promise!Kept

\* The engine keeps the promise of RuntimePromise, whatever happens to the
\* containers and wherever calls fail, for any number of faults: one rung with
\* each call, returns over what was asked for unless something happened, and
\* the profile goes last and in a deletion only.
THEOREM EngineRefines == Spec => ImplementsPromise
<1>1. Init => Promise!Init
  BY DEF Init, Promise!Init, Box, Pass, Up, Running, Stopping, Deleting
<1>2. IInv /\ BoxInv /\ [Next]_vars => [Promise!Next]_(Promise!vars)
  <2> SUFFICES ASSUME IInv, BoxInv, [Next]_vars PROVE [Promise!Next]_(Promise!vars)
    OBVIOUS
  <2>1. CASE BeginPass
    <3>1. Box' = Box /\ calm' = TRUE /\ Pass = "idle" /\ Pass' \in {"run", "stop", "delete"}
      BY <2>1 DEF BeginPass, docker, Box, Pass, Running, Stopping, Deleting, IInv, TypeOK, OtherType
    <3> QED
      BY <3>1 DEF Promise!Next, Promise!Begin
  <2>2. CASE Refused \/ WaitTimesOut \/ PassAborted
    <3>1. Box' = Box /\ calm' = FALSE /\ pc # "idle" /\ pc' = "idle"
      BY <2>2 DEF Refused, WaitTimesOut, PassAborted, Fails, docker, Box
    <3>2. Pass # "idle" /\ Pass' = "idle"
      BY <3>1 DEF Pass, IInv, TypeOK, AgentType, Step, Running, Stopping, Deleting
    <3> QED
      BY <3>1, <3>2 DEF Promise!Next, Promise!Fail
  <2>3. CASE BrowserHealthy \/ WantedChanges \/ UNCHANGED vars
    <3>1. Box' = Box /\ Pass' = Pass /\ calm' = calm
      BY <2>3 DEF BrowserHealthy, WantedChanges, vars, docker, agent, Box, Pass, Up
    <3> QED
      BY <3>1 DEF Promise!vars
  <2> QED
    BY <2>1, <2>2, <2>3, RunPromised, HaltPromised, ShakePromised DEF Next, Agent
<1> QED
  BY <1>1, <1>2, PassKeepsItsWord, BoxInvHolds, PTL DEF Spec, ImplementsPromise, Promise!Spec

-----------------------------------------------------------------------------
(* WorkerRecovery.                                                         *)

USE RecoveryAssumption DEF Never, Age

-----------------------------------------------------------------------------
(* The operators on the counters.                                          *)

\* Forgotten is a value the counters may have.
LEMMA ForgottenType == Forgotten \in Recovery
BY DEF Forgotten, Recovery

\* Counting a failure: the counters are the present worker's afterwards, and
\* they grew by one failure at most.
LEMMA FailedFields ==
  ASSUME NEW r \in Recovery
  PROVE  /\ Failed(r) \in Recovery
         /\ Failed(r).of = "present"
         /\ r.of = "present" => Failed(r).failures \in {r.failures, r.failures + 1}
         /\ r.of # "present" => Failed(r).failures = 1 /\ Failed(r).first = 0
         /\ Failed(r).failures \in 1 .. MinFailures
         /\ Failed(r).first >= 0
         /\ Failed(r).first = r.first \/ Failed(r).first = 0
<1> DEFINE known == IF r.of = "other" THEN Forgotten ELSE r
           here == IF known.of = "present" THEN known
                   ELSE [Forgotten EXCEPT !.attempt = known.attempt]
           first == IF here.first = Never THEN 0 ELSE here.first
           failures == IF here.failures < MinFailures THEN here.failures + 1
                       ELSE here.failures
<1>1. known \in Recovery /\ (r.of = "present" => known = r) /\ known.of = r.of
  BY DEF Forgotten, Recovery
<1>2. /\ here \in Recovery
      /\ r.of = "present" => here = r
      /\ r.of # "present" => here.first = Never /\ here.failures = 0
  <2> HIDE DEF known
  <2> QED BY <1>1 DEF Recovery, Forgotten
<1>3. Failed(r) = [of |-> "present", first |-> first, attempt |-> here.attempt,
                   failures |-> failures]
  BY DEF Failed
<1> HIDE DEF here
<1>4. first \in Age(Grace) /\ failures \in 0 .. MinFailures /\ here.attempt \in Age(Cooldown)
  BY <1>2 DEF Recovery
<1>5. Failed(r) \in Recovery
  <2> HIDE DEF first, failures
  <2> QED BY <1>3, <1>4 DEF Recovery
<1> QED
  BY <1>2, <1>3, <1>5 DEF Recovery

\* Recording an attempt starts the count again.
LEMMA AttemptedFields ==
  ASSUME NEW r \in Recovery
  PROVE  /\ Attempted(r) \in Recovery
         /\ Attempted(r).of = r.of
         /\ Attempted(r).failures = 0 /\ Attempted(r).first = Never
BY DEF Attempted, Recovery

\* A worker started again keeps its counters, but for whose they are.
LEMMA StartedAgainFields ==
  ASSUME NEW r \in Recovery
  PROVE  /\ StartedAgain(r) \in Recovery
         /\ StartedAgain(r).of # "present"
         /\ StartedAgain(r).failures = r.failures
         /\ StartedAgain(r).first = r.first
BY DEF StartedAgain, Recovery

\* Ages grow by one and stop at their bound.
LEMMA OlderType ==
  ASSUME NEW cap \in Nat, NEW age \in Age(cap)
  PROVE  /\ Older(age, cap) \in Age(cap)
         /\ Older(age, cap) >= age
         /\ age = Never <=> Older(age, cap) = Never
         /\ age < cap /\ age # Never => Older(age, cap) = age + 1
         /\ age = cap => Older(age, cap) = cap
BY DEF Older

\* A longer streak of failed probes.
LEMMA LongerType ==
  ASSUME NEW s \in [n : 0 .. MinFailures, age : Age(Grace)]
  PROVE  /\ Longer(s) \in [n : 0 .. MinFailures, age : Age(Grace)]
         /\ Longer(s).n >= 1 /\ Longer(s).age >= 0
         /\ Longer(s).n > s.n \/ Longer(s).n = MinFailures
         /\ Longer(s).n >= s.n /\ Longer(s).age >= s.age
BY DEF Longer

LEMMA UnbrokenType ==
  /\ Unbroken \in [n : 0 .. MinFailures, age : Age(Grace)]
  /\ Unbroken.n = 0 /\ Unbroken.age = Never
BY DEF Unbroken

\* What a worker just started has to its account.
LEMMA FreshType ==
  /\ Fresh \in [n : 0 .. MinFailures, age : Age(Grace)]
  /\ probe = "failed" => Fresh.n >= 1 /\ Fresh.age >= 0
  /\ probe # "failed" => Fresh = Unbroken
BY UnbrokenType, LongerType DEF Fresh

-----------------------------------------------------------------------------
(* The inductive invariant.                                                *)

\* The invariant holds initially.
LEMMA RecoveryInitInv == RecoveryInit => RecoveryInv
<1> SUFFICES ASSUME RecoveryInit PROVE RecoveryInv
  OBVIOUS
<1>1. RecoveryType
  <2>1. rec \in Recovery /\ streak \in [n : 0 .. MinFailures, age : Age(Grace)]
    BY ForgottenType, UnbrokenType DEF RecoveryInit
  <2>2. since \in Age(Cooldown) /\ slips \in 0 .. MaxSlips
    BY DEF RecoveryInit
  <2> QED
    BY <2>1, <2>2 DEF RecoveryInit, RecoveryType
<1>2. CountersHonest
  BY DEF RecoveryInit, CountersHonest, Forgotten, Unbroken
<1> QED
  BY <1>1, <1>2 DEF RecoveryInv

\* Counting one more failed probe keeps the counters honest.
LEMMA CountInv ==
  ASSUME RecoveryInv, probe = "failed"
  PROVE  /\ Failed(rec) \in Recovery
         /\ Failed(rec).failures <= streak.n
         /\ Failed(rec).first <= streak.age
         /\ since # Never => Failed(rec).first <= since \/ since >= Cooldown
<1>1. /\ rec \in Recovery /\ Failed(rec) \in Recovery
      /\ streak.n \in 0 .. MinFailures /\ streak.age \in Age(Grace)
      /\ since \in Age(Cooldown)
  BY FailedFields DEF RecoveryInv, RecoveryType
<1>2. Failed(rec).failures <= streak.n /\ Failed(rec).first <= streak.age
  <2>1. CASE rec.of = "present"
    <3>1. rec.failures < streak.n \/ streak.n = MinFailures
      BY <2>1 DEF RecoveryInv, CountersHonest
    <3>2. rec.first <= streak.age /\ streak.age >= 0
      BY <2>1 DEF RecoveryInv, CountersHonest
    <3>3. Failed(rec).failures <= streak.n
      <4>1. Failed(rec).failures \in 1 .. MinFailures /\ rec.failures \in 0 .. MinFailures
        BY <1>1, FailedFields DEF Recovery
      <4>2. Failed(rec).failures \in {rec.failures, rec.failures + 1}
        BY <1>1, <2>1, FailedFields
      <4> QED
        BY <1>1, <3>1, <4>1, <4>2
    <3>4. Failed(rec).first <= streak.age
      BY <1>1, <2>1, <3>2, FailedFields DEF Recovery
    <3> QED
      BY <3>3, <3>4
  <2>2. CASE rec.of # "present"
    BY <1>1, <2>2, FailedFields DEF RecoveryInv, CountersHonest, Recovery
  <2> QED
    BY <2>1, <2>2
<1>3. since # Never => Failed(rec).first <= since \/ since >= Cooldown
  BY <1>1, FailedFields DEF RecoveryInv, CountersHonest, Recovery
<1> QED
  BY <1>1, <1>2, <1>3

\* Every step preserves the invariant.
LEMMA RecoveryNextInv == RecoveryInv /\ [RecoveryNext]_recovery => RecoveryInv'
<1> SUFFICES ASSUME RecoveryInv, [RecoveryNext]_recovery PROVE RecoveryInv'
  OBVIOUS
<1> USE ForgottenType, UnbrokenType
<1> USE DEF RecoveryInv, RecoveryType, CountersHonest
<1>1. CASE ProbeWorker
  BY <1>1, LongerType DEF ProbeWorker, Recovery
<1>2. CASE JudgeHealthy
  BY <1>2 DEF JudgeHealthy, Forgotten
<1>3. CASE JudgeStopped
  BY <1>3 DEF JudgeStopped, Forgotten
<1>4. CASE JudgeFailed
  BY <1>4, CountInv, FailedFields DEF JudgeFailed
<1>5. CASE JudgeNothing
  BY <1>5 DEF JudgeNothing, Slip
<1>6. CASE RestartWorker
  <2>1. /\ rec' \in Recovery /\ rec'.of # "present"
        /\ rec'.first = Never /\ rec'.failures = 0
    BY <1>6, FailedFields, AttemptedFields, StartedAgainFields DEF RestartWorker
  <2>2. RecoveryType'
    BY <1>6, <2>1, 0 \in Age(Cooldown) DEF RestartWorker
  <2>3. CountersHonest'
    BY <1>6, <2>1 DEF RestartWorker
  <2> QED
    BY <2>2, <2>3
<1>7. CASE RestartRefused
  BY <1>7, CountInv, FailedFields, AttemptedFields DEF RestartRefused, RestartDue, Slip
<1>8. CASE WorkerHangs
  BY <1>8 DEF WorkerHangs
<1>9. CASE WorkerExits
  BY <1>9 DEF WorkerExits
<1>10. CASE WorkerRestarts
  BY <1>10, FreshType, StartedAgainFields DEF WorkerRestarts
<1>11. CASE WorkerReplaced
  BY <1>11, FreshType, StartedAgainFields DEF WorkerReplaced, Recovery
<1>12. CASE ReplaceWorker
  <2>1. rec' \in Recovery /\ rec'.first = Never /\ rec'.failures = 0 /\ rec'.of = "other"
    BY <1>12 DEF ReplaceWorker, Forgotten
  <2>2. RecoveryType'
    BY <1>12, <2>1, FreshType DEF ReplaceWorker
  <2>3. CountersHonest'
    BY <1>12, <2>1, FreshType DEF ReplaceWorker
  <2> QED
    BY <2>2, <2>3
<1>13. CASE EnsureStopped
  <2>1. rec' \in Recovery /\ rec'.first = Never /\ rec'.failures = 0 /\ rec'.of = "other"
    BY <1>13 DEF EnsureStopped, Forgotten
  <2>2. RecoveryType'
    BY <1>13, <2>1 DEF EnsureStopped
  <2>3. CountersHonest'
    BY <1>13, <2>1 DEF EnsureStopped
  <2> QED
    BY <2>2, <2>3
<1>14. CASE AgentRestart
  BY <1>14 DEF AgentRestart, Forgotten, Slip
<1>15. CASE Tick
  <2>1. /\ rec'.of = rec.of /\ rec'.failures = rec.failures
        /\ rec'.first = Older(rec.first, Grace)
        /\ rec'.attempt = Older(rec.attempt, Cooldown)
        /\ rec' = [of |-> rec.of, first |-> Older(rec.first, Grace),
                   attempt |-> Older(rec.attempt, Cooldown), failures |-> rec.failures]
    BY <1>15 DEF Tick, Recovery
  <2>9. rec' \in Recovery
    <3>1. Older(rec.first, Grace) \in Age(Grace) /\ Older(rec.attempt, Cooldown) \in Age(Cooldown)
      BY OlderType DEF Recovery
    <3> QED
      BY <2>1, <3>1 DEF Recovery
  <2>2. /\ streak'.n = streak.n /\ streak'.age = Older(streak.age, Grace)
        /\ streak' \in [n : 0 .. MinFailures, age : Age(Grace)]
    BY <1>15, OlderType DEF Tick
  <2>3. since' = Older(since, Cooldown) /\ since' \in Age(Cooldown)
    BY <1>15, OlderType DEF Tick
  <2>4. UNCHANGED <<running, hung, probe, slips>>
    BY <1>15 DEF Tick
  <2>5. rec.first \in Age(Grace) /\ streak.age \in Age(Grace) /\ since \in Age(Cooldown)
    BY DEF Recovery
  <2>6. rec.first <= streak.age => rec'.first <= streak'.age
    BY <2>1, <2>2, <2>5 DEF Older
  <2>7. rec.first <= since \/ since >= Cooldown => rec'.first <= since' \/ since' >= Cooldown
    BY <2>1, <2>3, <2>5 DEF Older
  <2>8. /\ rec.first = Never <=> rec'.first = Never
        /\ since = Never <=> since' = Never
        /\ streak.age >= 0 => streak'.age >= 0
    BY <2>1, <2>2, <2>3, <2>5 DEF Older
  <2> QED
    BY <2>1, <2>2, <2>3, <2>4, <2>6, <2>7, <2>8, <2>9
<1>16. CASE UNCHANGED recovery
  BY <1>16 DEF recovery
<1> QED
  BY <1>1, <1>2, <1>3, <1>4, <1>5, <1>6, <1>7, <1>8, <1>9, <1>10, <1>11, <1>12,
     <1>13, <1>14, <1>15, <1>16 DEF RecoveryNext, Judge

\* The counters never claim more than the worker did, whatever it, Docker,
\* an operator and the agent's restarts do (failed, recoverWorker).
THEOREM CountersAreHonest == RecoverySpec => []RecoveryInv
<1>1. RecoveryInit => RecoveryInv
  BY RecoveryInitInv
<1>2. RecoveryInv /\ [RecoveryNext]_recovery => RecoveryInv'
  BY RecoveryNextInv
<1> QED
  BY <1>1, <1>2, PTL DEF RecoverySpec

-----------------------------------------------------------------------------
(* The promises about restarts.                                            *)

\* An attempt is made only of a restart that is due.
LEMMA AttemptIsDue == Attempt => RestartDue
BY DEF Attempt, RestartWorker, RestartRefused

\* What a restart that is due says of the worker and of the last attempt.
LEMMA DueMeans ==
  ASSUME RecoveryInv, RestartDue
  PROVE  /\ streak.n >= MinFailures /\ streak.age >= Grace
         /\ since = Never \/ since >= Cooldown
BY CountInv DEF RestartDue, Due, RecoveryInv, RecoveryType, Recovery

\* A restart is attempted only of a worker that failed MinFailures probes in a
\* row over at least the grace period since it was started (recoverWorker).
THEOREM RestartsAreJustified == RecoverySpec => RestartJustified
<1>1. RecoveryInv /\ [RecoveryNext]_recovery =>
        [Attempt => streak.n >= MinFailures /\ streak.age >= Grace]_recovery
  BY AttemptIsDue, DueMeans
<1> QED
  BY <1>1, CountersAreHonest, PTL DEF RecoverySpec, RestartJustified

\* Two attempts are at least a cooldown apart, refused ones and restarts of
\* the agent included (recoverWorker).
THEOREM AttemptsAreSpaced == RecoverySpec => AttemptsSpaced
<1>1. RecoveryInv /\ [RecoveryNext]_recovery => [Attempt => since = Never \/ since >= Cooldown]_recovery
  BY AttemptIsDue, DueMeans
<1> QED
  BY <1>1, CountersAreHonest, PTL DEF RecoverySpec, AttemptsSpaced
=============================================================================
