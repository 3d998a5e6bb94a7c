---------------------------- MODULE DockerRuntime ----------------------------
(***************************************************************************)
(* One browser's containers, and the agent that brings them to what the    *)
(* control plane wants: every call EnsureRunning, EnsureStopped and        *)
(* EnsureDeleted of internal/agent/docker_engine.go make to Docker, one    *)
(* step each, while Docker restarts containers by itself, an operator      *)
(* stops or removes them, the worker's image is rebuilt or pruned, calls   *)
(* fail and the agent dies between any two of them.                        *)
(*                                                                         *)
(* BrowserLifecycle sees all this as one box that climbs from nothing to   *)
(* running.  Here is what it takes for a running box to be of use: a       *)
(* worker in the network of the browser there is, started after it.        *)
(***************************************************************************)
EXTENDS Integers

CONSTANTS
  MaxFaults,   \* bound: what goes wrong outside the agent, and failed calls
  MaxRequests  \* bound: how often something else is wanted

ASSUME RuntimeAssumption == MaxFaults \in Nat /\ MaxRequests \in Nat

VARIABLES
  volume,     \* Docker: is there a profile?
  browser,    \* Docker: the browser's container
  worker,     \* Docker: the worker's container
  fit,        \* Docker: what there is right about the worker's container
  image,      \* Docker: does the tag of the worker's image resolve?
  wanted,     \* control plane: what is wanted of the browser
  pc,         \* agent: the next call to Docker
  sawBrowser, \* agent: the browser as it was inspected
  sawWorker,  \* agent: the worker as it was inspected
  sawFit,     \* agent: what was right about it
  resolved,   \* agent: is the image it resolved still the one of the tag?
  reattach,   \* agent: must a running worker be restarted in this pass?
  calm,       \* history: nothing went wrong since the pass began
  tidy,       \* history: the pass found everything in order
  faults,     \* bound: what went wrong so far
  requests    \* bound: how often something else was wanted

saw    == <<sawWorker, sawFit, resolved>>
docker == <<volume, browser, worker, fit, image>>
agent  == <<pc, sawBrowser, saw, reattach>>
vars   == <<docker, wanted, agent, calm, tidy, faults, requests>>

\* "failing": running, past its first health check, one probe or more failed.
BrowserState == {"none", "down", "starting", "healthy", "failing"}
Up == {"starting", "healthy", "failing"}

WorkerState == {"none", "down", "up"}

\* What can be right about a worker: it is in the network of the last browser
\* container created, was started after that was last started, and is of the
\* image the tag resolves to.
Fits == {"net", "after", "image"}

Running  == {"volume", "browser", "actBrowser", "startBrowser", "wait",
             "worker", "image", "replace", "create", "startWorker", "compare",
             "actWorker", "done"}
Stopping == {"stopWorker", "stopBrowser"}
Deleting == {"removeWorker", "removeBrowser", "removeVolume"}
Step == {"idle"} \cup Running \cup Stopping \cup Deleting

Init ==
  /\ volume = FALSE /\ browser = "none" /\ worker = "none" /\ fit = {}
  /\ image = "there"
  /\ wanted = "run"
  /\ pc = "idle" /\ sawBrowser = "none" /\ sawWorker = "none" /\ sawFit = {}
  /\ resolved = FALSE /\ reattach = FALSE
  /\ calm = FALSE /\ tidy = FALSE
  /\ faults = 0 /\ requests = 0

-----------------------------------------------------------------------------
\* browserContainerNeedsRestart
NeedsRestart(b) == b = "failing"

\* Mutant: a worker is never found older than its browser.
PredatesNever(w, f) == FALSE

\* workerPredatesBrowser, of a worker inspected and the browser there is.
Predates(w, f) == w = "up" /\ browser \in Up /\ "after" \notin f

\* ensureWorkerContainer replaces a worker of another image or network.
Outdated(f) == ~({"image", "net"} \subseteq f)

\* The browser's container starts: whatever ran before it has lost it.
BrowserStarts ==
  /\ browser' = "starting"
  /\ fit' = fit \ {"after"}
  /\ sawFit' = sawFit \ {"after"}

WorkerStarts == worker' = "up" /\ fit' = fit \cup {"after"}

\* Everything is right about the worker, and it can drive its browser.
Attached == browser \in {"healthy", "failing"} /\ worker = "up" /\ fit = Fits

Fault == faults < MaxFaults /\ faults' = faults + 1

\* The call succeeds and the agent goes on to the next.
Call(here, next) ==
  /\ pc = here
  /\ pc' = next
  /\ UNCHANGED <<image, wanted, calm, tidy, faults, requests>>

\* EnsureX returns an error without having changed anything.
Fails == pc' = "idle" /\ UNCHANGED docker

-----------------------------------------------------------------------------
(***************************************************************************)
(* A pass.                                                                 *)
(***************************************************************************)
BeginPass ==
  /\ pc = "idle"
  /\ pc' = CASE wanted = "run"    -> "volume"
             [] wanted = "stop"   -> "stopWorker"
             [] wanted = "delete" -> "removeWorker"
  /\ calm' = TRUE /\ tidy' = (Attached /\ browser = "healthy")
  /\ sawBrowser' = "none" /\ sawWorker' = "none" /\ sawFit' = {}
  /\ resolved' = FALSE /\ reattach' = FALSE
  /\ UNCHANGED <<docker, wanted, faults, requests>>

EnsureVolume ==
  /\ Call("volume", "browser")
  /\ volume' = TRUE
  /\ UNCHANGED <<browser, worker, fit, sawBrowser, saw, reattach>>

InspectBrowser ==
  /\ Call("browser", "actBrowser")
  /\ sawBrowser' = browser
  /\ UNCHANGED <<volume, browser, worker, fit, saw, reattach>>

CreateBrowser ==
  /\ sawBrowser = "none"
  /\ Call("actBrowser", "startBrowser")
  /\ browser' = "down"
  /\ fit' = fit \ {"net"}
  /\ UNCHANGED <<volume, worker, sawBrowser, saw, reattach>>

\* Starting a container that runs already does nothing.
StartBrowser ==
  /\ browser # "none"
  /\ \/ Call("startBrowser", "wait") /\ UNCHANGED reattach
     \/ sawBrowser = "down" /\ Call("actBrowser", "wait") /\ reattach' = TRUE
  /\ IF browser = "down" THEN BrowserStarts ELSE UNCHANGED <<browser, fit, sawFit>>
  /\ UNCHANGED <<volume, worker, sawBrowser, sawWorker, resolved>>

RestartBrowser ==
  /\ browser # "none" /\ NeedsRestart(sawBrowser)
  /\ Call("actBrowser", "wait")
  /\ BrowserStarts
  /\ reattach' = TRUE
  /\ UNCHANGED <<volume, worker, sawBrowser, sawWorker, resolved>>

\* Mutant: the worker of a browser found running is restarted all the same.
FoundRunningReattached ==
  /\ sawBrowser \in Up /\ ~NeedsRestart(sawBrowser)
  /\ Call("actBrowser", "wait")
  /\ reattach' = TRUE
  /\ UNCHANGED <<volume, browser, worker, fit, sawBrowser, saw>>

BrowserFoundRunning ==
  /\ sawBrowser \in Up /\ ~NeedsRestart(sawBrowser)
  /\ Call("actBrowser", "wait")
  /\ UNCHANGED <<volume, browser, worker, fit, sawBrowser, saw, reattach>>

\* waitForBrowser lets a browser pass that is healthy for now ("failing" is
\* that, or unhealthy already).
WaitForBrowser ==
  /\ browser \in {"healthy", "failing"}
  /\ Call("wait", "worker")
  /\ UNCHANGED <<volume, browser, worker, fit, sawBrowser, saw, reattach>>

InspectWorker ==
  /\ Call("worker", "image")
  /\ sawWorker' = worker /\ sawFit' = fit
  /\ UNCHANGED <<volume, browser, worker, fit, sawBrowser, resolved, reattach>>

\* Mutant: an outdated worker is removed before its successor is known.
ResolveImageLater ==
  /\ image = "there" \/ (sawWorker # "none" /\ Outdated(sawFit))
  /\ Call("image", IF sawWorker = "none" THEN "create"
                   ELSE IF Outdated(sawFit) THEN "replace" ELSE "compare")
  /\ resolved' = TRUE
  /\ UNCHANGED <<volume, browser, worker, fit, sawBrowser, sawWorker, sawFit, reattach>>

\* The desired image is resolved before anything is stopped.
ResolveImage ==
  /\ image = "there"
  /\ Call("image", IF sawWorker = "none" THEN "create"
                   ELSE IF Outdated(sawFit) THEN "replace" ELSE "compare")
  /\ resolved' = TRUE
  /\ UNCHANGED <<volume, browser, worker, fit, sawBrowser, sawWorker, sawFit, reattach>>

\* Docker takes no worker into the network of a container it has not, nor one
\* of an image it has not.
CreateWorker ==
  /\ browser # "none" /\ worker = "none"
  /\ image = "there" \/ ~resolved
  /\ Call("create", "startWorker")
  /\ worker' = "down" /\ fit' = IF resolved THEN {"net", "image"} ELSE {"net"}
  /\ UNCHANGED <<volume, browser, sawBrowser, saw, reattach>>

StartCreatedWorker ==
  /\ browser \in Up /\ worker # "none"
  /\ Call("startWorker", "done")
  /\ IF worker = "down" THEN WorkerStarts ELSE UNCHANGED <<worker, fit>>
  /\ UNCHANGED <<volume, browser, sawBrowser, saw, reattach>>

CompareStarts ==
  /\ browser # "none"
  /\ Call("compare", "actWorker")
  /\ reattach' = (reattach \/ Predates(sawWorker, sawFit))
  /\ UNCHANGED <<volume, browser, worker, fit, sawBrowser, saw>>

StartWorker ==
  /\ sawWorker = "down" /\ browser \in Up /\ worker # "none"
  /\ Call("actWorker", "done")
  /\ IF worker = "down" THEN WorkerStarts ELSE UNCHANGED <<worker, fit>>
  /\ UNCHANGED <<volume, browser, sawBrowser, saw, reattach>>

ReattachWorker ==
  /\ sawWorker = "up" /\ reattach /\ browser \in Up /\ worker # "none"
  /\ Call("actWorker", "done")
  /\ WorkerStarts
  /\ UNCHANGED <<volume, browser, sawBrowser, saw, reattach>>

WorkerFoundRunning ==
  /\ sawWorker = "up" /\ ~reattach
  /\ Call("actWorker", "done")
  /\ UNCHANGED <<volume, browser, worker, fit, sawBrowser, saw, reattach>>

\* EnsureRunning returns the runtime, and the agent reports it as running.
ReportRunning ==
  /\ Call("done", "idle")
  /\ UNCHANGED <<volume, browser, worker, fit, sawBrowser, saw, reattach>>

-----------------------------------------------------------------------------
\* Mutant: what Docker says of the worker's stop is not looked at.
StopUnheeded ==
  /\ \/ Call("stopWorker", "stopBrowser") /\ UNCHANGED worker
     \/ /\ pc \in {"replace", "removeWorker"} /\ worker = "up" /\ Call(pc, pc)
        /\ worker' = "down"
  /\ UNCHANGED <<volume, browser, fit, sawBrowser, saw, reattach>>

\* stopOwnedContainer and removeOwnedContainer, which inspects and stops first
\* and then removes by force: also a container that came back in between.
StopWorker ==
  /\ \/ Call("stopWorker", "stopBrowser")
     \/ pc \in {"replace", "removeWorker"} /\ worker = "up" /\ Call(pc, pc)
  /\ worker' = IF worker = "up" THEN "down" ELSE worker
  /\ UNCHANGED <<volume, browser, fit, sawBrowser, saw, reattach>>

RemoveWorker ==
  /\ worker # "up" \/ ~calm
  /\ Call("replace", "create") \/ Call("removeWorker", "removeBrowser")
  /\ worker' = "none" /\ fit' = {}
  /\ UNCHANGED <<volume, browser, sawBrowser, saw, reattach>>

StopBrowser ==
  /\ \/ Call("stopBrowser", "idle")
     \/ browser \in Up /\ Call("removeBrowser", "removeBrowser")
  /\ browser' = IF browser \in Up THEN "down" ELSE browser
  /\ UNCHANGED <<volume, worker, fit, sawBrowser, saw, reattach>>

RemoveBrowser ==
  /\ browser \notin Up \/ ~calm
  /\ Call("removeBrowser", "removeVolume")
  /\ browser' = "none"
  /\ UNCHANGED <<volume, worker, fit, sawBrowser, saw, reattach>>

\* Docker keeps a volume that a container uses.
RemoveVolume ==
  /\ browser = "none"
  /\ Call("removeVolume", "idle")
  /\ volume' = FALSE
  /\ UNCHANGED <<browser, worker, fit, sawBrowser, saw, reattach>>

-----------------------------------------------------------------------------
(***************************************************************************)
(* What ends a pass early.                                                 *)
(***************************************************************************)
\* Docker refuses: the container, the image or the network is not there (any
\* more), the browser exited or is unhealthy, the volume is in use.
Refused ==
  /\ \/ pc = "actBrowser" /\ sawBrowser \in {"down", "failing"} /\ browser = "none"
     \/ pc \in {"startBrowser", "create", "compare"} /\ browser = "none"
     \/ pc = "wait" /\ browser \in {"none", "down", "failing"}
     \/ pc = "image" /\ image = "gone"
     \/ pc = "create" /\ (image = "gone" \/ ~resolved \/ worker # "none")
     \/ /\ \/ pc = "startWorker"
           \/ pc = "actWorker" /\ (sawWorker = "down" \/ reattach)
        /\ browser \notin Up \/ worker = "none"
     \/ pc = "removeVolume" /\ browser # "none"
  /\ Fails
  /\ calm' = FALSE
  /\ UNCHANGED <<wanted, sawBrowser, saw, reattach, tidy, faults, requests>>

\* waitForBrowser gives up on a browser that is still starting.
WaitTimesOut ==
  /\ pc = "wait" /\ browser = "starting"
  /\ Fails
  /\ calm' = FALSE
  /\ UNCHANGED <<wanted, sawBrowser, saw, reattach, tidy, faults, requests>>

\* A call fails, or the agent dies.
PassAborted ==
  /\ Fault
  /\ pc # "idle"
  /\ Fails
  /\ calm' = FALSE
  /\ UNCHANGED <<wanted, sawBrowser, saw, reattach, tidy, requests>>

-----------------------------------------------------------------------------
(***************************************************************************)
(* What happens to the containers behind the agent's back.                 *)
(***************************************************************************)
Disturbance ==
  /\ Fault
  /\ calm' = FALSE
  /\ UNCHANGED <<volume, wanted, pc, sawBrowser, sawWorker, reattach, tidy, requests>>

\* The restart policy, a reboot of the host, or an operator.
BrowserRestarted == Disturbance /\ browser # "none" /\ BrowserStarts /\ UNCHANGED <<worker, image, resolved>>

BrowserStopped ==
  /\ Disturbance /\ browser \in Up
  /\ browser' = "down"
  /\ UNCHANGED <<worker, fit, image, sawFit, resolved>>

BrowserRemoved ==
  /\ Disturbance /\ browser # "none"
  /\ browser' = "none"
  /\ UNCHANGED <<worker, fit, image, sawFit, resolved>>

BrowserFails ==
  /\ Disturbance /\ browser \in {"starting", "healthy"}
  /\ browser' = "failing"
  /\ UNCHANGED <<worker, fit, image, sawFit, resolved>>

WorkerRestarted ==
  /\ Disturbance /\ worker # "none" /\ browser \in Up
  /\ WorkerStarts
  /\ UNCHANGED <<browser, image, sawFit, resolved>>

WorkerStopped ==
  /\ Disturbance /\ worker = "up"
  /\ worker' = "down"
  /\ UNCHANGED <<browser, fit, image, sawFit, resolved>>

WorkerRemoved ==
  /\ Disturbance /\ worker # "none"
  /\ worker' = "none" /\ fit' = {}
  /\ UNCHANGED <<browser, image, sawFit, resolved>>

\* A rebuild moves the tag to another image.
ImageRebuilt ==
  /\ Disturbance
  /\ image' = "there"
  /\ fit' = fit \ {"image"}
  /\ sawFit' = sawFit \ {"image"} /\ resolved' = FALSE
  /\ UNCHANGED <<browser, worker>>

ImagePruned ==
  /\ Disturbance /\ image = "there"
  /\ image' = "gone"
  /\ UNCHANGED <<browser, worker, fit, sawFit, resolved>>

\* The browser comes up and its health check succeeds.
BrowserHealthy ==
  /\ browser \in {"starting", "failing"}
  /\ browser' = "healthy"
  /\ UNCHANGED <<volume, worker, fit, image, wanted, agent, calm, tidy, faults, requests>>

\* The control plane lists the browser with another state; a deletion stays.
WantedChanges ==
  /\ requests < MaxRequests /\ requests' = requests + 1
  /\ wanted # "delete"
  /\ wanted' \in {"run", "stop", "delete"} \ {wanted}
  /\ UNCHANGED <<docker, agent, calm, tidy, faults>>

EnsureRunning ==
  \/ EnsureVolume \/ InspectBrowser \/ CreateBrowser \/ StartBrowser
  \/ RestartBrowser \/ BrowserFoundRunning \/ WaitForBrowser
  \/ InspectWorker \/ ResolveImage \/ CreateWorker \/ StartCreatedWorker
  \/ CompareStarts \/ StartWorker \/ ReattachWorker \/ WorkerFoundRunning
  \/ ReportRunning

EnsureHalted == StopWorker \/ RemoveWorker \/ StopBrowser \/ RemoveBrowser \/ RemoveVolume

Environment ==
  \/ BrowserRestarted \/ BrowserStopped \/ BrowserRemoved \/ BrowserFails
  \/ WorkerRestarted \/ WorkerStopped \/ WorkerRemoved
  \/ ImageRebuilt \/ ImagePruned
  \/ BrowserHealthy \/ WantedChanges

Agent == BeginPass \/ EnsureRunning \/ EnsureHalted \/ Refused

Next == Agent \/ WaitTimesOut \/ PassAborted \/ Environment

Spec == Init /\ [][Next]_vars

\* The agent polls and makes the call that is next; a browser that starts
\* comes up unless something happens to it.
FairSpec == Spec /\ WF_vars(Agent) /\ WF_vars(BrowserHealthy)

-----------------------------------------------------------------------------
DockerType ==
  /\ volume \in BOOLEAN /\ browser \in BrowserState
  /\ worker \in WorkerState /\ fit \subseteq Fits
  /\ image \in {"there", "gone"}

AgentType ==
  /\ pc \in Step
  /\ sawBrowser \in BrowserState
  /\ sawWorker \in WorkerState /\ sawFit \subseteq Fits
  /\ resolved \in BOOLEAN /\ reattach \in BOOLEAN

OtherType ==
  /\ wanted \in {"run", "stop", "delete"}
  /\ calm \in BOOLEAN /\ tidy \in BOOLEAN
  /\ faults \in 0 .. MaxFaults /\ requests \in 0 .. MaxRequests

TypeOK == DockerType /\ AgentType /\ OtherType

\* A browser is reported as running only with a worker that can drive it,
\* unless something happened to one of them during the very pass
\* (EnsureRunning): whatever they were found like and whatever earlier passes
\* left behind.
ReportTruthful == [][ReportRunning /\ calm => Attached]_vars

\* What would interrupt the session of whoever uses the browser.
Interrupts ==
  \/ RestartBrowser \/ ReattachWorker
  \/ pc \in Running /\ (StopWorker \/ RemoveWorker)

\* A pass that finds everything in order, and during which nothing happens,
\* restarts, stops and removes nothing: it interrupts nobody's session.
PassIdempotent == [][calm /\ tidy => ~Interrupts]_vars

\* No worker is removed to make room for one of an image there is not.
OldWorkerKept ==
  [][worker # "none" /\ RemoveWorker /\ pc = "replace" /\ calm => image = "there"]_vars

\* What is wanted of the browser, and is.
Settled ==
  CASE wanted = "run"    -> Attached
    [] wanted = "stop"   -> browser \notin Up /\ worker # "up"
    [] wanted = "delete" -> browser = "none" /\ worker = "none" /\ ~volume

\* Once nobody interferes and the image is there, the containers come to what
\* is wanted of the browser and stay so.
Settles == <>[](image = "there") => <>[]Settled

-----------------------------------------------------------------------------
(***************************************************************************)
(* What holds while nothing happens to the containers during a pass.       *)
(***************************************************************************)
\* What the agent has seen to so far.
PassInv ==
  calm =>
    /\ pc \in {"worker", "image", "replace", "create", "startWorker", "compare",
               "actWorker", "done"} => browser \in {"healthy", "failing"}
    /\ pc \in {"image", "compare", "actWorker"} => sawWorker = worker /\ sawFit = fit
    /\ pc \in {"compare", "actWorker"} => worker # "none" /\ {"net", "image"} \subseteq fit
    /\ pc = "actWorker" /\ worker = "up" => "after" \in fit \/ reattach
    /\ pc \in {"replace", "create"} => resolved /\ image = "there"
    /\ pc = "startWorker" => worker = "down" /\ {"net", "image"} \subseteq fit
    /\ pc = "done" => worker = "up" /\ fit = Fits

\* A pass that found everything in order finds nothing to do.
TidyInv ==
  calm /\ tidy /\ pc \in Running =>
    /\ pc \notin {"startBrowser", "replace", "create", "startWorker"}
    /\ Attached /\ browser = "healthy"
    /\ pc = "actBrowser" => sawBrowser = "healthy"
    /\ ~reattach

\* No container of a browser without its profile.
ProfileFirst ==
  /\ browser # "none" => volume
  /\ pc \in Running \ {"volume"} => volume

IInv == TypeOK /\ ProfileFirst /\ PassInv /\ TidyInv

-----------------------------------------------------------------------------
(***************************************************************************)
(* The promise.                                                            *)
(***************************************************************************)
\* How far the runtime exists: BrowserLifecycle's box.
Box ==
  IF browser \in Up /\ worker = "up" THEN "up"
  ELSE IF browser \in Up \/ worker = "up" THEN "half"
  ELSE IF browser # "none" \/ worker # "none" THEN "halted"
  ELSE IF volume THEN "volume" ELSE "none"

\* What the pass under way was begun for, whatever is wanted by now.
Pass == CASE pc \in Running  -> "run"
          [] pc \in Stopping -> "stop"
          [] pc \in Deleting -> "delete"
          [] OTHER           -> "idle"

Promise == INSTANCE RuntimePromise WITH box <- Box, pass <- Pass

\* Whatever the containers are found like and wherever calls fail, the engine
\* moves the runtime one rung with each call, returns over what it was asked
\* for unless something happened meanwhile, and destroys the profile in a
\* deletion only, when no container is left.
ImplementsPromise == Promise!Spec

\* What the promise rests on: only a pass makes a container, and it removes
\* them, worker first, before the profile.
BoxInv ==
  /\ worker # "none" => volume
  /\ pc \in {"removeBrowser", "removeVolume"} => worker = "none"
  /\ pc = "actBrowser" /\ sawBrowser = "none" => browser = "none"
  /\ calm /\ pc = "stopBrowser" => worker # "up"
=============================================================================
