--------------------------- MODULE WorkerRecovery ---------------------------
(***************************************************************************)
(* When the agent restarts a worker that does not answer: the counters of  *)
(* internal/agent/worker_recovery.go for one browser, against probes that  *)
(* fail for a while or for good, containers restarted behind the agent's   *)
(* back, restarts the engine refuses and an agent that loses its memory.   *)
(*                                                                         *)
(* The code keeps instants and compares the time passed since; here ages   *)
(* that stop at the bound they are compared with.  It keeps the identity   *)
(* and the start time of the worker it counts for; here whether these are  *)
(* still those of the worker there is.                                     *)
(***************************************************************************)
EXTENDS Integers

CONSTANTS
  MinFailures,  \* failed probes before a restart: 3
  Grace,        \* workerFailureGrace
  Cooldown,     \* workerRestartCooldown
  MaxSlips      \* bound: engine errors and restarts of the agent

ASSUME RecoveryAssumption ==
  /\ MinFailures \in Nat \ {0}
  /\ Grace \in Nat \ {0}
  /\ Cooldown \in 0 .. Grace
  /\ MaxSlips \in Nat

VARIABLES
  running,  \* engine: is the worker's container running?
  hung,     \* engine: will its probes fail until it is started again?
  rec,      \* agent: the workerRecovery of this browser
  probe,    \* agent: the answer to a health probe not judged yet, or "none"
  streak,   \* history: the probes failed in a row, and since when
  since,    \* history: the age of the last restart attempted
  slips     \* counts what MaxSlips bounds

recovery == <<running, hung, rec, probe, streak, since, slips>>

Never == -1   \* Go's zero time
Age(cap) == Never .. cap
Older(age, cap) == IF age \in 0 .. cap - 1 THEN age + 1 ELSE age

\* of: is what is remembered of another container, of an earlier start of the
\* worker there is, or of the worker there is?
Recovery == [of : {"other", "earlier", "present"}, first : Age(Grace),
             attempt : Age(Cooldown), failures : 0 .. MinFailures]

\* The zero workerRecovery, which is also what a missing map entry reads as.
Forgotten == [of |-> "other", first |-> Never, attempt |-> Never, failures |-> 0]

Unbroken == [n |-> 0, age |-> Never]

RecoveryInit ==
  /\ running = TRUE
  /\ hung = FALSE
  /\ rec = Forgotten
  /\ probe = "none"
  /\ streak = Unbroken
  /\ since = Never
  /\ slips = 0

-----------------------------------------------------------------------------
\* Mutant: a worker started again keeps the count of the one before.
FailedAcrossStarts(r) ==
  LET known == IF r.of = "other" THEN Forgotten ELSE r
  IN  [known EXCEPT !.of = "present",
                    !.first = IF @ = Never THEN 0 ELSE @,
                    !.failures = IF @ < MinFailures THEN @ + 1 ELSE @]

\* Mutant: the first failure is overwritten by every other one.
FailedJustNow(r) ==
  LET known == IF r.of = "other" THEN Forgotten ELSE r
      here == IF known.of = "present" THEN known ELSE [known EXCEPT !.failures = 0]
  IN  [here EXCEPT !.of = "present",
                   !.first = 0,
                   !.failures = IF @ < MinFailures THEN @ + 1 ELSE @]

\* workerRecovery.failed, up to its verdict.
Failed(r) ==
  LET known == IF r.of = "other" THEN Forgotten ELSE r
      here == IF known.of = "present" THEN known
              ELSE [Forgotten EXCEPT !.attempt = known.attempt]
  IN  [of |-> "present",
       first |-> IF here.first = Never THEN 0 ELSE here.first,
       attempt |-> here.attempt,
       failures |-> IF here.failures < MinFailures THEN here.failures + 1
                    ELSE here.failures]

Due(r) ==
  /\ r.failures >= MinFailures
  /\ r.first >= Grace
  /\ r.attempt = Never \/ r.attempt >= Cooldown

Attempted(r) == [of |-> r.of, first |-> Never, attempt |-> 0, failures |-> 0]

\* History: one more probe of this worker has failed.
Longer(s) == [n |-> IF s.n < MinFailures THEN s.n + 1 ELSE s.n,
              age |-> IF s.age = Never THEN 0 ELSE s.age]

\* History: a worker just started has failed nothing, but for a probe that is
\* answered already and will be judged as its own.
Fresh == IF probe = "failed" THEN Longer(Unbroken) ELSE Unbroken

\* The worker there is was started later than the one the counters are about.
StartedAgain(r) == [r EXCEPT !.of = IF @ = "other" THEN "other" ELSE "earlier"]

Slip == slips < MaxSlips /\ slips' = slips + 1

-----------------------------------------------------------------------------
(***************************************************************************)
(* The probe of every pass, workerStatus, and what recoverWorker makes of  *)
(* its answer after it has inspected the container.  The worker may have   *)
(* changed in between.                                                     *)
(***************************************************************************)
ProbeWorker ==
  /\ probe = "none"
  /\ probe' = IF running /\ ~hung THEN "healthy" ELSE "failed"
  /\ streak' = IF running /\ ~hung THEN Unbroken ELSE Longer(streak)
  /\ UNCHANGED <<running, hung, rec, since, slips>>

JudgeHealthy ==
  /\ probe = "healthy"
  /\ probe' = "none"
  /\ rec' = Forgotten
  /\ UNCHANGED <<running, hung, streak, since, slips>>

\* The worker is found stopped: ensureWorkerContainer starts it on the next
\* pass, and nothing is remembered of it.
JudgeStopped ==
  /\ probe = "failed" /\ ~running
  /\ probe' = "none"
  /\ rec' = Forgotten
  /\ UNCHANGED <<running, hung, streak, since, slips>>

JudgeFailed ==
  /\ probe = "failed" /\ running
  /\ ~Due(Failed(rec))
  /\ probe' = "none"
  /\ rec' = Failed(rec)
  /\ UNCHANGED <<running, hung, streak, since, slips>>

\* The container cannot be inspected: recoverWorker returns before it counts.
JudgeNothing ==
  /\ Slip
  /\ probe = "failed"
  /\ probe' = "none"
  /\ UNCHANGED <<running, hung, rec, streak, since>>

RestartDue == probe = "failed" /\ running /\ Due(Failed(rec))

\* Whether the engine's answer is an error or not makes no difference here.
RestartWorker ==
  /\ RestartDue
  /\ probe' = "none"
  /\ rec' = StartedAgain(Attempted(Failed(rec)))
  /\ hung' = FALSE
  /\ streak' = Unbroken
  /\ since' = 0
  /\ UNCHANGED <<running, slips>>

\* Mutant: an attempt is recorded only when it succeeds.
RestartRefusedForgotten ==
  /\ Slip
  /\ RestartDue
  /\ probe' = "none"
  /\ rec' = Failed(rec)
  /\ since' = 0
  /\ running' \in BOOLEAN
  /\ hung' = (hung /\ running')
  /\ UNCHANGED streak

\* The engine refuses the restart, or stops the worker and fails to start it:
\* the attempt counts all the same.
RestartRefused ==
  /\ Slip
  /\ RestartDue
  /\ probe' = "none"
  /\ rec' = Attempted(Failed(rec))
  /\ since' = 0
  /\ running' \in BOOLEAN
  /\ hung' = (hung /\ running')
  /\ UNCHANGED streak

-----------------------------------------------------------------------------
(***************************************************************************)
(* What else happens to the worker.                                        *)
(***************************************************************************)
WorkerHangs ==
  /\ running /\ ~hung
  /\ hung' = TRUE
  /\ UNCHANGED <<running, rec, probe, streak, since, slips>>

WorkerExits ==
  /\ running
  /\ running' = FALSE
  /\ hung' = FALSE
  /\ UNCHANGED <<rec, probe, streak, since, slips>>

\* By Docker's restart policy or an operator, whatever the agent is doing, and
\* by ensureWorkerContainer, between two probes.
WorkerRestarts ==
  /\ running' = TRUE
  /\ hung' = FALSE
  /\ rec' = StartedAgain(rec)
  /\ streak' = Fresh
  /\ UNCHANGED <<probe, since, slips>>

\* An operator replaces the container; the counters are still the old one's.
WorkerReplaced ==
  /\ running' = TRUE
  /\ hung' = FALSE
  /\ rec' = [rec EXCEPT !.of = "other"]
  /\ streak' = Fresh
  /\ UNCHANGED <<probe, since, slips>>

\* ensureWorkerContainer replaces it before it is probed, and forgets them.
ReplaceWorker ==
  /\ probe = "none"
  /\ running' = TRUE
  /\ hung' = FALSE
  /\ rec' = Forgotten
  /\ streak' = Fresh
  /\ UNCHANGED <<probe, since, slips>>

\* EnsureStopped and EnsureDeleted forget the counters, then stop the worker.
EnsureStopped ==
  /\ probe = "none"
  /\ running' = FALSE
  /\ hung' = FALSE
  /\ rec' = Forgotten
  /\ UNCHANGED <<probe, streak, since, slips>>

AgentRestart ==
  /\ Slip
  /\ rec' = Forgotten
  /\ probe' = "none"
  /\ UNCHANGED <<running, hung, streak, since>>

Tick ==
  /\ rec' = [rec EXCEPT !.first = Older(@, Grace), !.attempt = Older(@, Cooldown)]
  /\ streak' = [streak EXCEPT !.age = Older(@, Grace)]
  /\ since' = Older(since, Cooldown)
  /\ UNCHANGED <<running, hung, probe, slips>>

Judge == JudgeHealthy \/ JudgeStopped \/ JudgeFailed \/ RestartWorker

RecoveryNext ==
  \/ ProbeWorker \/ Judge \/ JudgeNothing \/ RestartRefused
  \/ WorkerHangs \/ WorkerExits \/ WorkerRestarts \/ WorkerReplaced
  \/ ReplaceWorker \/ EnsureStopped \/ AgentRestart
  \/ Tick

RecoverySpec == RecoveryInit /\ [][RecoveryNext]_recovery

\* The agent polls on a ticker, judges what it probed, and time passes.
FairRecovery == RecoverySpec /\ WF_recovery(ProbeWorker) /\ WF_recovery(Judge) /\ WF_recovery(Tick)

-----------------------------------------------------------------------------
RecoveryType ==
  /\ running \in BOOLEAN
  /\ hung \in BOOLEAN
  /\ rec \in Recovery
  /\ probe \in {"none", "healthy", "failed"}
  /\ streak \in [n : 0 .. MinFailures, age : Age(Grace)]
  /\ since \in Age(Cooldown)
  /\ slips \in 0 .. MaxSlips

Attempt == RestartWorker \/ RestartRefused

\* A restart is attempted only after this very worker, since it was last
\* started, failed MinFailures probes in a row over at least the grace period:
\* one busy probe, a healthy answer in between, or the failures of a worker
\* replaced or restarted meanwhile never add up to one (failed, recoverWorker).
RestartJustified ==
  [][Attempt => streak.n >= MinFailures /\ streak.age >= Grace]_recovery

\* Attempts are a cooldown apart, failed attempts included, even when the
\* counters were forgotten in between or the agent was restarted.
AttemptsSpaced == [][Attempt => since = Never \/ since >= Cooldown]_recovery

\* A worker that hangs is started again, by the agent if by nobody else.
HungWorkerRecovers == hung ~> ~hung

-----------------------------------------------------------------------------
\* What the counters claim of the worker it has really done, a failed probe
\* about to be counted included, and they were not begun before the last
\* attempt.
CountersHonest ==
  /\ rec.of = "present" /\ probe # "healthy" =>
       rec.failures <= streak.n /\ rec.first <= streak.age
  /\ probe = "failed" => streak.n >= 1 /\ streak.age >= 0
  /\ probe = "failed" /\ rec.of = "present" => rec.failures < streak.n \/ streak.n = MinFailures
  /\ since # Never => rec.first <= since \/ since >= Cooldown
  /\ rec.first = Never => rec.failures = 0

RecoveryInv == RecoveryType /\ CountersHonest
=============================================================================
