# Navego: verification project

Navego rents isolated Chromium browsers to AI clients. Its control plane keeps
one record per browser, an agent turns records into containers, and every
browser is driven by a worker that speaks MCP. This directory models that
system in TLA+, checks the models with TLC on small instances and proves the
central properties with TLAPS for every instance.

Run `tlc -config X.cfg M` for each run of `PROJECT.json` and `tlapm M.tla` for
each module ending in `Proofs`. `PROJECT.json` also lists, for every
definition, the lines of the source it stands for.

## 1. The system

| Component | Source | State it keeps | Operations | Correct when |
| --- | --- | --- | --- | --- |
| Browser records | `internal/control/app.go`, `browser_quota.go` | `browsers` rows: state, endpoints, agent; `users.default_browser` | create, rename, default, power, delete; list of commands, report, confirm deletion | a row says what its runtime is, keeps the user's wish, and outlives its runtime; quotas hold |
| Agent loop | `internal/agent/runner.go`, `control_client.go` | the commands of a pass, telemetry last reported | poll, reconcile one browser, report | every row and its runtime agree in the end |
| Container engine | `internal/agent/docker_engine.go` | volume, browser and worker container per browser | `EnsureRunning`, `EnsureStopped`, `EnsureDeleted` | "running" means usable; a pass disturbs nothing that is in order; profiles survive |
| Worker recovery | `internal/agent/worker_recovery.go` | failure counters per browser | judge a probe, restart | only a worker that earned it is restarted, never in a storm, and a hung one always |
| OAuth | `internal/control/oauth.go` | clients, codes, access and refresh tokens | register, approve, exchange, refresh, revoke, verify | what was spent yields nothing more; overlapping exchanges leave no client without its tokens, only a failure or a lost answer may; refused accounts verify nothing |
| Viewer, human access | `internal/control/viewer.go`, `human_access.go` | tickets, sessions, links (in memory) | mint, consume, resolve | a ticket opens one session; a link leads only its owner to a running browser |
| Central MCP | `internal/control/mcp.go`, `saved_login.go` | none of its own | choose a browser, call its worker, broker a saved login | the call reaches the browser that was named; what the caller is told of a login is true |
| Credential vault | `internal/control/credentials.go`, `credential_vault.go` | sealed credentials per owner and origin | create, update, remove, unseal | a row opens under its origin and holds the password given last |
| Worker MCP | `internal/mcpserver`, `internal/approval`, `internal/loginapproval`, `internal/takeover` | approvals with a deadline; takeover flag | prepare, commit, cancel, login, takeover | an approval leads to one action at most, the one approved; a secret is submitted only to its origin |
| Browser manager | `internal/browser/manager.go`, `interactions.go`, `login.go` | connection, tabs, generation, element references, private contexts | navigate, snapshot, act, commit, tabs | it acts on what it showed; private contexts are shown as such and end with their tab; no call touches another's tab |
| URL policy | `internal/browser/url.go` | cache of hosts, lookups under way | validate | a decision belongs to a fresh lookup; those who give up end no lookup |
| Web | `web/` | a session cookie; lists and dialogs in the page | forwards to the control plane, polls | what is shown is the last answer |

**How they interact.** Users and MCP clients call the control plane over HTTP;
each handler reads rows, decides and saves, with no lock in between. The agent
polls the list of commands, works through it browser by browser, and reports
each result over HTTP; those handlers, too, read and then save. The agent's
calls to Docker can fail at any point and Docker acts by itself (restart
policies). The central MCP resolves a browser and forwards the call to its
worker; in the worker one mutex serialises all calls on Chromium, while pages
and the person at the screen change the pages at any time.

**What is hard.** Read-then-save handlers racing over one row; a list of
commands that grows stale while it is worked through (a browser may take 90 s);
answers lost after they took effect; crashes of agent, worker and control plane
between any two steps; containers restarted behind the agent's back; approvals
and saved logins that wait while pages change; one step of several (rotate a
token, dispose of a context, submit a form) failing after the ones before it
took effect. `PROJECT.json` lists these hazards line by line
with the properties that would catch them.

## 2. Plan

Done, in this order: `BrowserPromise` and `BrowserLifecycle`, `WorkerRecovery`,
`DockerRuntime`, `ApprovedActions`, `BrowserRegistry`, `UrlPolicy`,
`TokenPromise` and `OAuthTokens`, `CredentialVault` and `SavedLogin` (which
composes the vault with broker, worker and page), `BrowserTabs`, the theorems
about each of them, and `RuntimePromise`, the contract `BrowserLifecycle` and
`DockerRuntime` share. To come, the most important first:

1. `ViewerAccess`: tickets, sessions and human access links, with their ages
   and the loss of all of them when the control plane restarts; the one cookie
   a person's viewers share.
2. `AgentClaim`: two agents and the `agent` column of a row.
3. `Dashboard`: lists polled by the page whose answers arrive out of order.

Compositions left: `BrowserRegistry` over the promise of `BrowserPromise`;
`BrowserTabs` under `ApprovedActions`, whose set of tabs is fixed. Theorems
worth having: type correctness and the main invariant of each new module, and
the refinements.

## 3. What is modelled

### BrowserPromise and BrowserLifecycle

`BrowserPromise` is the contract of control plane and agent about one browser:
it is offered as running only while powered, its profile is destroyed only
after its owner asked, and its row goes last.

`BrowserLifecycle` is the code: user handlers (`ReadBrowser`, then
`PowerBrowser` or `DeleteBrowser`), the agent's calls with their handlers
(`HandlerRead`, `HandlerWrite`), and the agent's loop (`Poll` to `Answered`).
`box` is how far a runtime exists: none, volume, halted, half (browser only),
up. Two facts about PocketBase are used: `app.Save` writes only the columns
that differ from what was read, and an update of a removed row changes nothing.
Faults are engine errors, lost calls, rebuilt images, crashes of agent and
control plane. With `LateHandlers` a handler may outlive the agent's 15 s
client timeout and write later.

### WorkerRecovery

The counters of `recoverWorker` for one browser. Instants become ages that stop
at the bound they are compared with; identity and start time of a container
become whether they are still those of the worker there is. A probe is answered
in one step and judged in another, so that the worker may change in between.
The verdict is dated to the probe, and a failed probe answered before a restart
counts for the new worker, as the code has it. Its names (`RecoverySpec`,
`RecoveryInv`, ...) differ from those of `DockerRuntime`, so that `AgentProofs`
can extend both.

### RuntimePromise and DockerRuntime

`RuntimePromise` is what the engine owes the agent's loop about the runtime of
one browser. A pass moves it one rung of the ladder none, volume, halted, half,
up with each call, towards what it was begun for; it returns without an error
only over that, unless something happened to the containers since it began, and
from a deletion not even then; the profile goes in a deletion only, last of all.
`calm` says that nothing has happened since the pass began. When it
is lost, a worker that is replaced may leave the runtime further down, because
the browser it was to join has gone, and one removal may take two rungs, because
a container that came back after its stop is removed by force
(`removeOwnedContainer`).

`DockerRuntime` implements it: `Box` derives the rung from the two containers
and the volume, `Pass` what the pass was begun for from the place it has
reached, whatever is wanted by then. `BrowserLifecycle` keeps to it for each
browser (`Engine(b)`, `UsesEngine`), as its quiet case: there, nothing moves a
box behind the agent's back, and what Docker does by itself is
`DockerRuntime`'s.

Every call of `EnsureRunning`, `EnsureStopped` and `EnsureDeleted` to Docker as
one step, with Docker's restarts, an operator, rebuilt and pruned images,
refusals and deaths of the agent between any two. `fit` says what is right
about the worker's container: in the network of the browser there is, started
after it, of the image the tag names. Labels, resources and names of containers
are left out; `recoverWorker` is `WorkerRecovery`.

### ApprovedActions

The manager, the store of approvals and the pages. Each document has one
control and one field; a snapshot writes its generation into their
`data-navego-ref` attributes, which outlive the worker. `op` is the tool call
that holds the mutex; what it did before an error stays done. A commit takes its
approval before it waits for the mutex. A `Type` clicks what it was given
(`ClickEditable`), gives the reference to the editable element that has the
focus by then, if that is another one (`Redirect`), and only then compares its
role and types (`TypeText`); it may fail in between without a snapshot, and
`moved` remembers the references that were given away. `link` records whether the connection a
call uses is the one there was when its reference was looked up. Left out: the
position of elements, cloned nodes, Chromium's back-forward cache, secret
fields and redaction; tabs are a fixed set (a new tab is a new
document in one of them): tabs and private contexts are `BrowserTabs`', login
forms `SavedLogin`'s. `troubles` counts together what pages, people and faults
do to the calls.

### BrowserRegistry

The rows of all accounts: owner, name and whether a row is being deleted; the
other states are `BrowserLifecycle`'s. `ReserveBrowser` is one transaction. Every
other operation is a handler in steps: the account is loaded (`LoadAuth`), the
row is read (`ReadBrowser`), then saved (`RenameBrowser`, `PowerBrowser`,
`SaveDefault`, `DeleteBrowser` and, in a second save, `ClearDefault`). A late
`PowerBrowser` may bring a row back from "deleting", and only the partial unique
index (`Unique`) then keeps names apart. `runtime` is the set of browsers with
containers; the agent works on one command at a time. `SelectBrowser` is the
MCP tool that chooses a browser by name or id (`Resolve`). `RemoveAccount` has
the hook of `access_policy.go` and the cascade to the rows. Two assumptions: a
handler of a confirmation does not outlive the agent's call (`BrowserLifecycle`
is the module that lets handlers be late), and PocketBase checks that a related
row exists in one step with the save that names it, so that nothing is saved
for an account or a browser that is gone. `OAuthTokens` relies on the latter,
too: no code and no token is saved for an account that was removed.

### UrlPolicy

`PublicURLPolicy.Validate` for hosts that are names. The clock is read before
the lock (`Validate`); the first locked section takes one of three ways
(`UseCache`, `JoinLookup`, `LeadLookup`); the leader resolves with its own
context and publishes under the lock (`Resolve`, `Publish`); the others take
its result or give up. DNS changes its answers and may stay silent; contexts
end at any time. `published` and `latest` are history. Which address is public,
and the syntax of URLs, are pure and left out.

### TokenPromise and OAuthTokens

`TokenPromise` is what OAuth owes an account: credentials for it reach only
clients its owner approved, and a call is served in its name only while the
account exists and is trusted, for a client that was given credentials.

`OAuthTokens` is the code: authorization (`ApproveAuthorization`, `SaveGrant`),
the exchange of a code or a refresh token (`ExchangeCode`, `ExchangeRefresh`,
`Spend`, `CheckOwner`, `SaveAccess`, `SaveRefresh`, and `RefreshFails`, which
takes the access token back), revocation and verification, one read or save to
a step, for `Slot` handlers at a time. A token is named by the pair it belongs
to; redirect address and PKCE challenge stand for the client that has the
verifier; scopes, resources and the consent page are left out. Rows expire,
accounts are removed (with the cascade to their rows) or lose the trust of the
access policy, saves fail, answers are lost, the process restarts. `src`,
`root` and `holder` are history: what a pair was exchanged for, the code it all
began with, who was answered with it. `hurt` marks the codes whose tokens met a
fault and the pairs that two faults in a row (the second save and then the
deletion of the first row) or the end of the process left half, `doubted` the
accounts that lost their trust.

### CredentialVault and SavedLogin

`CredentialVault` is the table of saved accesses of one account. A creation or
deletion is one save; an update reads the row and seals a payload
(`UpdateCredential`), then saves the columns it changed (`SaveUpdate`). The
seal is ideal: it opens under the origin it was made for. `given` is history,
the password its owner gave last.

`SavedLogin` extends it with the login itself: the control plane's broker
(`Describe`, `ReadCredential`, commit) or the worker's own MCP server, with an
account of its manifest and an approval in between (`PrepareSavedLogin`,
`TakeApproval`, `ApprovalEnds`); and the worker's commit:
compare (`CommitSavedLogin`), for each of the two fields `Focus`, which looks
for it, and `InsertText`, which goes to whatever has the focus by then in
whatever document, then `Verify`, `Click`, `Settle`. The mutex is
`worker.doing`. The page may change its names and fields, or load
another document, between any two of these, connections end, operations are
cut, the control plane gives up after its 20 s, the worker restarts and counts
its generations anew. One tab, one address per origin; a
document that is loaded again carries no marks (Chromium's back-forward cache is
left out); the three controls of a
form have one name. Username and password are one secret, typed one after the
other; the worker verifies the password by its length only, so the value of
that field is left out. `submitted`, `astray` (what was typed on a page of
another origin), `cut` (clicks no snapshot followed) and `unseen` (clicks whose
snapshot failed) are history.

### BrowserTabs

The manager's `tabContexts` (`link`), the `browserContextID` and
`ownsBrowserContext` of each (`owns`), `privateTargets`, `privateContexts` and
`activeTarget`, beside Chromium's pages and private contexts. `op` is the call
that holds the mutex: listing, opening, opening privately, switching, closing,
each of its calls to Chromium a step that may fail, while pages open and close
others between them. What is assumed of chromedp is what the code says of it:
the context attached to a tab may end by itself, and cancelling it closes the
tab (the comment at `manager.go:724`); a private context is made with
`disposeOnDetach` over the active tab's connection, so it may go with that one,
and goes at the latest with the last. `owner`, `closed` and `excused` are
history. Left out: addresses, the cap of 50 on the listing, the preference for
a page that is not blank when the manager connects.

## 4. What the runs show

| Run | Instance | Shows |
| --- | --- | --- |
| `lifecycle` | 2 browsers, 2 user handlers at once, 3 requests, 2 faults | `NoOrphan`, `StoppedIsHalted` while commands grow stale behind one another, `Convergence` (record and runtime agree again once it is quiet), `ImplementsPromise` ("running" is said only of a runtime that is up, the profile goes only after a deletion was asked) |
| `lifecycle_late` | 1 browser, late handlers | `ProfileKept` needs no assumption on late handlers |
| `lifecycle_desired` | 1 browser | **violated**: `DesiredStateKept`, see below |
| `recovery` | 3 probes, grace 3 | `RestartJustified`, `AttemptsSpaced`, `HungWorkerRecovers` |
| `docker` | 3 faults, 1 change of mind | `ReportTruthful`, `PassIdempotent`, `OldWorkerKept`, `Settles`, `ImplementsPromise` (one rung with each call, no return short of what was asked unless disturbed) |
| `approvals` | 2 tabs, 1 approval, 2 snapshots in each of 2 lives, 1 change, fault or focus that went elsewhere | `ApprovedOnce`, `SeenBefore` (no element marked by an earlier life only is acted on), `NotOvertaken`, `CommitAsApproved`, and `Decided`: a commit that took its approval gets the mutex and is answered |
| `approvals_fields` | 1 tab, 1 approval | **violated**: `FieldsAsApproved`, see below |
| `tabs` | 4 tabs, a limit of 3, 2 private contexts, 1 fault | `ClosedWhole` (what was closed is gone, and with an owner its private context), `SaidPrivate` (whoever lists the tabs is told of every private one), `NoBystander` and `KeepsItsConnection` (no call closes a tab it is not about, or ends the connection it works on) |
| `registry` | 2 accounts, 3 browsers, limits of 2, 2 handlers, 4 requests | `Capacity`, `NamesDistinct`, and `DefaultLetGo` (a deleted browser does not stay the default) |
| `policy` | 3 requests for 1 host, TTL 1, clock to 2, 1 change of DNS | `SingleFlight`, `RefusalNotCached`, `AllowedIsFresh`, `WaitersDoNotCancel`, and `AllAnswered`, though DNS may be silent and leaders be cancelled |
| `oauth` | 1 account, 2 clients, 1 code, 3 pairs, 2 requests at once | `RemovedHasNothing`, `WholePairs` (when the second save of a pair fails the first is taken back: half a pair is left only by the failure of that, too, or by the end of the process), `NotStranded` (overlapping exchanges do not take a client's last token), `SpentForGood`, `FamilyEnds`, `ImplementsPromise` |
| `login` | 2 logins, 1 access, 2 origins, 2 passwords, 2 updates, 3 snapshots in each of 2 lives, 2 troubles | `Intact` (a row opens and holds the password given last), `SecretsAtHome` (a secret is submitted only at home; elsewhere at most one value of a login is typed, into a document that came between focus and text), `OutcomeTruthful` (success and refusal are told truthfully), `NotTwice` (what one snapshot showed is submitted again only after a click that was cut off, or by a login described after the snapshot behind the click failed) |

Why these bounds: a race over one row needs two handlers and the agent; a
stale command needs a second browser; one fault starts each recovery and a
second one interrupts it, the third in `docker` interrupts the recovery from
the second. Numbers of generations repeat as soon as there are two lives with
two snapshots each. A name is given anew with three browsers and four requests
(reserve, delete, reserve, and the late save). Three requests for a host are a
leader, a follower and one that comes with an old clock; hosts do not share
anything, so one is enough. Three pairs are one for each of two exchanges that
overlap and a rotation of either. In `login` two logins race, two updates
cross, and a trouble meets the recovery from another; a third generation lets a
form be described, submitted and described again. Four tabs are an owner, its
popup, a bystander and the tab shown. In `registry` both limits are 2 and there
is one name, so that the limit of an account apart from the total, and the
folding of names in `Resolve`, are exercised by the proofs only. `oauth`, `login` and `tabs` state safety
only and use the symmetry of their identifiers; no run with a liveness property
uses symmetry.

The inductive invariants (`IInv`, `BoxInv`, `RecoveryInv`, and `TypeOK`) and
`UsesEngine` were checked by TLC on these instances before they were proved, and
are not checked by the runs: each is a theorem, like `RunningHasEndpoint`,
`RunningIsUp` and `DefaultOwned`. The proofs remove the bounds from everything
that is not liveness.

**Fairness.** In `BrowserLifecycle`: the agent polls on a 2 s ticker and is
restarted (`restart: unless-stopped` in `compose.yaml`), handlers that were
entered finish, telemetry falls due by the clock; users owe nothing. In
`WorkerRecovery`: probes happen with every poll, are judged, time passes. In
`DockerRuntime`: the agent makes its next call, a started browser becomes
healthy unless something happens to it. In `ApprovedActions`: a call's steps
have deadlines (`operationContext`), so it ends; Go's mutex hands itself to a
waiter that has waited a millisecond, hence strong fairness of `Commit`. In
`BrowserRegistry`: handlers end, the agent polls, and neither the engine nor a
confirmation fails every time (strong fairness: the agent retries at each
poll). In `UrlPolicy`: goroutines run and every context has a deadline
(`requestPolicyTimeout`); DNS owes nothing. `OAuthTokens`, `SavedLogin` and
`BrowserTabs` state no liveness: every handler of theirs may fail at each step,
and nothing is retried by the code.

### Disagreements found

- **`lifecycle_desired`**: the user's wish is lost, against "O banco guarda o
  estado desejado" (`docs/dashboard-platform-plan.md:263`). TLC shows the
  shortest way: a power request that read the row before a deletion was saved
  writes its state over "deleting" (`app.go:339`), though the user was told the
  deletion was scheduled (`app.go:363`). The same property fails by two more: an agent's
  report that read the row before the user's stop saves over it (`app.go:443`),
  and an error report is accepted in every state but "deleting", so the failure
  of an earlier start overwrites "stopping" and the next pass starts the
  browser the user stopped (`validAgentTransition`, `app.go:488`).
- **`approvals_fields`**: only fields that were filled are bound to an approval
  (`manager.go:627`); one filled later is submitted, against "todos os campos
  são comparados novamente" (`docs/go-rewrite-plan.md:456`).

Further weaknesses, which the properties allow for by name:

- A name that differs from another only in case selects the older of the two
  browsers (`resolveBrowser` compares with `strings.EqualFold`, the index does
  not).
- A default that moved while `deleteBrowser` was under way may be cleared by it
  (`DefaultLetGo` and `DefaultOwned` hold nonetheless).
- A request that leads a lookup gives its own cancellation to its followers,
  who then fail though their contexts are alive (`WaitersDoNotCancel` says this
  is the only way).
- Two exchanges of one code or refresh token that overlap may both be answered
  (`SpentForGood` speaks of those that come later).
- Two updates of one saved access that cross may bring an older password back,
  when the later one left it blank, or leave a payload sealed for another
  origin, which no longer opens (`crossed` in `Intact`); compare
  `docs/implementation-status.md:42`, an edit with an empty password keeps the
  value.
- A worker's restart counts generations anew, so that a login described before
  it may be committed after it if the page was marked again (`SameForm` speaks
  of one life of the worker).
- After the click of a saved login its snapshot may fail. The caller is told
  "failed", but the references survive (`snapshotLocked`, `login.go:202`), and
  a login that is described from then on submits the same form again (`unseen`
  in `NotTwice`); one described before is refused by its generation.
- A saved value is typed by commands that name neither an element nor an origin
  (`login.go:159-176`): a document that takes the place of the compared one
  between the focus of a field and its text receives the username or the
  password, though nothing of it is submitted by the worker (`astray` in
  `SecretsAtHome`). The password's field is verified by its length only.
- `Type` gives its reference to the editable element that has the focus after
  its click (`manager.go:478-481`) and may fail afterwards without a snapshot
  (`manager.go:499`, `:561`). An approval prepared on the reference is then
  compared on an element that nobody was shown with it (`moved` in
  `CommitAsApproved`).
- An exchange that meets two faults in a row, the refresh token cannot be saved
  and the access token cannot be deleted, leaves an access token of use that
  nobody was told of; the deletion's error is dropped (`oauth.go:401`, `hurt` in
  `WholePairs`).
- A private tab whose connection ended and which is attached again no longer
  owns its context: closing it leaves the context, and what is in it, to the
  end of the connection (`excused` in `ClosedWhole`).
- An owner closed while its popup is shown ends the connection the manager
  works on; the next call finds it gone and cancels every tab
  (`KeepsItsConnection`). So may a private tab that could not be opened.
- Closing a tab whose connection had ended reports success and the page stays.
- A private context goes with the tab it was opened from, if that one's
  connection is closed first (`maker` in `NoBystander`).

With `LateHandlers` all of `NoOrphan`, `RunningIsUp`, `StoppedIsHalted`,
`RunningHasEndpoint` and `Convergence` can fail: a report that lands after the
agent moved on is accepted by state alone. They hold, and are proved, for
handlers that end with their call.

## 5. What is proved

All theorems are for every value of the constants, bounds included.

| Module | Theorem | Says |
| --- | --- | --- |
| `BrowserLifecycleProofs` | `TypeCorrect`, `InvariantHolds`, `SafetyHolds`, `RunningUp`, `StoppedHalted`, `EndpointSet`, `ProfileIsKept` | types; `NoOrphan`, `RunningIsUp`, `StoppedIsHalted`, `RunningHasEndpoint` without late handlers; `ProfileKept` with or without |
| | `LifecycleRefines` | `BrowserLifecycle` implements `BrowserPromise`, without late handlers |
| | `EngineIsUsed` | its engine keeps to `RuntimePromise` for each browser, with or without late handlers |
| `AgentProofs` | `EngineRefines` | `DockerRuntime` implements `RuntimePromise` |
| | `CountersAreHonest`, `RestartsAreJustified`, `AttemptsAreSpaced` | no restart without a row of failures of this worker, none too soon after another |
| | `PassKeepsItsWord`, `ReportsAreTruthful`, `PassesAreIdempotent`, `OldWorkerIsKept` | "running" is reported over a usable runtime; a pass leaves alone what is in order; an outdated worker goes only when its successor can be made |
| `ApprovedActionsProofs` | `ActionsAreBound`, `ApprovedOnceHolds`, `ElementsWereSeen`, `NothingOvertakes`, `CommitsAreAsApproved` | an approval leads to one action at most, the one approved, on what was shown and not overtaken, except for a reference that a failed Type gave to another element |
| `BrowserRegistryProofs` | `RegistryHolds`, `CapacityHolds`, `NamesHold`, `DefaultsHold` | every runtime has its row and both limits hold; live names are distinct; a default is the account's own |
| `UrlPolicyProofs` | `PolicyHolds`, `SingleFlightHolds`, `RefusalsHold`, `FreshnessHolds`, `WaitersHold` | one lookup of a host at a time; the cache holds latest results only; nothing passes on an old answer; who waits ends nobody's lookup |
| `OAuthTokensProofs` | `InvariantHolds`, `RemovedHolds`, `WholeHolds`, `NotStrandedHolds`, `SpentHolds`, `FamiliesEnd` | removed accounts leave nothing of use; half pairs come from two faults in a row or the end of the process only, stranded clients from a fault or a lost answer, never from exchanges that overlap; what was spent or is over stays so |
| | `PromiseKept` | `OAuthTokens` implements `TokenPromise` |
| `SavedLoginProofs` | `InvariantHolds`, `IntactHolds`, `HomeHolds`, `OutcomesHold`, `NotTwiceHolds` | rows hold what was given unless updates crossed; secrets are submitted only at their origin, and at most one value of a login is typed elsewhere; outcomes are true; a form is submitted again only after a cut click or, by a later description, after a failed snapshot |
| `BrowserTabsProofs` | `InvariantHolds`, `ClosedWholeHolds`, `SaidPrivateHolds`, `NoBystanderHolds`, `KeepsItsConnectionHolds` | what is closed is gone, with an owner its private context; private tabs are listed as such; no call closes a tab it is not about, or ends the connection it works on |

**Lifecycle.** The safety invariants are not inductive: that "running" is saved
only over a started runtime depends on what the agent did between its poll and
the report. `IInv` adds what each actor may rely on: `AgentInv` (a command of
the pass still limits what the record can be: nobody else writes "running",
"stopped" or "removed"), `CallInv` (a call in flight tells the truth about the
box, and since its handler read the record only users wrote to it), `LateInv`
(without late handlers a handler outlives its call only while the agent is
down), `UserInv` and `DoomedInv`. `ProfileKept` needs only `DeletionAsked`. The
refinement maps the state column to pending, offered or removed and the box to
none, kept or up; `IInv` gives the guards of the abstract actions.

**Recovery.** `CountersHonest` compares the counters with a history of the
worker's failures: they never claim more, or older ones.

**Runtime.** `PassInv` says what the agent has seen to at each of its calls as
long as nothing disturbs the pass; `TidyInv` that a tidy pass meets no reason
to act; `ProfileFirst` that containers come after the volume.
The refinement adds `BoxInv`: a worker needs the profile too, and a browser is
removed, or stopped while all is calm, after its worker. Then each call to
Docker is one move on the ladder, each event behind the agent's back a `Shake`,
and a pass that
returns is over its goal unless `calm` was lost. `EngineIsUsed` reads the same
promise in the lifecycle: a command that is taken up begins a pass, the engine's
steps are its moves, and the call the agent then makes to the control plane says
what it returned over. So the two models agree on what a call may do and on what
a return means; that "running" stays true afterwards is said by the lifecycle
only while nothing moves the containers behind the agent's back.

**Actions.** `HolderOK` says what the holder of the mutex may rely on, `RefsOK`
that an element with a reference of this life got it in this life, from a
snapshot or from a Type,
`Numbered` that the generation tells whether a page was shown since an approval
was prepared.

**Registry.** `RequestsOwn` says that a request's browser, once read, keeps its
owner whatever is saved since, because ids are not given twice; that a
runtime is gone while its deletion is confirmed makes `Capacity` survive the
removal of the row; the counting rests on the library's facts on cardinality.

**URL policy.** `LeaderIsPending` ties who resolves to who is pending and
empties the cache meanwhile, `LookupsOpen` ties lookups to their leaders, and
`WaitersFollow` says a request never follows a lookup older than its clock;
`EntriesArePublished` dates every entry.

**OAuth.** `IInv` leads every row and every handler back to what an owner
approved (`GrantInv`, `PairInv`, `RequestInv`), keeps apart the pairs that two
handlers are saving, and knows who was ever doubted. The action properties rest
on `RowsGrow` (rows only go from none to live to dead) and on what a handler's
earlier read lets it do later (`Flow`); `NotStranded` is preserved because of
two exchanges that overlap the one that spends the token last still has its
pair to save. The refinement takes the approvals from the codes, the entitled
clients from the pairs that were answered; `IInv` gives the guards.

**Saved logins.** `VaultInv` says that an update nobody overtook has seen the
row as it is. `CallInv` says what a login knows at each of its places,
`WorkInv` what the worker's commit may rely on: its generation stays, and where
it still finds the marked elements is the address it compared, because a new
document carries no marks. Two parts of it are about time: `OnceInv` says that
until its click the form of a commit may still be submitted (`Submittable`), and
`StraightInv` that after a stray value the worker finds nothing any more, so
that it neither types again nor clicks. `SubmittedInv` dates what was submitted
before the present references, unless its click was cut off, its snapshot
failed or it is being settled.

**Tabs.** `LinkInv` says that who owns a private context is attached and has it
listed, `KnownInv` and `HeldInv` that no private context is forgotten: its owner
has it, or the call under way has it in hand, or it was given up for a reason
`excused` names. `PrivateOp` and `CloseOp` say what a call knows at each of its
steps, such as that the tab shown is not the one it closes, nor one of the
context it is about to dispose of. What Chromium may lose between two steps is
one lemma (`Shrinks`): pages close and contexts end, and nothing comes back.
`ClosedWhole` is part of the invariant, the two action properties follow from
what the closing call knows.

The proofs assume of the constants what the modules' ASSUMEs name, such as that
identifiers differ from the model's "none", and that bounds are natural
numbers.

Only model-checked: the liveness properties `Convergence`,
`HungWorkerRecovers`, `Settles`, `Decided`, `DefaultLetGo`, `AllAnswered` (fairness is beyond the prover).

## 6. What is not modelled

`components` in `PROJECT.json` has every part and its reason. The larger ones:

- The viewer's tickets and sessions and the human access links: maps under one
  mutex, first in the plan among the parts that are left.
- What the central MCP does besides choosing a browser and brokering logins:
  it forwards one call and writes an audit entry nothing reads back.
- The takeover flag: cooperative, it forbids nothing to either side.
- Several agents: `compose.yaml` deploys one.
- The worker's HTTP server and OAuth resource server, configuration, the
  programs' wiring, the web application and the deployment: requests without
  state of their own, libraries, or the framework's state. The limits, timeouts
  and restart policies set there are constants and fairness of the models.
- A Docker call that never returns (`docker_engine.go:226` has no deadline of
  its own): every call of the models returns.

Pure formatting, schemas of tools, HTML, validation of URLs and cryptography
(taken as ideal) stay out.
