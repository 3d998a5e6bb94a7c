----------------------------- MODULE SavedLogin -----------------------------
(***************************************************************************)
(* A login with a saved access, through three parties:                     *)
(*   - the control plane (internal/control/saved_login.go) asks the worker *)
(*     which form is meant, opens the access saved for its exact origin    *)
(*     (CredentialVault) and has the worker commit it; or the worker's own *)
(*     MCP server does, with accounts of its manifest and an approval      *)
(*     between the two calls (internal/mcpserver, internal/loginapproval); *)
(*   - the worker (internal/browser/login.go) describes the form and later *)
(*     validates, fills, verifies and clicks it, under its mutex, each of  *)
(*     these in commands of its own;                                       *)
(*   - the page, which does as it likes between any two of its steps.      *)
(* One tab; the addresses of one origin are one address, and a document    *)
(* that is loaded again carries no references.  References carry the       *)
(* generation of their snapshot, and the names of the three controls are   *)
(* one name.  Username and password are one secret, typed one after the    *)
(* other; the worker compares no more of the password's field than the     *)
(* length of its value, so that value is left out.                         *)
(***************************************************************************)
EXTENDS CredentialVault

CONSTANTS
  Urls,           \* addresses of pages
  OriginOf,       \* origin of each; None when it is not HTTPS
  Broken,         \* Chromium's own error page
  Names,          \* names of the controls of a form
  Calls,          \* logins, each called once
  LocalPassword,  \* what the worker's manifest has for LocalOrigins
  LocalOrigins,
  MaxGeneration,  \* bound: snapshots in a life of the worker
  Lives,          \* bound: lives of the worker
  MaxTrouble      \* bound: edits, changes by the page, cut operations, lost
                  \* connections and answers, and restarts together

ASSUME LoginAssumption ==
  /\ OriginOf \in [Urls -> Origins \cup {None}]
  /\ Broken \in Urls /\ OriginOf[Broken] = None
  /\ None \notin Urls \cup Names \cup Calls
  /\ LocalPassword # None /\ Names # {}
  /\ LocalOrigins \subseteq Origins
  /\ MaxGeneration \in Nat /\ MaxTrouble \in Nat /\ Lives \in Nat \ {0}

VARIABLES
  page,       \* the document: address, names, marker and username's field
  worker,     \* generation, references, connection and the commit it works on
  call,       \* the logins
  submitted,  \* history: what was submitted, where, for which call, after which
  astray,     \* history: what was typed on a page of another origin
  cut,        \* history: calls whose click no snapshot followed
  unseen,     \* history: calls whose click a snapshot followed that failed
  life, trouble

history == <<submitted, astray, cut, unseen>>
login == <<page, worker, call, history, life, trouble>>
vars == <<vault, login>>

Generation == 0 .. MaxGeneration
Secret == Passwords \cup {LocalPassword}
Fields == {"username", "password"}

\* marker: the generation whose references are attributes of its elements;
\* typed: the secret whose username is in the username's field, or None.
Page == [url : Urls, name : Names, marker : Generation, typed : Secret \cup {None}]

\* refs: the generation of the references, 0 when there are none; name: the
\* names they were seen with; doing, at, field: the commit under way.
Worker == [generation : Generation, refs : Generation, name : Names \cup {None},
           connected : BOOLEAN, doing : Calls \cup {None}, field : Fields,
           at : {"idle", "focusing", "typing", "verifying", "clicking", "settling"}]

\* The target of a call (SavedLoginTarget), its secret, the origin that is kept
\* for, and what its caller was told.
Call == [at : {"new", "described", "pending", "ready", "committing", "over"},
         url : Urls \cup {None}, origin : Origins \cup {None}, name : Names \cup {None},
         generation : Generation, ref : Generation,
         secret : Secret \cup {None}, home : Origins \cup {None},
         told : {"nothing", "refused", "failed", "submitted"}]

New == [at |-> "new", url |-> None, origin |-> None, name |-> None, generation |-> 0,
        ref |-> 0, secret |-> None, home |-> None, told |-> "nothing"]
Started == [generation |-> 0, refs |-> 0, name |-> None, connected |-> FALSE,
            doing |-> None, field |-> "username", at |-> "idle"]

\* A document shows the same names whenever it is loaded.
Document(u) == [url |-> u, name |-> CHOOSE n \in Names : TRUE, marker |-> 0, typed |-> None]

Init ==
  /\ VaultInit
  /\ page \in {Document(u) : u \in Urls}
  /\ worker = Started
  /\ call = [k \in Calls |-> New]
  /\ submitted = {} /\ astray = {} /\ cut = {} /\ unseen = {}
  /\ life = 1 /\ trouble = 0

-----------------------------------------------------------------------------
At(k, place) == call[k].at = place
Idle == worker.at = "idle"
Trouble == edits + trouble < MaxTrouble /\ trouble' = trouble + 1

Told(what) == [New EXCEPT !.at = "over", !.told = what]
Tells(k, what) == call' = [call EXCEPT ![k] = Told(what)]

\* A connection that is not there is made, and the references are forgotten.
Connected(w) == IF w.connected THEN w ELSE [w EXCEPT !.connected = TRUE, !.refs = 0]
Released(w) == [w EXCEPT !.at = "idle", !.doing = None, !.field = "username"]

\* The page navigates, renders itself anew, or changes what was typed.
PageMoves ==
  /\ Trouble
  /\ page' \in {Document(u) : u \in Urls}
               \cup {[page EXCEPT !.name = n] : n \in Names}
               \cup {[page EXCEPT !.typed = None]}
  /\ page' # page
  /\ UNCHANGED <<vault, worker, call, history, life>>

\* snapshotLocked.  The generation moves on at once; if the script fails, the
\* references stay, whether it has marked the page or not.
Snapshots(w) == [w EXCEPT !.generation = @ + 1, !.refs = w.generation + 1, !.name = page.name]
Marks(w) == page' = [page EXCEPT !.marker = w.generation + 1]

\* Every other tool that ends in a snapshot.
Snapshot ==
  /\ Idle /\ worker.generation < MaxGeneration
  /\ worker' = Snapshots(Connected(worker))
  /\ Marks(worker)
  /\ UNCHANGED <<vault, call, history, life, trouble>>

\* Status, Screenshot, PDF: they connect and take no snapshot.
Status ==
  /\ Idle
  /\ worker' = Connected(worker)
  /\ UNCHANGED <<vault, page, call, history, life, trouble>>

SnapshotFails ==
  /\ Trouble
  /\ Idle /\ worker.generation < MaxGeneration
  /\ worker' = [Connected(worker) EXCEPT !.generation = @ + 1]
  /\ Marks(worker) \/ UNCHANGED page
  /\ UNCHANGED <<vault, call, history, life>>

-----------------------------------------------------------------------------
\* DescribeSavedLogin: the references as they were seen, the address as it is.
\* They are looked up before the connection is made.
Describes(k, place) ==
  /\ Idle /\ At(k, "new")
  /\ worker.refs # 0
  /\ OriginOf[page.url] # None
  /\ worker' = Connected(worker)
  /\ call' = [call EXCEPT ![k] =
       [New EXCEPT !.at = place, !.url = page.url, !.origin = OriginOf[page.url],
          !.name = worker.name, !.generation = worker.generation,
          !.ref = worker.refs]]
  /\ UNCHANGED <<vault, page, history, life, trouble>>

\* executeSavedLogin, to the answer of the worker.
Describe(k) == Describes(k, "described")

\* browser_prepare_saved_login: the manifest has an account for the origin, and
\* the approval waits for the user.
PrepareSavedLogin(k) ==
  /\ OriginOf[page.url] \in LocalOrigins
  /\ Describes(k, "pending")

Receives(k, w, o) ==
  call' = [call EXCEPT ![k].at = "ready", ![k].secret = w, ![k].home = o]

\* savedCredential: the row of the exact origin, if its payload opens.
SavedCredential(k) ==
  \E i \in Ids : /\ Live(i) /\ row[i].origin = call[k].origin
                 /\ Opens(row[i].payload, row[i].origin)
                 /\ Receives(k, row[i].payload.password, row[i].payload.origin)

ReadCredential(k) ==
  /\ At(k, "described")
  /\ SavedCredential(k)
  /\ UNCHANGED <<vault, page, worker, history, life, trouble>>

\* There is none, it does not open, or the worker did not answer.
CredentialRefused(k) ==
  /\ At(k, "described")
  /\ Tells(k, "refused")
  /\ UNCHANGED <<vault, page, worker, history, life, trouble>>

\* browser_commit_saved_login: the approval is taken, the secret read.
TakeApproval(k) ==
  /\ At(k, "pending")
  /\ Receives(k, LocalPassword, call[k].origin)
  /\ UNCHANGED <<vault, page, worker, history, life, trouble>>

\* browser_cancel_action, or two minutes have passed.
ApprovalEnds(k) ==
  /\ At(k, "pending")
  /\ Tells(k, "refused")
  /\ UNCHANGED <<vault, page, worker, history, life, trouble>>

-----------------------------------------------------------------------------
\* Mutants: the generation is not compared; the address is not.
MatchesAnyGeneration(k) ==
  /\ worker.refs = call[k].ref /\ worker.name = call[k].name
  /\ page.marker = call[k].ref /\ page.url = call[k].url /\ page.name = call[k].name
MatchesAnywhere(k) ==
  /\ worker.generation = call[k].generation
  /\ worker.refs = call[k].ref /\ worker.name = call[k].name
  /\ page.marker = call[k].ref /\ page.name = call[k].name

\* CommitSavedLogin, to the end of the validation script: generation,
\* references and the names they were seen with, then the elements themselves,
\* their names and the address.
Matches(k) ==
  /\ worker.generation = call[k].generation
  /\ worker.refs = call[k].ref
  /\ worker.name = call[k].name
  /\ page.marker = call[k].ref
  /\ page.url = call[k].url
  /\ page.name = call[k].name

CommitSavedLogin(k) ==
  /\ Idle /\ At(k, "ready")
  /\ worker.generation < MaxGeneration
  /\ IF Matches(k)
     THEN /\ worker' = [Connected(worker) EXCEPT !.doing = k, !.at = "focusing"]
          /\ call' = [call EXCEPT ![k].at = "committing"]
     ELSE /\ worker' = Connected(worker)
          /\ Tells(k, "failed")
  /\ UNCHANGED <<vault, page, history, life, trouble>>

Doing(place) == worker.at = place
Mine == call[worker.doing]
Found == page.marker = Mine.ref
Cuts == cut' = IF Doing("settling") THEN cut \cup {worker.doing} ELSE cut
Goes(place) == worker' = [worker EXCEPT !.at = place]

\* The caller is told, unless it has given up.
Answers(what) ==
  IF At(worker.doing, "committing") THEN Tells(worker.doing, what) ELSE UNCHANGED call

\* Each field is looked for and given the focus ...
Focus ==
  /\ Doing("focusing")
  /\ Found
  /\ Goes("typing")
  /\ UNCHANGED <<vault, page, call, history, life, trouble>>

\* ... and then Ctrl+A, Backspace and InsertText go to whatever has it by then,
\* in whatever document: they empty what they meet, and the text may end up in
\* its field, in the other one or nowhere.  A page that changes between them
\* might as well have changed before or after.
Filled ==
  {None, page.typed} \cup (IF worker.field = "username" THEN {Mine.secret} ELSE {})

Strays ==
  astray' = IF OriginOf[page.url] = Mine.home THEN astray
            ELSE astray \cup {[call |-> worker.doing, field |-> worker.field, found |-> Found]}

InsertText ==
  /\ Doing("typing")
  /\ page' \in {[page EXCEPT !.typed = x] : x \in Filled}
  /\ worker' = IF worker.field = "username"
               THEN [worker EXCEPT !.at = "focusing", !.field = "password"]
               ELSE [worker EXCEPT !.at = "verifying"]
  /\ Strays
  /\ UNCHANGED <<vault, call, submitted, cut, unseen, life, trouble>>

\* The username as it is, the password by its length.
Verify ==
  /\ Doing("verifying")
  /\ Found
  /\ page.typed = Mine.secret
  /\ Goes("clicking")
  /\ UNCHANGED <<vault, page, call, history, life, trouble>>

\* The click, and what the page makes of it while the worker sleeps.
Click ==
  /\ Doing("clicking")
  /\ Found
  /\ submitted' = submitted \cup
       {[call |-> worker.doing, target |-> Mine, url |-> page.url, typed |-> page.typed,
         life |-> life, after |-> {x.call : x \in submitted}]}
  /\ page' \in {page, [page EXCEPT !.typed = None]}
               \cup {Document(u) : u \in Urls}
  /\ Goes("settling")
  /\ UNCHANGED <<vault, call, astray, cut, unseen, life, trouble>>

\* The snapshot, and SavedLoginPageError.
Settle ==
  /\ Doing("settling")
  /\ worker' = Released(Snapshots(worker))
  /\ Marks(worker)
  /\ Answers(IF page.url = Broken THEN "failed" ELSE "submitted")
  /\ UNCHANGED <<vault, history, life, trouble>>

SettleFails ==
  /\ Trouble
  /\ Doing("settling")
  /\ worker' = [Released(worker) EXCEPT !.generation = @ + 1]
  /\ Marks(worker) \/ UNCHANGED page
  /\ Answers("failed")
  /\ unseen' = unseen \cup {worker.doing}
  /\ UNCHANGED <<vault, submitted, astray, cut, life>>

\* What a commit fails of without any fault: an element is not there, a field
\* holds something else, or its caller gave up.
Hopeless ==
  \/ Doing("verifying")
  \/ worker.at \in {"focusing", "clicking"} /\ ~Found
  \/ ~At(worker.doing, "committing")
Spares == IF Hopeless THEN UNCHANGED trouble ELSE Trouble

\* Mutant: the caller may try again.
CommitFailsRefused ==
  /\ ~Idle
  /\ Spares
  /\ Cuts
  /\ worker' = Released(worker)
  /\ Answers("refused")
  /\ UNCHANGED <<vault, page, submitted, astray, unseen, life>>

\* One of these, or the operation's context ends.
CommitFails ==
  /\ ~Idle
  /\ Spares
  /\ Cuts
  /\ worker' = Released(worker)
  /\ Answers("failed")
  /\ UNCHANGED <<vault, page, submitted, astray, unseen, life>>

\* The control plane's client gives up after 20 seconds, or the answer is lost.
GiveUp(k) ==
  /\ Trouble
  /\ call[k].at \in {"ready", "committing"}
  /\ call' = [call EXCEPT ![k].at = "over", ![k].told = "failed"]
  /\ UNCHANGED <<vault, page, worker, history, life>>

\* The connection to Chromium ends, and with it what was under way.
Disconnect ==
  /\ Trouble
  /\ worker.connected
  /\ worker' = [Released(worker) EXCEPT !.connected = FALSE]
  /\ Cuts
  /\ IF Idle THEN UNCHANGED call ELSE Answers("failed")
  /\ UNCHANGED <<vault, page, submitted, astray, unseen, life>>

\* The worker restarts; the page stays as it is, while pending approvals and
\* the calls of its own MCP server end.
Restart ==
  /\ life < Lives
  /\ Trouble
  /\ life' = life + 1
  /\ worker' = Started
  /\ Cuts
  /\ call' = [k \in Calls |->
       CASE At(k, "pending") -> Told("refused")
         [] At(k, "committing") \/ (At(k, "ready") /\ call[k].secret = LocalPassword)
            -> Told("failed")
         [] OTHER -> call[k]]
  /\ UNCHANGED <<vault, page, submitted, astray, unseen>>

LoginNext ==
  \/ PageMoves \/ Snapshot \/ SnapshotFails \/ Status
  \/ \E k \in Calls :
       \/ Describe(k) \/ ReadCredential(k) \/ CredentialRefused(k)
       \/ PrepareSavedLogin(k) \/ TakeApproval(k) \/ ApprovalEnds(k)
       \/ CommitSavedLogin(k) \/ GiveUp(k)
  \/ Focus \/ InsertText \/ Verify \/ Click \/ Settle \/ SettleFails \/ CommitFails
  \/ Disconnect \/ Restart

Next ==
  \/ LoginNext
  \/ VaultNext /\ UNCHANGED login /\ edits' + trouble <= MaxTrouble

Spec == Init /\ [][Next]_vars

-----------------------------------------------------------------------------
\* The variables' types; a login under way has an HTTPS origin, the worker's
\* references are of a generation it has had, and it works on a call or idles.
TypeOK ==
  /\ page \in Page
  /\ worker \in Worker
  /\ worker.refs <= worker.generation
  /\ Idle <=> worker.doing = None
  /\ call \in [Calls -> Call]
  /\ \A k \in Calls : call[k].at \notin {"new", "over"} => call[k].origin \in Origins
  /\ submitted \subseteq
       [call : Calls, target : Call, url : Urls, typed : Secret \cup {None},
        life : 1 .. Lives, after : SUBSET Calls]
  /\ astray \subseteq [call : Calls, field : Fields, found : BOOLEAN]
  /\ cut \subseteq Calls /\ unseen \subseteq Calls
  /\ life \in 1 .. Lives
  /\ trouble \in 0 .. MaxTrouble

\* A secret is submitted only on a page of the origin it is kept for, through
\* every change of page, access, worker and connection on the way, and unless
\* the page changed its field, with the username of that secret.  It is typed
\* elsewhere only into a document that came in the instant between the focus of
\* a field and its text: not more of a login than that one value, and nothing of
\* that login is submitted.
SecretsAtHome ==
  /\ \A x \in submitted :
       /\ OriginOf[x.url] = x.target.home
       /\ x.typed \in {x.target.secret, None}
  /\ \A x \in astray :
       /\ ~x.found
       /\ \A y \in astray : y.call = x.call => y = x
       /\ \A y \in submitted : y.call # x.call

\* Who is told that a form was submitted can rely on it, and so can who is told
\* of a refusal; only a failure leaves it open.
OutcomeTruthful == \A k \in Calls :
  /\ call[k].told = "submitted" => \E x \in submitted : x.call = k
  /\ call[k].told = "refused" => \A x \in submitted : x.call # k

\* A login submits its form once, and the form it saw is submitted by no later
\* login in that life of the worker before another snapshot has shown it, unless
\* the click was cut off before any snapshot began.  When the snapshot after the
\* click fails, the references survive it: then only a login that was described
\* afterwards submits the form again, never one that had been waiting.
SameForm(x, y) == x.life = y.life /\ x.target.ref = y.target.ref

NotTwice == \A x, y \in submitted :
  x.call \in y.after /\ SameForm(x, y) =>
    \/ x.call \in cut
    \/ x.call \in unseen /\ x.target.generation < y.target.generation

-----------------------------------------------------------------------------
\* What these rest on.  A login under way knows an HTTPS target, and has the
\* secret of its origin once it is ready; its caller is told when it is over.
HasTarget(c) ==
  /\ c.url \in Urls /\ c.origin = OriginOf[c.url] /\ c.origin # None
  /\ c.ref # 0 /\ c.ref <= c.generation
HasSecret(c) == HasTarget(c) /\ c.home = c.origin /\ c.secret \in Secret

CallOK(c) ==
  /\ c.at \notin {"new", "over"} => HasTarget(c)
  /\ c.at \in {"ready", "committing"} => HasSecret(c)
  /\ c.at = "over" <=> c.told # "nothing"

CallInv == \A k \in Calls : CallOK(call[k])

\* What was told, or will be, of a call that reached its commit.
Outcome(k) == At(k, "committing") \/ call[k].told \in {"failed", "submitted"}

\* Until its click the form of a commit is one that may still be submitted, and
\* after a stray secret the worker finds nothing any more.
Unused(k) == \A x \in submitted : x.call # k
Submittable(c) == \A x \in submitted :
  x.life = life /\ x.target.ref = c.ref =>
    x.call \in cut \/ (x.call \in unseen /\ x.target.generation < c.generation)
OnceInv ==
  IF Doing("settling") THEN ~Unused(worker.doing)
  ELSE Unused(worker.doing) /\ Submittable(Mine)
StraightInv ==
  \/ \A x \in astray : x.call # worker.doing
  \/ worker.at \in {"focusing", "verifying"} /\ ~Found

\* While the worker is at a commit its generation stays, and where it finds the
\* marked elements is the address it compared.
WorkInv == ~Idle =>
  /\ At(worker.doing, "committing") \/ Mine.told = "failed"
  /\ HasSecret(Mine)
  /\ worker.generation = Mine.generation /\ worker.generation < MaxGeneration
  /\ Found => page.url = Mine.url
  /\ Doing("clicking") => page.typed \in {Mine.secret, None}
  /\ OnceInv /\ StraightInv

\* What was submitted in this life is older than the references there are now,
\* unless its click was cut off, its snapshot failed or it is being settled.
SubmittedInv ==
  /\ \A x \in astray : Outcome(x.call)
  /\ \A x \in submitted :
       /\ Outcome(x.call)
       /\ \A k \in x.after : ~Unused(k)
       /\ x.target.ref <= x.target.generation
       /\ x.life <= life
       /\ x.life = life =>
            /\ x.target.generation <= worker.generation
            /\ \/ x.call \in cut
               \/ Doing("settling") /\ worker.doing = x.call
               \/ /\ x.target.generation < worker.generation
                  /\ \/ x.call \in unseen
                     \/ worker.refs = 0 \/ worker.refs > x.target.generation

IInv ==
  /\ VaultInv /\ TypeOK
  /\ CallInv /\ WorkInv /\ SubmittedInv
  /\ SecretsAtHome /\ OutcomeTruthful /\ NotTwice
=============================================================================
