--------------------------- MODULE ApprovedActions ---------------------------
(***************************************************************************)
(* How a worker acts on pages it does not control: the snapshots, element  *)
(* references and generations of internal/browser/manager.go, the actions  *)
(* approved through internal/approval/store.go, and between any two calls  *)
(* to Chromium a page or a person that changes what is there.              *)
(*                                                                         *)
(* The manager's mutex lets one tool call touch Chromium at a time; the    *)
(* call that holds it is "op".  A commit takes its approval before it      *)
(* waits for the mutex.  Each document has one control (a button, say) and *)
(* one field, and other editable elements nothing is known of; a snapshot  *)
(* writes its generation into the data-navego-ref attribute of control and *)
(* field, which stays until the next snapshot of that document or the end  *)
(* of the node, and so outlives the worker that wrote it.  Type may give   *)
(* it to another element.                                                  *)
(***************************************************************************)
EXTENDS Naturals

CONSTANTS
  Tabs,           \* the page targets of Chromium
  Urls,           \* addresses
  Labels,         \* accessible names of the control
  Opening,        \* the label of each address when it is loaded
  Sensitive,      \* the labels isSensitiveAction recognises
  Texts, Empty,   \* contents of the field, and none
  Ids, NoId,      \* approval ids, and none
  TTL,            \* life of a pending approval
  MaxGeneration,  \* bound: snapshots of a life of the worker
  MaxTroubles,    \* bound: changes by pages and people, a focus that went
                  \* elsewhere, lost snapshots and connections
  Lives           \* bound: lives of the worker

ASSUME ApprovalAssumption ==
  /\ Tabs # {} /\ Urls # {} /\ Labels # {}
  /\ Opening \in [Urls -> Labels]
  /\ Sensitive \subseteq Labels
  /\ Empty \notin Texts
  /\ NoId \notin Ids
  /\ TTL \in Nat \ {0}
  /\ MaxGeneration \in Nat
  /\ MaxTroubles \in Nat
  /\ Lives \in Nat \ {0}

VARIABLES
  url, label, text,  \* each tab's document: address, control, field
  control, field,    \* ... the generation of their references, 0 for none
  moved,             \* ... the references Type gave to another element
  marker,            \* history: the life of the worker that wrote each
  connected,         \* is browserContext alive?
  active,            \* activeTarget
  generation,        \* the number of the last snapshot begun
  refs,              \* what the last snapshot that succeeded showed
  op,                \* the tool call that holds the mutex
  approval,          \* the ActionTarget behind each id
  status,            \* what became of each id
  age,               \* time since it was prepared
  clicks,            \* history: final clicks made for it
  overtaken,         \* history: has a page been shown since?
  undisturbed,       \* history: no change of a page since the validation
  life,              \* the lives of the worker so far
  troubles           \* counts what MaxTroubles bounds

document == <<url, label, text, control, field, moved, marker>>
manager == <<connected, active, generation, refs>>
store == <<approval, status, age, clicks, overtaken>>
vars == <<document, manager, op, store, undisturbed, life, troubles>>

Contents == Texts \cup {Empty}
\* A reference g<n>e<k> is the generation n of its snapshot; 0 names none.
Generations == 0 .. MaxGeneration
Parts == {"control", "field"}
SomeLabel == CHOOSE l \in Labels : TRUE
SomeUrl == CHOOSE u \in Urls : TRUE
NoRefs == [gen |-> 0, label |-> SomeLabel, text |-> Empty]
Shown == [gen : Generations, label : Labels, text : Contents]

\* The steps of a tool call.  "on" is what it is given a reference of; "link"
\* tells whether the connection is the one there was when that was looked up.
Steps == {"idle", "navigate", "switch", "click", "type", "activate", "fill",
          "describe", "validate", "commit", "snapshot"}
Idle == [at |-> "idle", on |-> "control", ref |-> 0, label |-> SomeLabel, id |-> NoId,
         link |-> "kept"]
ToolCall == [at : Steps, on : Parts, ref : Generations, label : Labels,
             id : Ids \cup {NoId}, link : {"kept", "renewed"}]

Target == [ref : Generations, label : Labels, url : Urls, text : Contents,
           gen : Generations]
Statuses == {"none", "pending", "taken", "running", "done", "cancelled"}

Init ==
  /\ url \in [Tabs -> Urls]
  /\ label = [t \in Tabs |-> Opening[url[t]]]
  /\ text = [t \in Tabs |-> Empty]
  /\ control = [t \in Tabs |-> 0]
  /\ field = [t \in Tabs |-> 0]
  /\ moved = [t \in Tabs |-> {}]
  /\ marker = [t \in Tabs |-> [p \in Parts |-> 0]]
  /\ connected = "no"
  /\ active \in Tabs
  /\ generation = 0
  /\ refs = NoRefs
  /\ op = Idle
  /\ approval = [i \in Ids |-> [ref |-> 0, label |-> SomeLabel,
                               url |-> SomeUrl, text |-> Empty, gen |-> 0]]
  /\ status = [i \in Ids |-> "none"]
  /\ age = [i \in Ids |-> 0]
  /\ clicks = [i \in Ids |-> 0]
  /\ overtaken = [i \in Ids |-> "no"]
  /\ undisturbed = "no"
  /\ life = 1
  /\ troubles = 0

-----------------------------------------------------------------------------
(* Documents.                                                              *)

NewDocument(t, u) ==
  /\ url' = [url EXCEPT ![t] = u]
  /\ label' = [label EXCEPT ![t] = Opening[u]]
  /\ text' = [text EXCEPT ![t] = Empty]
  /\ control' = [control EXCEPT ![t] = 0]
  /\ field' = [field EXCEPT ![t] = 0]
  /\ moved' = [moved EXCEPT ![t] = {}]
  /\ marker' = [marker EXCEPT ![t] = [p \in Parts |-> 0]]

\* What a page does with a click: nothing that matters here, or it navigates.
PageReacts ==
  \/ UNCHANGED document
  \/ \E u \in Urls : NewDocument(active, u)

PageChanges(t) ==
  \/ \E u \in Urls : NewDocument(t, u)
  \/ \E u \in Urls :  \* a route of the same document
       /\ url' = [url EXCEPT ![t] = u]
       /\ UNCHANGED <<label, text, control, field, moved, marker>>
  \/ \E l \in Labels, c \in {control[t], 0} :  \* another label, perhaps another node
       /\ label' = [label EXCEPT ![t] = l]
       /\ control' = [control EXCEPT ![t] = c]
       /\ UNCHANGED <<url, text, field, moved, marker>>
  \/ \E x \in Contents :  \* somebody types
       /\ text' = [text EXCEPT ![t] = x]
       /\ UNCHANGED <<url, label, control, field, moved, marker>>

Trouble == troubles < MaxTroubles /\ troubles' = troubles + 1

PageMoves(t) ==
  /\ Trouble
  /\ PageChanges(t)
  /\ undisturbed' = "no"
  /\ UNCHANGED <<manager, op, store, life>>

-----------------------------------------------------------------------------
(* The manager.  Every tool call begins under the mutex.                   *)

\* Mutant: the references outlive the connection.
ConnectKeepingRefs ==
  /\ connected' = "yes"
  /\ IF connected = "yes"
     THEN UNCHANGED <<active, refs>>
     ELSE active' \in Tabs /\ UNCHANGED refs
  /\ UNCHANGED generation

\* A connection that is not there is made, to whichever page comes first in
\* Chromium's list; the references are forgotten, the generation is not.
EnsureConnected ==
  /\ connected' = "yes"
  /\ IF connected = "yes"
     THEN UNCHANGED <<active, refs>>
     ELSE active' \in Tabs /\ refs' = NoRefs
  /\ UNCHANGED generation

CallOn(at, on, ref, lbl, id) ==
  /\ EnsureConnected
  /\ op' = [at |-> at, on |-> on, ref |-> ref, label |-> lbl, id |-> id,
            link |-> IF connected = "yes" THEN "kept" ELSE "renewed"]
  /\ UNCHANGED <<document, undisturbed, life, troubles>>

Call(at, ref, lbl, id) == CallOn(at, "control", ref, lbl, id)

\* Status, Screenshot, PDF: they connect, and look without a snapshot.
Status ==
  /\ op = Idle
  /\ EnsureConnected
  /\ UNCHANGED <<document, op, store, undisturbed, life, troubles>>

\* Snapshot, Find, Wait, and Hover and Scroll, which change nothing here.
Snapshot ==
  /\ op = Idle /\ generation < MaxGeneration
  /\ Call("snapshot", 0, SomeLabel, NoId)
  /\ UNCHANGED store

Open ==
  /\ op = Idle /\ generation < MaxGeneration
  /\ Call("navigate", 0, SomeLabel, NoId)
  /\ UNCHANGED store

\* SwitchTab, NewTab, and CloseTab of the active tab.
SwitchTab ==
  /\ op = Idle /\ generation < MaxGeneration
  /\ Call("switch", 0, SomeLabel, NoId)
  /\ UNCHANGED store

\* Click, and PressKey of ENTER or SPACE: refused on a sensitive control.  The
\* reference is looked up before the connection is made.
Click ==
  /\ op = Idle /\ generation < MaxGeneration
  /\ refs.gen # 0 /\ refs.label \notin Sensitive
  /\ Call("click", refs.gen, SomeLabel, NoId)
  /\ UNCHANGED store

Type ==
  /\ op = Idle /\ generation < MaxGeneration
  /\ refs.gen # 0
  /\ \E part \in Parts : CallOn("type", part, refs.gen, SomeLabel, NoId)
  /\ UNCHANGED store

\* It acts on the field at once.
SelectOption ==
  /\ op = Idle /\ generation < MaxGeneration
  /\ refs.gen # 0
  /\ CallOn("fill", "field", refs.gen, SomeLabel, NoId)
  /\ UNCHANGED store

\* The call's next step, while the connection it found lasts.
Working(at) == op.at = at /\ connected = "yes"

\* The page is given a moment to settle; the call's context may end in it, and
\* then what was done has happened without a snapshot.
Settle == op' \in {Idle, [op EXCEPT !.at = "snapshot"]}

\* An existing tab is shown as it is; a new one is navigated at once.
ShowTab(t) ==
  /\ active' = t
  /\ \/ op' = [op EXCEPT !.at = "snapshot"] /\ UNCHANGED document
     \/ Settle /\ \E u \in Urls : NewDocument(t, u)

\* activateTargetLocked.
Activate ==
  /\ Working("switch")
  /\ \E t \in Tabs : ShowTab(t)
  /\ refs' = NoRefs
  /\ UNCHANGED <<connected, generation, store, undisturbed, life, troubles>>

Navigate ==
  /\ Working("navigate")
  /\ \E u \in Urls : NewDocument(active, u)
  /\ Settle
  /\ UNCHANGED <<manager, store, undisturbed, life, troubles>>

\* querySelector finds an element with the reference in the active tab.
FindsControl == control[active] = op.ref
FindsField == field[active] = op.ref
Finds(part) == IF part = "control" THEN FindsControl ELSE FindsField

ClickControl ==
  /\ Working("click") /\ FindsControl
  /\ PageReacts
  /\ Settle
  /\ UNCHANGED <<manager, store, undisturbed, life, troubles>>

\* Type activates whatever it was given with a click ...
ClickEditable ==
  /\ Working("type") /\ Finds(op.on)
  /\ PageReacts
  /\ op' = [op EXCEPT !.at = "activate"]
  /\ UNCHANGED <<manager, store, undisturbed, life, troubles>>

\* Another editable element, of this document or the one that came instead, gets
\* the reference, and loses the one it had.
GiveReference ==
  /\ IF op.on = "control"
     THEN /\ control' = [control EXCEPT ![active] = op.ref]
          /\ field' \in {field, [field EXCEPT ![active] = 0]}
     ELSE /\ field' = [field EXCEPT ![active] = op.ref]
          /\ control' \in {control, [control EXCEPT ![active] = 0]}
  /\ moved' = [moved EXCEPT ![active] = @ \cup {op.on}]
  /\ marker' = [marker EXCEPT ![active] = [@ EXCEPT ![op.on] = life]]
  /\ UNCHANGED <<url, label, text>>

\* ... and takes the editable element that has the focus by then, if there is
\* one, for the one it was given.
Redirect ==
  /\ Working("activate")
  /\ \/ Finds(op.on) /\ UNCHANGED <<document, troubles>>
     \/ Trouble /\ GiveReference
  /\ op' = [op EXCEPT !.at = "fill"]
  /\ UNCHANGED <<manager, store, undisturbed, life>>

\* The role is compared first: no editable element has the control's.  A page
\* may make something else of what is typed; then the value read back differs
\* and the call fails, without a snapshot.
TypeText ==
  /\ Working("fill") /\ Finds(op.on)
  /\ op.on = "control" => "control" \notin moved[active]
  /\ \/ PageReacts
     \/ /\ op.on = "field" /\ "field" \notin moved[active]
        /\ text' \in {[text EXCEPT ![active] = x] : x \in Contents}
        /\ UNCHANGED <<url, label, control, field, moved, marker>>
  /\ Settle
  /\ UNCHANGED <<manager, store, undisturbed, life, troubles>>

Marked ==
  /\ control' = [control EXCEPT ![active] = generation']
  /\ field' = [field EXCEPT ![active] = generation']
  /\ moved' = [moved EXCEPT ![active] = {}]
  /\ marker' = [marker EXCEPT ![active] = [p \in Parts |-> life]]

\* snapshotForQueryLocked, and the end of the call: the page is shown.
TakeSnapshot ==
  /\ Working("snapshot")
  /\ generation' = generation + 1
  /\ Marked
  /\ refs' = [gen |-> generation', label |-> label[active], text |-> text[active]]
  /\ overtaken' = [i \in Ids |-> "yes"]
  /\ op' = Idle
  /\ UNCHANGED <<url, label, text, connected, active, approval, status, age, clicks,
                 undisturbed, life, troubles>>

\* The script ran or did not; its result never came and the references stay.
LoseSnapshot ==
  /\ op.at = "snapshot"
  /\ IF connected = "yes" THEN Trouble ELSE UNCHANGED troubles
  /\ generation' = generation + 1
  /\ Marked \/ UNCHANGED <<control, field, moved, marker>>
  /\ op' = Idle
  /\ UNCHANGED <<url, label, text, connected, active, refs, store, undisturbed, life>>

\* A call that failed for an id has used it up.
Finished(i) == [status EXCEPT ![i] = "done"]
Finish == status' = IF op.id \in Ids THEN Finished(op.id) ELSE status

\* Mutant: a call whose tab has gone is tried again, on the context that ended.
FailRetrying ==
  /\ op.at \notin {"idle", "snapshot"}
  /\ op' = IF connected = "yes" THEN Idle ELSE op
  /\ IF connected = "yes" THEN Finish ELSE UNCHANGED status
  /\ UNCHANGED <<document, manager, approval, age, clicks, overtaken, undisturbed, life, troubles>>

\* A step that finds nothing or a context that ended: the call returns its
\* error at once, whatever it did before.
OperationFails ==
  /\ op.at \notin {"idle", "snapshot"}
  /\ op' = Idle
  /\ Finish
  /\ UNCHANGED <<document, manager, approval, age, clicks, overtaken, undisturbed, life, troubles>>

\* The context of the active tab ends: its tab is closed or has crashed, or
\* Chromium has.
LoseConnection ==
  /\ connected = "yes"
  /\ Trouble
  /\ connected' = "no"
  /\ UNCHANGED <<document, active, generation, refs, op, store, undisturbed, life>>

-----------------------------------------------------------------------------
(* Approvals.                                                              *)

\* browser_prepare_action: DescribeAction begins ...
PrepareAction(i) ==
  /\ op = Idle /\ generation < MaxGeneration
  /\ status[i] = "none"
  /\ refs.gen # 0
  /\ Call("describe", refs.gen, refs.label, i)
  /\ UNCHANGED store

\* ... and reads the address; the field's value comes from the snapshot, and
\* an empty one is not bound.
DescribeAction ==
  /\ Working("describe")
  /\ approval' = [approval EXCEPT ![op.id] =
       [ref |-> op.ref, label |-> op.label, url |-> url[active], text |-> refs.text,
        gen |-> generation]]
  /\ status' = [status EXCEPT ![op.id] = "pending"]
  /\ age' = [age EXCEPT ![op.id] = 0]
  /\ overtaken' = [overtaken EXCEPT ![op.id] = "no"]
  /\ op' = Idle
  /\ UNCHANGED <<document, manager, clicks, undisturbed, life, troubles>>

\* Mutant: an approval is looked up and stays where it is.
TakeLeaving(i) ==
  /\ status[i] \in {"pending", "done"}
  /\ age[i] < TTL
  /\ status' = [status EXCEPT ![i] = "taken"]
  /\ UNCHANGED <<document, manager, op, approval, age, clicks, overtaken, undisturbed, life, troubles>>

\* browser_commit_action: Store.Take, before the mutex is asked for.
Take(i) ==
  /\ status[i] = "pending"
  /\ age[i] < TTL
  /\ status' = [status EXCEPT ![i] = "taken"]
  /\ UNCHANGED <<document, manager, op, approval, age, clicks, overtaken, undisturbed, life, troubles>>

\* browser_cancel_action; too late for an approval that was taken.
Cancel(i) ==
  /\ status[i] = "pending"
  /\ status' = [status EXCEPT ![i] = "cancelled"]
  /\ UNCHANGED <<document, manager, op, approval, age, clicks, overtaken, undisturbed, life, troubles>>

\* Mutant: only the element is compared, not the generation.
CurrentByRef(a) == refs.gen # 0 /\ refs.label = a.label

\* What CommitAction compares before it connects.
Current(a) ==
  /\ a.gen = generation
  /\ refs.gen # 0 /\ refs.gen = a.ref
  /\ refs.label = a.label

CommitAction(i) ==
  /\ op = Idle
  /\ status[i] = "taken"
  /\ Current(approval[i])
  /\ Call("validate", approval[i].ref, SomeLabel, i)
  /\ status' = [status EXCEPT ![i] = "running"]
  /\ UNCHANGED <<approval, age, clicks, overtaken>>

CommitRefused(i) ==
  /\ op = Idle
  /\ status[i] = "taken"
  /\ ~Current(approval[i])
  /\ status' = Finished(i)
  /\ UNCHANGED <<document, manager, op, approval, age, clicks, overtaken, undisturbed, life, troubles>>

\* Mutant: the fields are not compared again.
MatchesIgnoringText(a) ==
  /\ FindsControl
  /\ url[active] = a.url
  /\ "control" \notin moved[active] => label[active] = a.label

\* The validation script, in the page.  An element that was given a reference
\* by Type may look like the one that was shown with it.
Matches(a) ==
  /\ FindsControl
  /\ url[active] = a.url
  /\ "control" \notin moved[active] => label[active] = a.label
  /\ a.text # Empty =>
       FindsField /\ ("field" \notin moved[active] => text[active] = a.text)

Validate ==
  /\ Working("validate")
  /\ Matches(approval[op.id])
  /\ op' = [op EXCEPT !.at = "commit"]
  /\ undisturbed' = "yes"
  /\ UNCHANGED <<document, manager, store, life, troubles>>

\* The final click.
CommitClick ==
  /\ Working("commit") /\ FindsControl
  /\ PageReacts
  /\ clicks' = [clicks EXCEPT ![op.id] = @ + 1]
  /\ Finish
  /\ Settle
  /\ UNCHANGED <<manager, approval, age, overtaken, undisturbed, life, troubles>>

Tick ==
  /\ \E i \in Ids : status[i] = "pending" /\ age[i] < TTL
  /\ age' = [i \in Ids |-> IF status[i] = "pending" /\ age[i] < TTL THEN age[i] + 1 ELSE age[i]]
  /\ UNCHANGED <<document, manager, op, approval, status, clicks, overtaken, undisturbed, life, troubles>>

\* The worker's process begins anew: approvals, references and the count of
\* generations are gone, the pages and their attributes are not.
Restart ==
  /\ life < Lives
  /\ life' = life + 1
  /\ connected' = "no"
  /\ generation' = 0
  /\ refs' = NoRefs
  /\ op' = Idle
  /\ status' = [i \in Ids |-> IF status[i] = "none" THEN "none" ELSE "done"]
  /\ UNCHANGED <<document, active, approval, age, clicks, overtaken, undisturbed, troubles>>

-----------------------------------------------------------------------------
OpStep ==
  \/ Activate \/ Navigate \/ ClickControl \/ ClickEditable \/ Redirect \/ TypeText
  \/ TakeSnapshot \/ LoseSnapshot \/ DescribeAction \/ Validate \/ CommitClick \/ OperationFails

Commit(i) == CommitAction(i) \/ CommitRefused(i)

Next ==
  \/ \E t \in Tabs : PageMoves(t)
  \/ Status \/ Snapshot \/ Open \/ SwitchTab \/ Click \/ Type \/ SelectOption
  \/ OpStep
  \/ LoseConnection \/ Restart \/ Tick
  \/ \E i \in Ids : PrepareAction(i) \/ Take(i) \/ Cancel(i) \/ Commit(i)

Spec == Init /\ [][Next]_vars

\* Every step of a call has a deadline (operationContext), so a call ends; Go's
\* mutex admits a waiter that has waited a millisecond before newcomers.
Fairness ==
  /\ WF_vars(OpStep)
  /\ \A i \in Ids : SF_vars(Commit(i))

FairSpec == Spec /\ Fairness
-----------------------------------------------------------------------------
(* Properties.                                                             *)

DocumentOK ==
  /\ url \in [Tabs -> Urls]
  /\ label \in [Tabs -> Labels]
  /\ text \in [Tabs -> Contents]
  /\ control \in [Tabs -> Generations]
  /\ field \in [Tabs -> Generations]
  /\ moved \in [Tabs -> SUBSET Parts]
  /\ marker \in [Tabs -> [Parts -> 0 .. Lives]]

ManagerOK ==
  /\ connected \in {"yes", "no"}
  /\ active \in Tabs
  /\ generation \in Generations
  /\ refs \in Shown
  /\ op \in ToolCall

StoreOK ==
  /\ approval \in [Ids -> Target]
  /\ status \in [Ids -> Statuses]
  /\ age \in [Ids -> 0 .. TTL]
  /\ clicks \in [Ids -> 0 .. 1]
  /\ overtaken \in [Ids -> {"yes", "no"}]

BoundsOK ==
  /\ undisturbed \in {"yes", "no"}
  /\ life \in 1 .. Lives
  /\ troubles \in 0 .. MaxTroubles

TypeOK == DocumentOK /\ ManagerOK /\ StoreOK /\ BoundsOK

Live(i) == status[i] \in {"pending", "taken", "running"}
Acting == {"click", "type", "activate", "fill", "describe", "validate", "commit"}

\* An approval leads to one final click at most, and to none once it was
\* cancelled, refused or forgotten, whatever calls, failures and restarts
\* come between (Store.Take, Store.Cancel).
ApprovedOnce == \A i \in Ids : status[i] # "done" => clicks[i] = 0

\* What a call acts on is an element that carries the reference because this
\* life of the worker wrote it there, by a snapshot or a Type: never one marked
\* by an earlier life whose generations had the same numbers, whatever tabs
\* were activated in between.  Only a call that had to connect anew has no such
\* assurance: it looked the reference up before.
SeenBefore ==
  op.at \in Acting /\ op.link = "kept" =>
    \A part \in Parts : Finds(part) => marker[active][part] = life

\* The generation tells whether a page was shown since an approval was
\* prepared: no snapshot goes unnumbered, no number comes twice in a life.
Numbered ==
  \A i \in Ids : Live(i) =>
    /\ approval[i].gen <= generation
    /\ approval[i].gen = generation => overtaken[i] = "no"

\* Type, and what the proofs need beside it: who holds the mutex, and what it
\* may rely on there.
HolderOK ==
  /\ op.at = "idle" => op = Idle
  /\ op.at # "idle" => generation < MaxGeneration
  /\ op.at \in {"navigate", "switch", "click", "type", "activate", "fill"} => op.id = NoId
  /\ op.at = "describe" => op.id \in Ids /\ status[op.id] = "none"
  /\ op.at \in Acting => op.ref # 0 /\ (op.link = "kept" => op.ref = refs.gen)
  /\ op.at \in {"validate", "commit"} =>
       /\ op.id \in Ids
       /\ status[op.id] = "running"
       /\ approval[op.id].gen = generation
  /\ op.at = "commit" /\ undisturbed = "yes" => Matches(approval[op.id])

RefsOK ==
  /\ refs.gen <= generation
  /\ refs.gen # 0 =>
       /\ control[active] = refs.gen => marker[active]["control"] = life
       /\ field[active] = refs.gen => marker[active]["field"] = life
  /\ \A i \in Ids : Live(i) => approval[i].gen < MaxGeneration

IInv == TypeOK /\ HolderOK /\ RefsOK /\ Numbered /\ ApprovedOnce /\ SeenBefore

FinalClick(i) == clicks'[i] # clicks[i]

\* No final click after a page was shown since the approval was prepared: every
\* tool call in between that did anything must have ended in an error.
NotOvertaken == [][\A i \in Ids : FinalClick(i) => overtaken[i] = "no"]_vars

\* Unless the page changes in the instant after it was compared, the final
\* click meets the address, the label and the filled field that were approved:
\* no other tool call comes between the comparison and the click.  A reference
\* that a Type gave to another element before it failed vouches for the element
\* that was shown no longer; what a Type did that succeeded is a new snapshot's.
CommitAsApproved ==
  [][\A i \in Ids : FinalClick(i) /\ undisturbed = "yes" =>
       /\ url[active] = approval[i].url
       /\ "control" \notin moved[active] => label[active] = approval[i].label
       /\ approval[i].text # Empty /\ "field" \notin moved[active] =>
            text[active] = approval[i].text]_vars

\* "todos os campos sao comparados novamente" (docs/go-rewrite-plan.md:456): the
\* field is what it was when the action was prepared, also if it was empty.
FieldsAsApproved ==
  [][\A i \in Ids : FinalClick(i) /\ undisturbed = "yes" =>
       text[active] = approval[i].text]_vars

\* A commit is answered: the mutex is never kept, by whatever call, for good.
Decided == \A i \in Ids : status[i] = "taken" ~> status[i] = "done"
=============================================================================
