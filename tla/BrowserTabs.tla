----------------------------- MODULE BrowserTabs -----------------------------
(* The tabs of the worker's Chromium and the manager's maps of them          *)
(* (internal/browser/manager.go): NewTab, NewPrivateTab, SwitchTab, CloseTab *)
(* and the connection they share, each call to Chromium a step, against      *)
(* pages that open and close others, connections that end and a worker that  *)
(* restarts.  A private context is Chromium's BrowserContext; the tab it is  *)
(* made with owns it.                                                        *)
(*                                                                           *)
(* Of chromedp the model takes what the code says of it: a context attached  *)
(* to a tab may end by itself, and cancelling one closes its tab.  A private *)
(* context is made "disposeOnDetach" through the active tab's connection:    *)
(* it may go with that one, and goes at the latest when all of them have.    *)
EXTENDS Naturals, FiniteSets

CONSTANTS
  Tabs,      \* target ids; Chromium never gives one twice
  Contexts,  \* ids of private contexts; never given twice
  Profile,   \* the persistent context
  Gone,      \* where a page is once it is closed
  None,
  MaxTabs,   \* maxManagedTabs
  MaxFaults  \* bound: lost connections and answers, failed disposals, restarts

ASSUME TabsAssumption ==
  /\ {Profile, Gone, None} \cap Contexts = {}
  /\ Profile # Gone /\ Profile # None /\ Gone # None
  /\ None \notin Tabs
  /\ MaxTabs \in Nat /\ MaxFaults \in Nat

VARIABLES
  page,      \* Chromium: the context of each page; None before it is opened
  contexts,  \* Chromium: the private contexts there are
  maker,     \* the tab over whose connection a private context was made
  link,            \* the manager: the chromedp context of each tab (tabContexts)
  owns,            \* ... and, with ownsBrowserContext, its browserContextID
  active,          \* ... activeTarget
  privateContexts,
  privateTargets,
  op,              \* the call that holds the mutex
  owner,     \* history: the tab a private context was made with
  closed,    \* history: the tabs CloseTab has closed
  excused,   \* history: contexts whose disposal failed or whose owner was
             \* attached anew, tabs whose context had ended when closed
  faults     \* counts what MaxFaults bounds

chromium == <<page, contexts, maker>>
manager == <<link, owns, active, privateContexts, privateTargets>>
history == <<owner, closed, excused, faults>>
vars == <<chromium, manager, op, history>>

Idle == [call |-> "none", step |-> "idle", tab |-> None, ctx |-> None,
         prev |-> None, listed |-> {}]

Open(t) == page[t] \in {Profile} \cup contexts
OpenTabs == {t \in Tabs : Open(t)}
Unused == {t \in Tabs : page[t] = None}

\* m.browserContext is there and has not ended.
Connected == active \in Tabs /\ link[active] = "live"

Fault == faults < MaxFaults /\ faults' = faults + 1

Init ==
  /\ page \in {[t \in Tabs |-> IF t = first THEN Profile ELSE None] : first \in Tabs}
  /\ contexts = {}
  /\ maker = [c \in Contexts |-> None]
  /\ link = [t \in Tabs |-> "none"]
  /\ owns = [t \in Tabs |-> None]
  /\ active = None
  /\ privateContexts = {}
  /\ privateTargets = [t \in Tabs |-> None]
  /\ op = Idle
  /\ owner = [c \in Contexts |-> None]
  /\ closed = {}
  /\ excused = {}
  /\ faults = 0

-----------------------------------------------------------------------------
(* Chromium.                                                               *)

\* The pages of T close, and the contexts of C go with their pages.
Without(T, C) ==
  [t \in Tabs |-> IF Open(t) /\ (t \in T \/ page[t] \in C) THEN Gone ELSE page[t]]

Closes(T, C) ==
  /\ page' = Without(T, C)
  /\ contexts' = contexts \ C
  /\ UNCHANGED maker

\* What may go with the connections of T.
MadeOver(T) == {c \in contexts : maker[c] \in T}

Live(T) == {t \in T : link[t] = "live"}

\* The chromedp contexts of T are cancelled, and the contexts of C disposed of.
Cancels(T, C) == \E D \in SUBSET MadeOver(Live(T)) : Closes(Live(T), C \cup D)

\* A page opens another one, or a person does.
PageOpens(t) ==
  /\ t \in Unused
  /\ \E by \in OpenTabs : page' = [page EXCEPT ![t] = page[by]]
  /\ UNCHANGED <<contexts, maker, manager, op, history>>

\* A page closes itself, or a person closes it; the last one is Chromium's end.
PageCloses(t) ==
  /\ Open(t) /\ OpenTabs # {t}
  /\ Closes({t}, {})
  /\ UNCHANGED <<manager, op, history>>

\* A chromedp context ends: its connection is lost or its tab crashed.
LinkEnds(t) ==
  /\ link[t] = "live"
  /\ \E D \in SUBSET MadeOver({t}) : Closes({}, D)
  /\ link' = [link EXCEPT ![t] = "ended"]
  /\ Fault
  /\ UNCHANGED <<owns, active, privateContexts, privateTargets, op, owner, closed, excused>>

\* The worker's process ends without cancelling anything and starts again.
Restart ==
  /\ Closes({}, contexts)
  /\ link' = [t \in Tabs |-> "none"]
  /\ owns' = [t \in Tabs |-> None]
  /\ active' = None
  /\ privateContexts' = {}
  /\ privateTargets' = [t \in Tabs |-> None]
  /\ op' = Idle
  /\ Fault
  /\ UNCHANGED <<owner, closed, excused>>

-----------------------------------------------------------------------------
(* The connection.                                                         *)

\* resetLocked cancels every context; then the first page Chromium lists is
\* attached, or a new one is opened.  When that fails, everything is reset
\* again, which may close the page.
EnsureConnected ==
  LET left == Without(Live(Tabs), contexts)
      kept == {t \in Tabs : left[t] = Profile}
  IN
  /\ op = Idle /\ ~Connected
  /\ contexts' = {}
  /\ owns' = [t \in Tabs |-> None]
  /\ privateContexts' = {}
  /\ privateTargets' = [t \in Tabs |-> None]
  /\ \/ \E t \in kept \cup Unused :
          /\ page' = [left EXCEPT ![t] = Profile]
          /\ active' = t
          /\ link' = [s \in Tabs |-> IF s = t THEN "live" ELSE "none"]
     \/ /\ page' \in {left} \cup {[left EXCEPT ![t] = Gone] : t \in kept}
        /\ active' = None
        /\ link' = [s \in Tabs |-> "none"]
  /\ UNCHANGED <<maker, op, history>>

\* activateTargetLocked: a context that has not ended is used again ...
Reactivate(t) ==
  /\ link[t] = "live"
  /\ active' = t
  /\ UNCHANGED <<link, owns, excused>>

\* ... and otherwise one is attached, which owns nothing.
AttachNew(t) ==
  /\ link[t] # "live" /\ Open(t)
  /\ active' = t
  /\ link' = [link EXCEPT ![t] = "live"]
  /\ owns' = [owns EXCEPT ![t] = None]
  /\ excused' = excused \cup {c \in contexts : owner[c] = t}

Attach(t) == Reactivate(t) \/ AttachNew(t)

\* Attaching fails; a context that was attached before is cancelled again.
AttachFails(t) ==
  /\ link[t] # "live"
  /\ Closes({}, {}) \/ Closes({t}, {})

-----------------------------------------------------------------------------
(* The calls.                                                              *)

Call(call, t) ==
  /\ op = Idle /\ Connected
  /\ op' = [Idle EXCEPT !.call = call, !.step = "list", !.tab = t]
  /\ UNCHANGED <<chromium, manager, history>>

ListTabs == Call("list", None)
NewTab == Call("new", None)
NewPrivateTab == Call("private", None)
SwitchTab(t) == page[t] # None /\ Call("switch", t)
CloseTab(t) == page[t] # None /\ Call("close", t)

At(call, step) == op.call = call /\ op.step = step
Step(step) == [op EXCEPT !.step = step]

\* What a call does next with the tabs it was shown.
AfterList(tabs) ==
  CASE op.call \in {"new", "private"} /\ Cardinality(tabs) < MaxTabs -> Step("create")
    [] op.call = "switch" /\ op.tab \in tabs -> Step("attach")
    [] op.call = "close" /\ op.tab \in tabs /\ tabs # {op.tab} ->
         IF op.tab = active THEN [Step("replace") EXCEPT !.listed = tabs] ELSE Step("close")
    [] OTHER -> Idle

\* listTabsLocked.
TabsListed ==
  /\ op.step = "list" /\ Connected
  /\ privateTargets' = [t \in Tabs |-> IF Open(t) /\ page[t] \in privateContexts
                                       THEN page[t] ELSE None]
  /\ op' = AfterList(OpenTabs)
  /\ UNCHANGED <<chromium, link, owns, active, privateContexts, history>>

\* A call to Chromium fails, or the context it runs on has ended.
CallFails ==
  /\ \/ op.step = "list"
     \/ At("new", "create") \/ At("private", "create")
  /\ op' = Idle
  /\ UNCHANGED <<chromium, manager, history>>

\* Target.createTarget; its answer may be lost.
TargetCreated(t) ==
  /\ At("new", "create") /\ Connected /\ t \in Unused
  /\ page' = [page EXCEPT ![t] = Profile]
  /\ op' \in {Idle, [Step("attach") EXCEPT !.tab = t]}
  /\ UNCHANGED <<contexts, maker, manager, history>>

\* Target.createBrowserContext ...
ContextMade(c) ==
  /\ At("private", "create") /\ Connected
  /\ c \in Contexts /\ maker[c] = None
  /\ contexts' = contexts \cup {c}
  /\ maker' = [maker EXCEPT ![c] = active]

\* ... and a target in it; both are entered in the maps.
PrivateCreated(c, t) ==
  /\ ContextMade(c) /\ t \in Unused
  /\ page' = [page EXCEPT ![t] = c]
  /\ privateContexts' = privateContexts \cup {c}
  /\ privateTargets' = [privateTargets EXCEPT ![t] = c]
  /\ owner' = [owner EXCEPT ![c] = t]
  /\ op' = [Step("attach") EXCEPT !.tab = t, !.ctx = c, !.prev = active]
  /\ UNCHANGED <<link, owns, active, closed, excused, faults>>

\* The answer with the context's id is lost: nothing is disposed of.  Or that
\* of the target, which may be there nonetheless: the context is.
PrivateFails(c) ==
  /\ ContextMade(c)
  /\ \/ /\ op' = Idle
        /\ excused' = excused \cup {c}
        /\ UNCHANGED page
     \/ /\ op' = [Step("dispose") EXCEPT !.ctx = c]
        /\ page' \in {page} \cup {[page EXCEPT ![t] = c] : t \in Unused}
        /\ UNCHANGED excused
  /\ Fault
  /\ UNCHANGED <<manager, owner, closed>>

-----------------------------------------------------------------------------
(* Attaching.                                                              *)

\* The end of NewTab and SwitchTab: what follows changes no map.
Activate ==
  /\ op.call \in {"new", "switch"} /\ op.step = "attach"
  /\ Attach(op.tab)
  /\ op' = Idle
  /\ UNCHANGED <<chromium, privateContexts, privateTargets, owner, closed, faults>>

\* NewTab then closes what it opened, as well as it can.
ActivateFails ==
  /\ op.call \in {"new", "switch"} /\ op.step = "attach"
  /\ AttachFails(op.tab)
  /\ op' = Idle
  /\ UNCHANGED <<manager, history>>

\* Mutant: attached like any other tab, it owns nothing.
PrivateActivatedUnowned ==
  /\ At("private", "attach")
  /\ Open(op.tab)
  /\ active' = op.tab
  /\ link' = [link EXCEPT ![op.tab] = "live"]
  /\ op' = Step("navigate")
  /\ UNCHANGED <<chromium, owns, privateContexts, privateTargets, history>>

PrivateActivated ==
  /\ At("private", "attach")
  /\ Open(op.tab)
  /\ active' = op.tab
  /\ link' = [link EXCEPT ![op.tab] = "live"]
  /\ owns' = [owns EXCEPT ![op.tab] = op.ctx]
  /\ op' = Step("navigate")
  /\ UNCHANGED <<chromium, privateContexts, privateTargets, history>>

Forgotten ==
  /\ privateContexts' = privateContexts \ {op.ctx}
  /\ privateTargets' = [privateTargets EXCEPT ![op.tab] = None]

PrivateActivateFails ==
  /\ At("private", "attach")
  /\ AttachFails(op.tab)
  /\ Forgotten
  /\ op' = Step("dispose")
  /\ UNCHANGED <<link, owns, active, history>>

PrivateNavigated ==
  /\ At("private", "navigate")
  /\ op' = Idle
  /\ UNCHANGED <<chromium, manager, history>>

\* The tab shown before is activated again if it can be; either way the
\* private one is cancelled and forgotten.
PrivateNavigateFails ==
  /\ At("private", "navigate")
  /\ \/ /\ link[op.prev] = "live" \/ Open(op.prev)
        /\ active' = op.prev
        /\ link' = [link EXCEPT ![op.prev] = "live", ![op.tab] = "none"]
        /\ owns' = [t \in Tabs |-> IF t = op.tab \/ (t = op.prev /\ link[t] # "live")
                                   THEN None ELSE owns[t]]
        /\ excused' = IF link[op.prev] = "live" THEN excused
                      ELSE excused \cup {c \in contexts : owner[c] = op.prev}
        /\ Cancels({op.tab}, {})
     \/ /\ link[op.prev] # "live"
        /\ Cancels({op.tab}, {}) \/ Closes(Live({op.tab}) \cup {op.prev}, {})
        /\ link' = [link EXCEPT ![op.tab] = "none"]
        /\ owns' = [owns EXCEPT ![op.tab] = None]
        /\ UNCHANGED <<active, excused>>
  /\ Forgotten
  /\ op' = Step("dispose")
  /\ UNCHANGED <<owner, closed, faults>>

-----------------------------------------------------------------------------
(* Closing.                                                                *)

\* Mutant: any other tab will do.
ReplacesAny(t) == t \in op.listed \ {op.tab}

\* A tab that can be shown in place of the one that is closed: of an owner's
\* context none.
Replaces(t) ==
  /\ t \in op.listed \ {op.tab}
  /\ owns[op.tab] = None \/ privateTargets[t] # privateTargets[op.tab]

TabReplaced(t) ==
  /\ At("close", "replace") /\ Replaces(t)
  /\ Attach(t)
  /\ op' = Step("close")
  /\ UNCHANGED <<chromium, privateContexts, privateTargets, owner, closed, faults>>

\* There is none, or it cannot be attached: the call fails.
ReplaceFails ==
  /\ At("close", "replace")
  /\ \/ \E t \in Tabs : Replaces(t) /\ AttachFails(t)
     \/ (\A t \in Tabs : ~Replaces(t)) /\ UNCHANGED chromium
  /\ op' = Idle
  /\ UNCHANGED <<manager, history>>

\* Mutant: the private context is forgotten with whichever tab of it is closed.
ManagedClosedForgetting ==
  /\ At("close", "close") /\ link[op.tab] # "none"
  /\ Cancels({op.tab}, {})
  /\ link' = [link EXCEPT ![op.tab] = "none"]
  /\ owns' = [owns EXCEPT ![op.tab] = None]
  /\ privateContexts' = privateContexts \ {privateTargets[op.tab]}
  /\ privateTargets' = [privateTargets EXCEPT ![op.tab] = None]
  /\ excused' = IF link[op.tab] = "ended" THEN excused \cup {op.tab} ELSE excused
  /\ IF owns[op.tab] = None
     THEN op' = Idle /\ closed' = closed \cup {op.tab}
     ELSE op' = [Step("dispose") EXCEPT !.ctx = owns[op.tab]] /\ UNCHANGED closed
  /\ UNCHANGED <<active, owner, faults>>

\* The tab's context is cancelled; one that ended before closes nothing.  An
\* owner's private context is disposed of next.
ManagedClosed ==
  /\ At("close", "close") /\ link[op.tab] # "none"
  /\ Cancels({op.tab}, {})
  /\ link' = [link EXCEPT ![op.tab] = "none"]
  /\ owns' = [owns EXCEPT ![op.tab] = None]
  /\ privateTargets' = [privateTargets EXCEPT ![op.tab] = None]
  /\ excused' = IF link[op.tab] = "ended" THEN excused \cup {op.tab} ELSE excused
  /\ IF owns[op.tab] = None
     THEN op' = Idle /\ closed' = closed \cup {op.tab}
     ELSE op' = [Step("dispose") EXCEPT !.ctx = owns[op.tab]] /\ UNCHANGED closed
  /\ UNCHANGED <<active, privateContexts, owner, faults>>

\* A tab that was never attached is, and cancelled at once; or it cannot be.
UnmanagedClosed ==
  /\ At("close", "close") /\ link[op.tab] = "none"
  /\ Open(op.tab)
  /\ Closes({op.tab}, {})
  /\ privateTargets' = [privateTargets EXCEPT ![op.tab] = None]
  /\ closed' = closed \cup {op.tab}
  /\ op' = Idle
  /\ UNCHANGED <<link, owns, active, privateContexts, owner, excused, faults>>

CloseFails ==
  /\ At("close", "close") /\ link[op.tab] = "none"
  /\ op' = Idle
  /\ UNCHANGED <<chromium, manager, history>>

\* disposeBrowserContextBestEffortLocked: nothing is done without a connection,
\* and what fails is not tried again.
Disposes(T) ==
  \/ Connected /\ Cancels(T, {op.ctx}) /\ UNCHANGED <<excused, faults>>
  \/ /\ Cancels(T, {})
     /\ excused' = excused \cup {op.ctx}
     /\ IF Connected THEN Fault ELSE UNCHANGED faults

\* A private tab could not be opened.
PrivateDisposed ==
  /\ At("private", "dispose")
  /\ Disposes({})
  /\ op' = Idle
  /\ UNCHANGED <<manager, owner, closed>>

\* Mutant: the tabs of every private context.
MembersOfAny == {t \in Tabs : privateTargets[t] # None}

Members == {t \in Tabs : privateTargets[t] = op.ctx}

\* CloseTab also cancels and forgets the other tabs of the context.
OwnerClosed ==
  /\ At("close", "dispose")
  /\ Disposes(Members)
  /\ link' = [t \in Tabs |-> IF t \in Members THEN "none" ELSE link[t]]
  /\ owns' = [t \in Tabs |-> IF t \in Members THEN None ELSE owns[t]]
  /\ privateContexts' = privateContexts \ {op.ctx}
  /\ privateTargets' = [t \in Tabs |-> IF t \in Members THEN None ELSE privateTargets[t]]
  /\ closed' = closed \cup {op.tab}
  /\ op' = Idle
  /\ UNCHANGED <<active, owner>>

-----------------------------------------------------------------------------
Environment ==
  \/ \E t \in Tabs : PageOpens(t) \/ PageCloses(t) \/ LinkEnds(t)
  \/ Restart

Begin ==
  \/ EnsureConnected
  \/ ListTabs \/ NewTab \/ NewPrivateTab
  \/ \E t \in Tabs : SwitchTab(t) \/ CloseTab(t)

Continue ==
  \/ TabsListed \/ CallFails
  \/ \E t \in Tabs : TargetCreated(t) \/ TabReplaced(t)
  \/ \E c \in Contexts : PrivateFails(c) \/ \E t \in Tabs : PrivateCreated(c, t)
  \/ Activate \/ ActivateFails
  \/ PrivateActivated \/ PrivateActivateFails
  \/ PrivateNavigated \/ PrivateNavigateFails \/ PrivateDisposed
  \/ ReplaceFails \/ ManagedClosed \/ UnmanagedClosed \/ CloseFails \/ OwnerClosed

Next == Environment \/ Begin \/ Continue

Spec == Init /\ [][Next]_vars

-----------------------------------------------------------------------------
Operation ==
  [call : {"none", "list", "new", "private", "switch", "close"},
   step : {"idle", "list", "create", "attach", "navigate", "replace", "close", "dispose"},
   tab : Tabs \cup {None}, ctx : Contexts \cup {None}, prev : Tabs \cup {None},
   listed : SUBSET Tabs]

TypeOK ==
  /\ page \in [Tabs -> {None, Profile, Gone} \cup Contexts]
  /\ contexts \subseteq Contexts
  /\ maker \in [Contexts -> Tabs \cup {None}]
  /\ link \in [Tabs -> {"none", "live", "ended"}]
  /\ owns \in [Tabs -> Contexts \cup {None}]
  /\ active \in Tabs \cup {None}
  /\ privateContexts \subseteq Contexts
  /\ privateTargets \in [Tabs -> Contexts \cup {None}]
  /\ op \in Operation
  /\ owner \in [Contexts -> Tabs \cup {None}]
  /\ closed \subseteq Tabs
  /\ excused \subseteq Tabs \cup Contexts
  /\ faults \in 0 .. MaxFaults

\* ClosedWhole.  "Closing the owning tab disposes the whole context"
\* (NewPrivateTab's comment): a tab that CloseTab has closed is gone, and so is
\* the private context made with it, whatever pages opened and closed, unless a
\* disposal failed or the tab's own connection had ended before.
ClosedWhole ==
  \A t \in closed \ excused :
    /\ ~Open(t)
    /\ \A c \in contexts \ excused : owner[c] # t

\* SaidPrivate.  Whoever lists the tabs is told of every page of a private
\* context that it is private, popups included, unless the disposal of the
\* context failed or is under way.
SaidPrivate ==
  /\ TypeOK
  /\ \A t \in OpenTabs :
       page[t] \in privateContexts \cup excused \cup {Profile, op.ctx}

\* The tab a call is about, and those of the private context it ends.
Concerned ==
  {op.tab} \cup {t \in Tabs : op.ctx # None /\ op.ctx \in {page[t], privateTargets[t]}}

\* NoBystander.  A call closes no tab the manager is attached to but the one it
\* is about and the pages of the private context it ends, or of one made over
\* their connections.
NoBystander ==
  [][\A t \in Live(OpenTabs) :
       op.call # "none" /\ op' # op /\ active' # None /\ page'[t] = Gone =>
         t \in Concerned \/ (page[t] \in Contexts /\ maker[page[t]] \in Concerned)]_vars

\* KeepsItsConnection.  No call ends the connection it works on, for the next
\* one would cancel every tab to connect again: only an owner closed while a
\* popup of its private context is shown, and a private tab that could not be
\* opened and left no other to return to, end it.
KeepsItsConnection ==
  [][op.call # "none" /\ op' # op /\ active' # None /\ Connected /\ ~Connected' =>
       \/ At("close", "dispose") /\ op.listed = {} /\ active \in Members
       \/ At("private", "navigate") /\ link[op.prev] # "live"]_vars

-----------------------------------------------------------------------------
(* What these rest on.                                                     *)

\* A page is nowhere but in a context there is.
PageInv == \A t \in Tabs : page[t] \in {None, Profile, Gone} \cup contexts

\* A private context was made over some connection.  The tab it was made with
\* was never anywhere else, and was made with no other.
OwnerInv == \A c \in Contexts :
  /\ c \in contexts \cup privateContexts => maker[c] # None
  /\ owner[c] # None =>
       /\ maker[c] # None
       /\ page[owner[c]] \in {c, Gone}
       /\ privateTargets[owner[c]] \in {None, c}
       /\ \A d \in Contexts : owner[d] = owner[c] => d = c

\* The manager is attached to tabs that were opened, and what one of them owns
\* is the private context made with it, of which the manager knows.
LinkInv == \A t \in Tabs :
  /\ link[t] # "none" => page[t] # None
  /\ owns[t] # None =>
       /\ link[t] # "none"
       /\ owner[owns[t]] = t
       /\ owns[t] \in privateContexts

\* No private context is forgotten: its owner has it, or the call under way.
KnownInv == contexts \subseteq privateContexts \cup excused \cup {op.ctx}

InHand(c) ==
  /\ op.ctx = c
  /\ \/ op.call = "private" /\ op.step \in {"attach", "dispose"}
     \/ At("close", "dispose")

HeldInv == \A c \in contexts \ excused :
  owner[c] # None => owns[owner[c]] = c \/ InHand(c)

\* What a call knows at each of its steps.
PrivateOp == op.call = "private" =>
  /\ op.step \in {"list", "create"} => op.ctx = None
  /\ op.step \in {"attach", "navigate"} =>
       /\ op.ctx \in privateContexts
       /\ op.tab \in Tabs /\ owner[op.ctx] = op.tab
       /\ op.prev \in Tabs \ {op.tab}
  /\ op.step = "attach" => owns[op.tab] = None
  /\ op.step = "dispose" => op.ctx \in Contexts /\ op.ctx \notin privateContexts

CloseOp == op.call = "close" =>
  /\ op.tab \in Tabs /\ page[op.tab] # None
  /\ op.step # "dispose" => op.ctx = None
  /\ op.step = "list" => op.listed = {}
  /\ op.step \in {"replace", "close"} => owns[op.tab] \in {None, privateTargets[op.tab]}
  /\ op.step = "replace" => op.listed # {}
  /\ op.step = "close" =>
       /\ active # op.tab
       /\ op.listed # {} /\ owns[op.tab] # None => privateTargets[active] # owns[op.tab]
  /\ op.step = "dispose" =>
       /\ op.ctx \in Contexts /\ owner[op.ctx] = op.tab
       /\ owns[op.tab] = None
       /\ op.tab \in excused \/ page[op.tab] = Gone
       /\ op.listed # {} => privateTargets[active] # op.ctx

OpInv ==
  /\ op.step = "idle" <=> op.call = "none"
  /\ op.call = "none" => op = Idle
  /\ op.call # "none" => active \in Tabs
  /\ op.call \in {"list", "new", "switch"} => op.ctx = None
  /\ op.call \in {"new", "switch"} /\ op.step = "attach" => op.tab \in Tabs
  /\ PrivateOp /\ CloseOp

ClosedInv == ClosedWhole /\ \A t \in closed : page[t] # None

IInv ==
  /\ TypeOK /\ PageInv /\ OwnerInv /\ LinkInv
  /\ KnownInv /\ HeldInv /\ OpInv /\ ClosedInv
=============================================================================
