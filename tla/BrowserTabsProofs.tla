-------------------------- MODULE BrowserTabsProofs --------------------------
(***************************************************************************)
(* Proofs about BrowserTabs, for any number of tabs, private contexts and  *)
(* faults.  IInv is inductive: the manager's maps and the call under way   *)
(* know every private context that was not given up.  That what is closed  *)
(* is closed whole and that private pages are said to be private are parts *)
(* of it; that no call closes a bystander or ends the connection it works  *)
(* on follow from what it knows at each of its steps.                      *)
(***************************************************************************)
EXTENDS BrowserTabs, TLAPS

USE TabsAssumption

-----------------------------------------------------------------------------
(* What Chromium may lose.                                                 *)

\* Pages close and private contexts end; nothing else changes.
Shrinks ==
  /\ page' \in [Tabs -> {None, Profile, Gone} \cup Contexts]
  /\ contexts' \subseteq contexts
  /\ maker' = maker
  /\ PageInv'
  /\ \A t \in Tabs : page'[t] \in {page[t], Gone} /\ (page[t] = None => page'[t] = None)

\* Closing is such a change: the tabs are closed, the contexts are over.
LEMMA ClosesShrinks ==
  ASSUME TypeOK, PageInv, NEW T, NEW C, Closes(T, C)
  PROVE  /\ Shrinks
         /\ contexts' = contexts \ C
         /\ \A t \in Tabs : t \in T /\ page[t] # None => page'[t] = Gone
<1>1. /\ page' = [t \in Tabs |-> IF Open(t) /\ (t \in T \/ page[t] \in C)
                                 THEN Gone ELSE page[t]]
      /\ contexts' = contexts \ C /\ maker' = maker
  BY DEF Closes, Without
<1>2. \A t \in Tabs : page'[t] \in {page[t], Gone} /\ (page[t] = None => page'[t] = None)
  BY <1>1 DEF Open, TypeOK
<1>3. \A t \in Tabs : t \in T /\ page[t] # None => page'[t] = Gone
  BY <1>1 DEF Open, TypeOK, PageInv
<1>4. PageInv'
  BY <1>1 DEF Open, TypeOK, PageInv
<1> QED
  BY <1>1, <1>2, <1>3, <1>4 DEF Shrinks, TypeOK

\* Nothing changes, to begin with.
LEMMA StillShrinks ==
  ASSUME TypeOK, PageInv, UNCHANGED chromium
  PROVE  Shrinks
BY DEF Shrinks, TypeOK, PageInv, chromium

\* Cancelling chromedp contexts closes their tabs, and may end what was made
\* over their connections.
LEMMA CancelsShrinks ==
  ASSUME TypeOK, PageInv, NEW T \in SUBSET Tabs, NEW C, Cancels(T, C)
  PROVE  /\ Shrinks
         /\ contexts' \cap C = {}
         /\ \A t \in T : link[t] = "live" /\ page[t] # None => page'[t] = Gone
<1>1. PICK D : Closes(Live(T), C \cup D)
  BY DEF Cancels
<1> QED
  BY <1>1, ClosesShrinks DEF Live

\* Attaching to a tab fails.
LEMMA AttachFailsShrinks ==
  ASSUME TypeOK, PageInv, NEW t, AttachFails(t)
  PROVE  Shrinks
BY ClosesShrinks DEF AttachFails

-----------------------------------------------------------------------------
(* What such a change leaves true of the manager.                          *)

\* Who owns which context is history: only the pages and the maps change
\* under it.
LEMMA OwnerStays ==
  ASSUME IInv, Shrinks, owner' = owner, privateContexts' \subseteq privateContexts,
         \A t \in Tabs : privateTargets'[t] \in {None, privateTargets[t]}
  PROVE  OwnerInv'
BY DEF IInv, TypeOK, Shrinks, OwnerInv

\* The manager lets go of contexts and of what they own, or does nothing to
\* them.
LEMMA LinkStays ==
  ASSUME IInv, Shrinks, owner' = owner,
         \A t \in Tabs :
           /\ link'[t] # "none" => page[t] # None
           /\ owns'[t] # None => /\ owns'[t] = owns[t] /\ link'[t] # "none"
                                 /\ owns[t] \in privateContexts'
  PROVE  LinkInv'
BY DEF IInv, TypeOK, Shrinks, LinkInv

\* What was closed stays closed, and nothing that went comes back.
LEMMA ClosedStays ==
  ASSUME IInv, Shrinks, UNCHANGED <<owner, closed>>, excused \subseteq excused'
  PROVE  ClosedInv'
BY DEF IInv, TypeOK, Shrinks, ClosedInv, ClosedWhole, PageInv, Open

\* The types, when only pages go.
LEMMA TypeStays ==
  ASSUME TypeOK, Shrinks, UNCHANGED <<manager, owner, closed>>, op' \in Operation,
         excused' \subseteq Tabs \cup Contexts, faults' \in 0 .. MaxFaults
  PROVE  TypeOK'
BY DEF TypeOK, Shrinks, manager

\* A fault is counted.
LEMMA FaultType == ASSUME TypeOK, Fault PROVE faults' \in 0 .. MaxFaults
BY DEF TypeOK, Fault

\* No call is under way, or a new one.
LEMMA IdleType == Idle \in Operation
BY DEF Idle, Operation

\* Pages and private contexts may go while a call is under way.
LEMMA GoneInv ==
  ASSUME IInv, Shrinks, UNCHANGED <<manager, op, owner, closed, excused>>,
         faults' \in 0 .. MaxFaults
  PROVE  IInv'
<1>1. TypeOK'
  BY TypeStays DEF IInv, TypeOK
<1>2. OwnerInv'
  BY OwnerStays DEF manager, IInv, TypeOK
<1>3. LinkInv'
  BY LinkStays DEF manager, IInv, LinkInv
<1>4. ClosedInv'
  BY ClosedStays
<1>5. KnownInv' /\ HeldInv'
  BY DEF IInv, Shrinks, KnownInv, HeldInv, InHand, At, manager
<1>6. OpInv'
  <2>1. PrivateOp'
    BY DEF IInv, OpInv, PrivateOp, manager
  <2>2. CloseOp'
    BY DEF IInv, OpInv, CloseOp, manager, Shrinks
  <2> QED
    BY <2>1, <2>2 DEF IInv, OpInv, manager
<1> QED
  BY <1>1, <1>2, <1>3, <1>4, <1>5, <1>6 DEF IInv, Shrinks

\* A call ends that has no private context in hand.
LEMMA CallEnds ==
  ASSUME IInv, Shrinks, UNCHANGED <<manager, history>>, op' = Idle,
         op.ctx = None \/ At("private", "navigate")
  PROVE  IInv'
<1>1. TypeOK'
  BY TypeStays, IdleType DEF IInv, TypeOK, history
<1>2. OwnerInv'
  BY OwnerStays DEF manager, history, IInv, TypeOK
<1>3. LinkInv'
  BY LinkStays DEF manager, history, IInv, LinkInv
<1>4. ClosedInv'
  BY ClosedStays DEF history
<1>5. KnownInv'
  BY DEF IInv, TypeOK, Shrinks, KnownInv, OpInv, PrivateOp, At, manager, history
<1>6. HeldInv'
  BY DEF IInv, TypeOK, Shrinks, HeldInv, InHand, OpInv, PrivateOp, At, manager, history
<1>7. OpInv'
  BY DEF OpInv, PrivateOp, CloseOp, Idle
<1> QED
  BY <1>1, <1>2, <1>3, <1>4, <1>5, <1>6, <1>7 DEF IInv, Shrinks

\* A call begins, or goes on to its next step, with no private context in hand
\* either way.
LEMMA CallInv ==
  ASSUME IInv, UNCHANGED <<chromium, manager, history>>,
         op' \in Operation, op.ctx = None, op'.ctx = None, OpInv'
  PROVE  IInv'
<1>1. Shrinks
  BY StillShrinks DEF IInv
<1>2. TypeOK'
  BY <1>1, TypeStays DEF IInv, TypeOK, history
<1>3. OwnerInv'
  BY <1>1, OwnerStays DEF manager, history, IInv, TypeOK
<1>4. LinkInv'
  BY <1>1, LinkStays DEF manager, history, IInv, LinkInv
<1>5. ClosedInv'
  BY <1>1, ClosedStays DEF history
<1>6. KnownInv' /\ HeldInv'
  BY DEF IInv, TypeOK, KnownInv, HeldInv, InHand, At, manager, history, chromium
<1> QED
  BY <1>1, <1>2, <1>3, <1>4, <1>5, <1>6 DEF IInv, Shrinks

-----------------------------------------------------------------------------
(* The environment.                                                        *)

\* Everything is gone, and the manager knows of nothing: it has connected to
\* one tab of the profile at most.
LEMMA NothingLeft ==
  ASSUME IInv,
         page' \in [Tabs -> {None, Profile, Gone}],
         \A t \in Tabs : /\ page[t] # None => page'[t] # None
                         /\ page[t] # Profile /\ page[t] # None => page'[t] = Gone
                         /\ t \in closed /\ ~Open(t) => page'[t] = Gone
                         /\ link'[t] # "none" => page'[t] # None,
         contexts' = {}, maker' = maker,
         link' \in [Tabs -> {"none", "live", "ended"}],
         owns' = [t \in Tabs |-> None], active' \in Tabs \cup {None},
         privateContexts' = {}, privateTargets' = [t \in Tabs |-> None],
         op' = Idle, UNCHANGED <<owner, closed, excused>>, faults' \in 0 .. MaxFaults
  PROVE  IInv'
<1>1. TypeOK'
  BY IdleType DEF IInv, TypeOK
<1>2. PageInv'
  BY DEF PageInv
<1>3. OwnerInv'
  BY DEF IInv, TypeOK, OwnerInv
<1>4. LinkInv' /\ KnownInv' /\ HeldInv'
  BY DEF LinkInv, KnownInv, HeldInv
<1>5. OpInv'
  BY DEF OpInv, PrivateOp, CloseOp, Idle
<1>6. ClosedInv'
  BY DEF IInv, TypeOK, ClosedInv, ClosedWhole, Open
<1> QED
  BY <1>1, <1>2, <1>3, <1>4, <1>5, <1>6 DEF IInv

\* A page that opens joins the context of the one that opened it; no map has
\* it yet.
LEMMA PageOpensInv == ASSUME IInv, NEW t \in Tabs, PageOpens(t) PROVE IInv'
<1>1. PICK by \in OpenTabs : page' = [page EXCEPT ![t] = page[by]]
  BY DEF PageOpens
<1>2. /\ page[t] = None /\ page[by] \in {Profile} \cup contexts
      /\ UNCHANGED <<contexts, maker, manager, op, history>>
  BY <1>1 DEF PageOpens, Unused, OpenTabs, Open
<1>3. TypeOK' /\ PageInv'
  BY <1>1, <1>2 DEF IInv, TypeOK, PageInv, manager, history
<1>4. OwnerInv'
  BY <1>1, <1>2 DEF IInv, TypeOK, OwnerInv, manager, history
<1>5. LinkInv' /\ KnownInv' /\ HeldInv'
  BY <1>1, <1>2 DEF IInv, TypeOK, LinkInv, KnownInv, HeldInv, InHand, At, manager, history
<1>6. PrivateOp'
  BY <1>1, <1>2 DEF IInv, OpInv, PrivateOp, manager, history
<1>7. CloseOp'
  BY <1>1, <1>2 DEF IInv, TypeOK, OpInv, CloseOp, manager, history
<1>8. OpInv'
  BY <1>2, <1>6, <1>7 DEF IInv, OpInv, manager, history
<1>9. ClosedInv'
  BY <1>1, <1>2 DEF IInv, TypeOK, ClosedInv, ClosedWhole, Open, history
<1> QED
  BY <1>3, <1>4, <1>5, <1>8, <1>9 DEF IInv

\* A page that closes leaves the maps as they are, its owner in them.
LEMMA PageClosesInv == ASSUME IInv, NEW t \in Tabs, PageCloses(t) PROVE IInv'
<1>1. Shrinks
  BY ClosesShrinks DEF PageCloses, IInv
<1> QED
  BY <1>1, GoneInv DEF PageCloses, history, IInv, TypeOK

\* A context that ends is still in the maps, with what it owns.
LEMMA LinkEndsInv == ASSUME IInv, NEW t \in Tabs, LinkEnds(t) PROVE IInv'
<1>1. PICK D \in SUBSET MadeOver({t}) : Closes({}, D)
  BY DEF LinkEnds
<1>2. Shrinks
  BY <1>1, ClosesShrinks DEF IInv
<1>3. /\ link[t] = "live" /\ link' = [link EXCEPT ![t] = "ended"]
      /\ UNCHANGED <<owns, active, privateContexts, privateTargets, op, owner, closed, excused>>
  BY DEF LinkEnds
<1>4. TypeOK'
  <2>1. faults' \in 0 .. MaxFaults
    BY FaultType DEF LinkEnds, IInv
  <2>2. link' \in [Tabs -> {"none", "live", "ended"}]
    BY <1>3 DEF IInv, TypeOK
  <2> QED
    BY <1>2, <1>3, <2>1, <2>2 DEF IInv, TypeOK, Shrinks
<1>5. OwnerInv'
  BY <1>2, <1>3, OwnerStays DEF IInv, TypeOK
<1>6. LinkInv'
  BY <1>2, <1>3, LinkStays DEF IInv, LinkInv, TypeOK
<1>7. ClosedInv'
  BY <1>2, <1>3, ClosedStays
<1>8. KnownInv' /\ HeldInv'
  BY <1>2, <1>3 DEF IInv, Shrinks, KnownInv, HeldInv, InHand, At
<1>9. PrivateOp' /\ CloseOp'
  BY <1>2, <1>3 DEF IInv, OpInv, PrivateOp, CloseOp, Shrinks
<1> QED
  BY <1>2, <1>3, <1>4, <1>5, <1>6, <1>7, <1>8, <1>9 DEF IInv, OpInv, Shrinks

\* A restarted worker knows nothing, and no private context is left to know
\* of.
LEMMA RestartInv == ASSUME IInv, Restart PROVE IInv'
<1>1. Closes({}, contexts)
  BY DEF Restart
<1>2. Shrinks /\ contexts' = {}
  BY <1>1, ClosesShrinks DEF IInv
<1>3. \A t \in Tabs : page[t] \in contexts => page'[t] = Gone
  BY <1>1 DEF Closes, Without, Open
<1>4. page' \in [Tabs -> {None, Profile, Gone}]
  BY <1>2 DEF Shrinks, PageInv
<1>5. \A t \in Tabs : /\ page[t] # None => page'[t] # None
                      /\ page[t] # Profile /\ page[t] # None => page'[t] = Gone
                      /\ t \in closed /\ ~Open(t) => page'[t] = Gone
                      /\ link'[t] # "none" => page'[t] # None
  BY <1>2, <1>3 DEF Restart, Shrinks, IInv, TypeOK, PageInv, ClosedInv, Open
<1> QED
  BY <1>2, <1>4, <1>5, NothingLeft, FaultType DEF Restart, IInv, Shrinks

\* Connecting again starts from empty maps; every private context is gone
\* first.
LEMMA EnsureConnectedInv == ASSUME IInv, EnsureConnected PROVE IInv'
<1> DEFINE left == Without(Live(Tabs), contexts)
           kept == {t \in Tabs : left[t] = Profile}
<1>1. /\ left \in [Tabs -> {None, Profile, Gone}]
      /\ \A t \in Tabs : /\ left[t] \in {page[t], Gone}
                         /\ page[t] = None <=> left[t] = None
  BY DEF Without, Open, IInv, TypeOK, PageInv
<1> HIDE DEF left
<1>2. /\ op' = Idle /\ contexts' = {} /\ maker' = maker
      /\ owns' = [t \in Tabs |-> None]
      /\ privateContexts' = {}
      /\ privateTargets' = [t \in Tabs |-> None]
      /\ UNCHANGED <<owner, closed, excused, faults>>
  BY DEF EnsureConnected, history
<1>3. CASE \E t \in kept \cup Unused :
             /\ page' = [left EXCEPT ![t] = Profile]
             /\ active' = t
             /\ link' = [s \in Tabs |-> IF s = t THEN "live" ELSE "none"]
  <2>1. PICK t \in kept \cup Unused :
             /\ page' = [left EXCEPT ![t] = Profile]
             /\ active' = t
             /\ link' = [s \in Tabs |-> IF s = t THEN "live" ELSE "none"]
    BY <1>3
  <2>2. t \in Tabs /\ page[t] \in {None, Profile}
    BY <1>1, <2>1 DEF Unused
  <2>3. \A s \in Tabs : /\ page[s] # None => page'[s] # None
                        /\ page[s] # Profile /\ page[s] # None => page'[s] = Gone
                        /\ s \in closed /\ ~Open(s) => page'[s] = Gone
                        /\ link'[s] # "none" => page'[s] # None
    BY <1>1, <2>1, <2>2 DEF IInv, TypeOK, PageInv, ClosedInv, Open
  <2> QED
    BY <1>1, <1>2, <2>1, <2>2, <2>3, NothingLeft DEF IInv, TypeOK
<1>4. CASE /\ page' \in {left} \cup {[left EXCEPT ![t] = Gone] : t \in kept}
           /\ active' = None
           /\ link' = [s \in Tabs |-> "none"]
  <2>1. page' \in [Tabs -> {None, Profile, Gone}]
    BY <1>1, <1>4
  <2>2. \A s \in Tabs : page'[s] \in {left[s], Gone} /\ (left[s] = None => page'[s] = None)
    BY <1>1, <1>4
  <2>3. \A s \in Tabs : /\ page[s] # None => page'[s] # None
                        /\ page[s] # Profile /\ page[s] # None => page'[s] = Gone
                        /\ s \in closed /\ ~Open(s) => page'[s] = Gone
                        /\ link'[s] # "none" => page'[s] # None
    BY <1>1, <1>4, <2>1, <2>2 DEF IInv, TypeOK, PageInv, ClosedInv, Open
  <2> QED
    BY <1>2, <1>4, <2>1, <2>3, NothingLeft DEF IInv, TypeOK
<1> QED
  BY <1>3, <1>4 DEF EnsureConnected, left

-----------------------------------------------------------------------------
(* A call's first steps.                                                   *)

\* A call begins with nothing in hand.
LEMMA CallBegins ==
  ASSUME IInv, NEW call \in {"list", "new", "private", "switch", "close"},
         NEW t \in Tabs \cup {None}, Call(call, t),
         call = "close" => t \in Tabs /\ page[t] # None
  PROVE  IInv'
<1>1. op' = [call |-> call, step |-> "list", tab |-> t, ctx |-> None,
             prev |-> None, listed |-> {}]
  BY DEF Call, Idle
<1>2. op = Idle /\ active \in Tabs /\ UNCHANGED <<chromium, manager, history>>
  BY DEF Call, Connected
<1>3. op' \in Operation
  BY <1>1 DEF Operation
<1>4. OpInv'
  BY <1>1, <1>2 DEF OpInv, PrivateOp, CloseOp, chromium, manager
<1> QED
  BY <1>1, <1>2, <1>3, <1>4, CallInv DEF Idle

\* Whatever is called when no call is under way.
LEMMA BeginInv == ASSUME IInv, Begin PROVE IInv'
<1>1. CASE EnsureConnected
  BY <1>1, EnsureConnectedInv
<1>2. CASE ListTabs
  BY <1>2, CallBegins DEF ListTabs
<1>3. CASE NewTab
  BY <1>3, CallBegins DEF NewTab
<1>4. CASE NewPrivateTab
  BY <1>4, CallBegins DEF NewPrivateTab
<1>5. ASSUME NEW t \in Tabs, SwitchTab(t) PROVE IInv'
  BY <1>5, CallBegins DEF SwitchTab
<1>6. ASSUME NEW t \in Tabs, CloseTab(t) PROVE IInv'
  BY <1>6, CallBegins DEF CloseTab
<1> QED
  BY <1>1, <1>2, <1>3, <1>4, <1>5, <1>6 DEF Begin

\* What a call does once it was shown the tabs: nothing but its step changes,
\* and what it is shown when the tab it closes is the active one.
LEMMA AfterListSteps ==
  ASSUME TypeOK, op.step = "list", NEW tabs \in SUBSET Tabs
  PROVE  LET after == AfterList(tabs) IN
         /\ after \in Operation
         /\ \/ after = Idle
            \/ /\ after.call = op.call /\ after.tab = op.tab /\ after.ctx = op.ctx
               /\ \/ op.call \in {"new", "private"} /\ after.step = "create"
                  \/ op.call = "switch" /\ after.step = "attach" /\ op.tab \in tabs
                  \/ /\ op.call = "close" /\ op.tab \in tabs
                     /\ IF op.tab = active
                        THEN after.step = "replace" /\ after.listed = tabs
                        ELSE after.step = "close" /\ after.listed = op.listed
<1>1. op \in Operation
  BY DEF TypeOK
<1>2. CASE op.call \in {"new", "private"} /\ Cardinality(tabs) < MaxTabs
  <2>1. AfterList(tabs) = [op EXCEPT !.step = "create"]
    BY <1>2 DEF AfterList, Step
  <2> QED
    BY <1>1, <1>2, <2>1 DEF Operation
<1>3. CASE op.call = "switch" /\ op.tab \in tabs
  <2>1. AfterList(tabs) = [op EXCEPT !.step = "attach"]
    BY <1>3 DEF AfterList, Step
  <2> QED
    BY <1>1, <1>3, <2>1 DEF Operation
<1>4. CASE op.call = "close" /\ op.tab \in tabs /\ tabs # {op.tab} /\ op.tab = active
  <2>1. AfterList(tabs) = [op EXCEPT !.step = "replace", !.listed = tabs]
    BY <1>4, <1>1 DEF AfterList, Step, Operation
  <2> QED
    BY <1>1, <1>4, <2>1 DEF Operation
<1>5. CASE op.call = "close" /\ op.tab \in tabs /\ tabs # {op.tab} /\ op.tab # active
  <2>1. AfterList(tabs) = [op EXCEPT !.step = "close"]
    BY <1>5 DEF AfterList, Step
  <2> QED
    BY <1>1, <1>5, <2>1 DEF Operation
<1>6. CASE /\ ~(op.call \in {"new", "private"} /\ Cardinality(tabs) < MaxTabs)
           /\ ~(op.call = "switch" /\ op.tab \in tabs)
           /\ ~(op.call = "close" /\ op.tab \in tabs /\ tabs # {op.tab})
  BY <1>6, IdleType DEF AfterList
<1> QED
  BY <1>2, <1>3, <1>4, <1>5, <1>6

\* The listing: privateTargets are those of the tabs shown.
LEMMA TabsListedInv == ASSUME IInv, TabsListed PROVE IInv'
<1>1. /\ op.step = "list" /\ active \in Tabs
      /\ privateTargets' = [t \in Tabs |-> IF Open(t) /\ page[t] \in privateContexts
                                           THEN page[t] ELSE None]
      /\ op' = AfterList(OpenTabs)
      /\ UNCHANGED <<chromium, link, owns, active, privateContexts, history>>
  BY DEF TabsListed, Connected
<1>2. op.ctx = None /\ op \in Operation /\ op.call # "none"
  BY <1>1 DEF IInv, TypeOK, OpInv, PrivateOp, CloseOp, Operation
<1>3. OpenTabs \in SUBSET Tabs
  BY DEF OpenTabs
<1>4. Shrinks
  BY <1>1, StillShrinks DEF IInv
<1>5. TypeOK'
  <2>1. privateTargets' \in [Tabs -> Contexts \cup {None}]
    BY <1>1 DEF IInv, TypeOK
  <2>2. op' \in Operation
    BY <1>1, <1>3, AfterListSteps DEF IInv
  <2> QED
    BY <1>1, <2>1, <2>2 DEF IInv, TypeOK, chromium, history
<1>6. OwnerInv'
  BY <1>1 DEF IInv, TypeOK, OwnerInv, Open, chromium, history
<1>7. LinkInv'
  BY <1>1, <1>4, LinkStays DEF IInv, LinkInv, history
<1>8. ClosedInv'
  BY <1>1, <1>4, ClosedStays DEF history
<1>9. KnownInv' /\ HeldInv'
  BY <1>1, <1>2 DEF IInv, TypeOK, KnownInv, HeldInv, InHand, At, chromium, history
<1>10. OpInv'
  <2>1. CASE op' = Idle
    BY <2>1 DEF OpInv, PrivateOp, CloseOp, Idle
  <2>2. CASE op' # Idle
    <3>1. /\ op'.call = op.call /\ op'.tab = op.tab /\ op'.ctx = None
          /\ \/ op.call \in {"new", "private"} /\ op'.step = "create"
             \/ op.call = "switch" /\ op'.step = "attach" /\ op.tab \in OpenTabs
             \/ /\ op.call = "close" /\ op.tab \in OpenTabs
                /\ IF op.tab = active
                   THEN op'.step = "replace" /\ op'.listed = OpenTabs
                   ELSE op'.step = "close" /\ op'.listed = op.listed
      BY <1>1, <1>2, <1>3, <2>2, AfterListSteps DEF IInv
    <3>2. PrivateOp'
      BY <3>1 DEF PrivateOp
    <3>3. CloseOp'
      \* The tab is open, so what it owns is where it is.
      <4>1. ASSUME op.call = "close", op.tab \in OpenTabs
            PROVE  owns[op.tab] \in {None, privateTargets'[op.tab]}
        BY <1>1, <4>1 DEF IInv, TypeOK, LinkInv, OwnerInv, OpenTabs, Open
      <4> QED
        BY <1>1, <3>1, <4>1 DEF CloseOp, IInv, OpInv, chromium, Open, OpenTabs
    <3> QED
      BY <1>1, <1>2, <3>1, <3>2, <3>3 DEF OpInv, IInv, OpenTabs
  <2> QED
    BY <2>1, <2>2
<1> QED
  BY <1>4, <1>5, <1>6, <1>7, <1>8, <1>9, <1>10 DEF IInv, Shrinks

-----------------------------------------------------------------------------
(* Opening and attaching.                                                  *)

\* A call that fails has nothing in hand.
LEMMA CallFailsInv == ASSUME IInv, CallFails PROVE IInv'
<1>1. op.ctx = None
  BY DEF CallFails, At, IInv, TypeOK, Operation, OpInv, PrivateOp, CloseOp
<1>2. Shrinks
  BY StillShrinks DEF CallFails, IInv
<1> QED
  BY <1>1, <1>2, CallEnds DEF CallFails

\* A tab that was opened is a page of the profile.
LEMMA TargetCreatedInv == ASSUME IInv, NEW t \in Tabs, TargetCreated(t) PROVE IInv'
<1>1. /\ op.call = "new" /\ active \in Tabs /\ page[t] = None /\ op.ctx = None
      /\ page' = [page EXCEPT ![t] = Profile]
      /\ UNCHANGED <<contexts, maker, manager, history>>
  BY DEF TargetCreated, At, Connected, Unused, IInv, OpInv
<1>2. /\ op' = Idle \/ (op'.call = "new" /\ op'.step = "attach" /\ op'.tab = t)
      /\ op'.ctx = None /\ op' \in Operation
  <2>1. CASE op' = Idle
    BY <2>1, IdleType DEF Idle
  <2>2. CASE op' = [op EXCEPT !.step = "attach", !.tab = t]
    BY <1>1, <2>2 DEF IInv, TypeOK, Operation
  <2>3. op' = Idle \/ op' = [op EXCEPT !.step = "attach", !.tab = t]
    BY DEF TargetCreated, Step
  <2> QED
    BY <2>1, <2>2, <2>3
<1>3. TypeOK' /\ PageInv'
  BY <1>1, <1>2 DEF IInv, TypeOK, PageInv, manager, history
<1>4. OwnerInv'
  BY <1>1 DEF IInv, TypeOK, OwnerInv, manager, history
<1>5. LinkInv' /\ KnownInv' /\ HeldInv'
  BY <1>1, <1>2 DEF IInv, TypeOK, LinkInv, KnownInv, HeldInv, InHand, At, manager, history
<1>6. OpInv'
  BY <1>1, <1>2 DEF OpInv, PrivateOp, CloseOp, Idle, manager
<1>7. ClosedInv'
  BY <1>1 DEF IInv, TypeOK, ClosedInv, ClosedWhole, Open, history
<1> QED
  BY <1>3, <1>4, <1>5, <1>6, <1>7 DEF IInv

\* A private context is new: nobody owns it, and it is in no map.
LEMMA ContextMadeNew ==
  ASSUME IInv, NEW c, ContextMade(c)
  PROVE  /\ c \in Contexts /\ c \notin contexts /\ owner[c] = None
         /\ active \in Tabs /\ op.call = "private" /\ op.step = "create" /\ op.ctx = None
         /\ contexts' = contexts \cup {c} /\ maker' = [maker EXCEPT ![c] = active]
         /\ \A t \in Tabs : owns[t] # c /\ page[t] # c
BY DEF ContextMade, At, Connected, IInv, TypeOK, OwnerInv, LinkInv, OpInv, PrivateOp, PageInv

\* A private context that was made is in the maps and in hand.
LEMMA PrivateCreatedInv ==
  ASSUME IInv, NEW c \in Contexts, NEW t \in Tabs, PrivateCreated(c, t)
  PROVE  IInv'
<1>1. /\ c \notin contexts /\ owner[c] = None /\ active \in Tabs
      /\ op.call = "private" /\ op.ctx = None
      /\ contexts' = contexts \cup {c} /\ maker' = [maker EXCEPT ![c] = active]
      /\ \A s \in Tabs : owns[s] # c /\ page[s] # c
  BY ContextMadeNew DEF PrivateCreated
<1>2. /\ page[t] = None /\ page' = [page EXCEPT ![t] = c]
      /\ privateContexts' = privateContexts \cup {c}
      /\ privateTargets' = [privateTargets EXCEPT ![t] = c]
      /\ owner' = [owner EXCEPT ![c] = t]
      /\ op' = [op EXCEPT !.step = "attach", !.tab = t, !.ctx = c, !.prev = active]
      /\ UNCHANGED <<link, owns, active, closed, excused, faults>>
  BY DEF PrivateCreated, Unused, Step
<1>3. /\ op'.call = "private" /\ op'.step = "attach" /\ op'.tab = t /\ op'.ctx = c
      /\ op'.prev = active /\ op' \in Operation
  BY <1>1, <1>2 DEF IInv, TypeOK, Operation
\* Its tab is one nobody knows, the active one least of all.
<1>4. /\ t # active /\ owns[t] = None /\ link[t] = "none"
      /\ \A d \in Contexts : owner[d] # t
  <2>1. link[active] = "live"
    BY DEF PrivateCreated, ContextMade, Connected
  <2>2. link[t] = "none" /\ owns[t] = None
    BY <1>2 DEF IInv, TypeOK, LinkInv
  <2>3. \A d \in Contexts : owner[d] # t
    BY <1>2 DEF IInv, OwnerInv
  <2> QED
    BY <2>1, <2>2, <2>3
<1>5. TypeOK' /\ PageInv'
  BY <1>1, <1>2, <1>3 DEF IInv, TypeOK, PageInv
<1>6. OwnerInv'
  <2> SUFFICES ASSUME NEW d \in Contexts
               PROVE  /\ d \in contexts' \cup privateContexts' => maker'[d] # None
                      /\ owner'[d] # None =>
                           /\ maker'[d] # None
                           /\ page'[owner'[d]] \in {d, Gone}
                           /\ privateTargets'[owner'[d]] \in {None, d}
                           /\ \A e \in Contexts : owner'[e] = owner'[d] => e = d
    BY DEF OwnerInv
  <2>1. CASE d = c
    BY <1>1, <1>2, <1>4, <2>1 DEF IInv, TypeOK
  <2>2. CASE d # c
    BY <1>1, <1>2, <1>4, <2>2 DEF IInv, TypeOK, OwnerInv
  <2> QED
    BY <2>1, <2>2
<1>7. LinkInv'
  BY <1>1, <1>2, <1>4 DEF IInv, TypeOK, LinkInv
<1>8. KnownInv'
  BY <1>1, <1>2, <1>3 DEF IInv, TypeOK, KnownInv
<1>9. HeldInv'
  <2> SUFFICES ASSUME NEW d \in contexts' \ excused', owner'[d] # None
               PROVE  owns'[owner'[d]] = d \/ InHand(d)'
    BY DEF HeldInv
  <2>1. CASE d = c
    BY <1>3, <2>1 DEF InHand
  <2>2. CASE d # c
    BY <1>1, <1>2, <2>2 DEF IInv, TypeOK, HeldInv, InHand
  <2> QED
    BY <2>1, <2>2
<1>10. OpInv'
  BY <1>1, <1>2, <1>3, <1>4 DEF OpInv, PrivateOp, CloseOp, IInv, TypeOK
<1>11. ClosedInv'
  BY <1>1, <1>2, <1>4 DEF IInv, TypeOK, PageInv, ClosedInv, ClosedWhole, Open
<1> QED
  BY <1>5, <1>6, <1>7, <1>8, <1>9, <1>10, <1>11 DEF IInv

\* One whose making failed half-way is in hand to be disposed of, or given
\* up.
LEMMA PrivateFailsInv == ASSUME IInv, NEW c \in Contexts, PrivateFails(c) PROVE IInv'
<1>1. /\ c \notin contexts /\ owner[c] = None /\ active \in Tabs
      /\ op.call = "private" /\ op.ctx = None
      /\ contexts' = contexts \cup {c} /\ maker' = [maker EXCEPT ![c] = active]
      /\ \A s \in Tabs : owns[s] # c /\ page[s] # c
  BY ContextMadeNew DEF PrivateFails
<1>2. UNCHANGED <<manager, owner, closed>> /\ faults' \in 0 .. MaxFaults
  BY FaultType DEF PrivateFails, IInv
\* Either the context is given up, or it is in hand.
<1>3. /\ page' \in [Tabs -> {None, Profile, Gone} \cup Contexts]
      /\ \A t \in Tabs : page'[t] = page[t] \/ (page[t] = None /\ page'[t] = c)
      /\ op' \in Operation
      /\ \/ op' = Idle /\ excused' = excused \cup {c}
         \/ /\ op'.call = "private" /\ op'.step = "dispose" /\ op'.ctx = c
            /\ excused' = excused
  <2>1. CASE op' = Idle /\ excused' = excused \cup {c} /\ UNCHANGED page
    BY <2>1, IdleType DEF IInv, TypeOK
  <2>2. CASE /\ op' = [op EXCEPT !.step = "dispose", !.ctx = c]
             /\ page' \in {page} \cup {[page EXCEPT ![t] = c] : t \in Unused}
             /\ UNCHANGED excused
    <3>1. op'.call = "private" /\ op'.step = "dispose" /\ op'.ctx = c /\ op' \in Operation
      BY <1>1, <2>2 DEF IInv, TypeOK, Operation
    <3>2. /\ page' \in [Tabs -> {None, Profile, Gone} \cup Contexts]
          /\ \A t \in Tabs : page'[t] = page[t] \/ (page[t] = None /\ page'[t] = c)
      BY <2>2 DEF IInv, TypeOK, Unused
    <3> QED
      BY <2>2, <3>1, <3>2
  <2> QED
    BY <2>1, <2>2 DEF PrivateFails, Step
<1>4. TypeOK'
  BY <1>1, <1>2, <1>3 DEF IInv, TypeOK, manager
<1>5. PageInv'
  BY <1>1, <1>3 DEF IInv, PageInv
<1>6. OwnerInv'
  BY <1>1, <1>2, <1>3 DEF IInv, TypeOK, OwnerInv, manager
<1>7. LinkInv'
  BY <1>1, <1>2, <1>3 DEF IInv, TypeOK, LinkInv, manager
<1>8. KnownInv' /\ HeldInv'
  BY <1>1, <1>2, <1>3 DEF IInv, TypeOK, KnownInv, HeldInv, InHand, At, manager
<1>9. OpInv'
  <2>1. c \notin privateContexts
    BY DEF PrivateFails, ContextMade, IInv, OwnerInv
  <2> QED
    BY <1>1, <1>2, <1>3, <2>1 DEF OpInv, PrivateOp, CloseOp, Idle, manager
<1>10. ClosedInv'
  BY <1>1, <1>2, <1>3 DEF IInv, TypeOK, PageInv, ClosedInv, ClosedWhole, Open
<1> QED
  BY <1>4, <1>5, <1>6, <1>7, <1>8, <1>9, <1>10 DEF IInv

\* Attaching to a tab takes at most what the tab owned itself, and then what
\* was made with it is excused.
LEMMA AttachFacts ==
  ASSUME IInv, NEW t \in Tabs, Attach(t)
  PROVE  /\ active' = t
         /\ link' \in [Tabs -> {"none", "live", "ended"}] /\ link'[t] = "live"
         /\ \A s \in Tabs : link[s] # "none" => link'[s] # "none"
         /\ \A s \in Tabs : link'[s] # "none" => page[s] # None
         /\ owns' \in [Tabs -> Contexts \cup {None}]
         /\ \A s \in Tabs : owns'[s] \in {None, owns[s]} /\ (s # t => owns'[s] = owns[s])
         /\ excused \subseteq excused' /\ excused' \subseteq Tabs \cup Contexts
         /\ \A c \in contexts \ excused' : owner[c] = t => owns'[t] = owns[t]
<1>1. CASE Reactivate(t)
  BY <1>1 DEF Reactivate, IInv, TypeOK, LinkInv
<1>2. CASE AttachNew(t)
  <2>1. /\ link[t] # "live" /\ Open(t)
        /\ active' = t
        /\ link' = [link EXCEPT ![t] = "live"]
        /\ owns' = [owns EXCEPT ![t] = None]
        /\ excused' = excused \cup {c \in contexts : owner[c] = t}
    BY <1>2 DEF AttachNew
  <2>2. excused' \subseteq Tabs \cup Contexts
    BY <2>1 DEF IInv, TypeOK
  <2>3. \A s \in Tabs : link'[s] # "none" => page[s] # None
    BY <2>1 DEF IInv, TypeOK, LinkInv, Open
  <2> QED
    BY <2>1, <2>2, <2>3 DEF IInv, TypeOK
<1> QED
  BY <1>1, <1>2 DEF Attach

\* What attaching leaves true, whatever the call's next step.
LEMMA AttachKeeps ==
  ASSUME IInv, NEW t \in Tabs, Attach(t), op' \in Operation,
         UNCHANGED <<chromium, privateContexts, privateTargets, owner, closed, faults>>
  PROVE  TypeOK' /\ PageInv' /\ OwnerInv' /\ LinkInv' /\ ClosedInv'
<1>1. Shrinks
  BY StillShrinks DEF IInv
<1>2. TypeOK'
  BY AttachFacts DEF IInv, TypeOK, chromium
<1>3. OwnerInv'
  BY <1>1, OwnerStays DEF IInv, TypeOK
<1>4. LinkInv'
  <2>1. \A s \in Tabs : owns'[s] # None =>
          owns'[s] = owns[s] /\ link'[s] # "none" /\ owns[s] \in privateContexts'
    BY AttachFacts DEF IInv, LinkInv
  <2> QED
    BY <1>1, <2>1, AttachFacts, LinkStays
<1>5. ClosedInv'
  BY <1>1, AttachFacts, ClosedStays
<1> QED
  BY <1>1, <1>2, <1>3, <1>4, <1>5 DEF Shrinks

\* A tab that is shown owns what it owned, or what it owned is given up.
LEMMA ActivateInv == ASSUME IInv, Activate PROVE IInv'
<1>1. /\ op.tab \in Tabs /\ op.ctx = None /\ op.call # "private" /\ op.call # "close"
      /\ Attach(op.tab) /\ op' = Idle
      /\ UNCHANGED <<chromium, privateContexts, privateTargets, owner, closed, faults>>
  BY DEF Activate, IInv, OpInv
<1>2. TypeOK' /\ PageInv' /\ OwnerInv' /\ LinkInv' /\ ClosedInv'
  BY <1>1, AttachKeeps, IdleType
<1>3. KnownInv'
  BY <1>1, AttachFacts DEF IInv, TypeOK, KnownInv, chromium
<1>4. HeldInv'
  <2> SUFFICES ASSUME NEW c \in contexts' \ excused', owner'[c] # None
               PROVE  owns'[owner'[c]] = c
    BY DEF HeldInv
  <2>1. c \in contexts \ excused /\ owner'[c] = owner[c] /\ owner[c] \in Tabs
    BY <1>1, AttachFacts DEF chromium, IInv, TypeOK
  <2>2. owns[owner[c]] = c
    BY <1>1, <2>1 DEF IInv, HeldInv, InHand, At
  <2> QED
    BY <1>1, <2>1, <2>2, AttachFacts DEF chromium
<1>5. OpInv'
  BY <1>1 DEF OpInv, PrivateOp, CloseOp, Idle
<1> QED
  BY <1>2, <1>3, <1>4, <1>5 DEF IInv

\* One that could not be shown was nobody's owner in hand.
LEMMA ActivateFailsInv == ASSUME IInv, ActivateFails PROVE IInv'
<1>1. op.ctx = None /\ Shrinks
  BY AttachFailsShrinks DEF ActivateFails, IInv, OpInv
<1> QED
  BY <1>1, CallEnds DEF ActivateFails

\* The private tab that is shown takes over what the call had in hand.
LEMMA PrivateActivatedInv == ASSUME IInv, PrivateActivated PROVE IInv'
<1>1. /\ op.call = "private" /\ op.step = "attach"
      /\ active' = op.tab
      /\ link' = [link EXCEPT ![op.tab] = "live"]
      /\ owns' = [owns EXCEPT ![op.tab] = op.ctx]
      /\ op' = [op EXCEPT !.step = "navigate"]
      /\ UNCHANGED <<chromium, privateContexts, privateTargets, history>>
      /\ Open(op.tab)
  BY DEF PrivateActivated, At, Step
<1>2. /\ op.tab \in Tabs /\ op.ctx \in privateContexts /\ op.ctx \in Contexts
      /\ owner[op.ctx] = op.tab /\ owns[op.tab] = None /\ page[op.tab] # None
      /\ op.prev \in Tabs \ {op.tab} /\ op \in Operation
  BY <1>1 DEF IInv, TypeOK, OpInv, PrivateOp, Open
<1>3. /\ op'.call = "private" /\ op'.step = "navigate" /\ op'.tab = op.tab
      /\ op'.ctx = op.ctx /\ op'.prev = op.prev /\ op' \in Operation
  BY <1>1, <1>2 DEF Operation
<1>4. Shrinks
  BY <1>1, StillShrinks DEF IInv
<1>5. TypeOK'
  BY <1>1, <1>2, <1>3 DEF IInv, TypeOK, chromium, history
<1>6. OwnerInv'
  BY <1>1, <1>4, OwnerStays DEF IInv, TypeOK, history
<1>7. LinkInv'
  BY <1>1, <1>2 DEF IInv, TypeOK, LinkInv, chromium, history
<1>8. KnownInv'
  BY <1>1, <1>3 DEF IInv, KnownInv, chromium, history
\* The context in hand is the tab's own from now on.
<1>9. HeldInv'
  <2> SUFFICES ASSUME NEW c \in contexts' \ excused', owner'[c] # None
               PROVE  owns'[owner'[c]] = c
    BY DEF HeldInv
  <2>1. c \in contexts \ excused /\ owner'[c] = owner[c] /\ owner[c] \in Tabs /\ c \in Contexts
    BY <1>1 DEF chromium, history, IInv, TypeOK
  <2>2. CASE c = op.ctx
    BY <1>1, <1>2, <2>1, <2>2 DEF IInv, TypeOK
  <2>3. CASE c # op.ctx
    <3>1. owner[c] # op.tab
      BY <1>2, <2>1, <2>3 DEF IInv, OwnerInv
    <3>2. owns[owner[c]] = c
      BY <2>1, <2>3 DEF IInv, HeldInv, InHand
    <3> QED
      BY <1>1, <2>1, <3>1, <3>2 DEF IInv, TypeOK
  <2> QED
    BY <2>2, <2>3
<1>10. OpInv'
  BY <1>1, <1>2, <1>3 DEF OpInv, PrivateOp, CloseOp, history
<1>11. ClosedInv'
  BY <1>1, <1>4, ClosedStays DEF history
<1> QED
  BY <1>4, <1>5, <1>6, <1>7, <1>8, <1>9, <1>10, <1>11 DEF IInv, Shrinks

\* One that could not be shown leaves its context in hand, to be disposed of.
LEMMA PrivateActivateFailsInv == ASSUME IInv, PrivateActivateFails PROVE IInv'
<1>1. /\ op.call = "private" /\ op.step = "attach"
      /\ privateContexts' = privateContexts \ {op.ctx}
      /\ privateTargets' = [privateTargets EXCEPT ![op.tab] = None]
      /\ op' = [op EXCEPT !.step = "dispose"]
      /\ UNCHANGED <<link, owns, active, history>>
      /\ Shrinks
  BY AttachFailsShrinks DEF PrivateActivateFails, Forgotten, At, Step, IInv
<1>2. /\ op.tab \in Tabs /\ op.ctx \in Contexts /\ active \in Tabs
      /\ owner[op.ctx] = op.tab /\ owns[op.tab] = None /\ op \in Operation
  BY <1>1 DEF IInv, TypeOK, OpInv, PrivateOp
<1>3. /\ op'.call = "private" /\ op'.step = "dispose" /\ op'.ctx = op.ctx
      /\ op' \in Operation
  BY <1>1, <1>2 DEF Operation
<1>4. TypeOK'
  BY <1>1, <1>3 DEF IInv, TypeOK, Shrinks, history
<1>5. OwnerInv'
  BY <1>1, OwnerStays DEF IInv, TypeOK, history
<1>6. LinkInv'
  <2>1. \A t \in Tabs : owns[t] # op.ctx
    BY <1>2 DEF IInv, TypeOK, LinkInv
  <2> QED
    BY <1>1, <2>1, LinkStays DEF IInv, LinkInv, history
<1>7. KnownInv'
  BY <1>1, <1>3 DEF IInv, KnownInv, Shrinks, history
<1>8. HeldInv'
  BY <1>1, <1>2, <1>3 DEF IInv, TypeOK, HeldInv, InHand, Shrinks, history
<1>9. OpInv'
  BY <1>1, <1>2, <1>3 DEF OpInv, PrivateOp, CloseOp
<1>10. ClosedInv'
  BY <1>1, ClosedStays DEF history
<1> QED
  BY <1>1, <1>4, <1>5, <1>6, <1>7, <1>8, <1>9, <1>10 DEF IInv, Shrinks

\* Once it is navigated, the tab and not the call holds the context.
LEMMA PrivateNavigatedInv == ASSUME IInv, PrivateNavigated PROVE IInv'
<1>1. Shrinks
  BY StillShrinks DEF PrivateNavigated, IInv
<1> QED
  BY <1>1, CallEnds DEF PrivateNavigated

\* The tab that was made is let go, and perhaps the one before attached again.
LEMMA PrivateNavigateFailsInv == ASSUME IInv, PrivateNavigateFails PROVE IInv'
<1>1. /\ op.call = "private" /\ op.step = "navigate"
      /\ privateContexts' = privateContexts \ {op.ctx}
      /\ privateTargets' = [privateTargets EXCEPT ![op.tab] = None]
      /\ op' = [op EXCEPT !.step = "dispose"]
      /\ UNCHANGED <<owner, closed, faults>>
  BY DEF PrivateNavigateFails, Forgotten, At, Step
<1>2. /\ op.tab \in Tabs /\ op.ctx \in Contexts /\ active \in Tabs
      /\ owner[op.ctx] = op.tab /\ op.prev \in Tabs \ {op.tab} /\ op \in Operation
  BY <1>1 DEF IInv, TypeOK, OpInv, PrivateOp
<1>3. /\ op'.call = "private" /\ op'.step = "dispose" /\ op'.ctx = op.ctx
      /\ op' \in Operation
  BY <1>1, <1>2 DEF Operation
<1>4. /\ Shrinks
      /\ active' \in Tabs
      /\ link' \in [Tabs -> {"none", "live", "ended"}]
      /\ \A t \in Tabs : /\ link'[t] # "none" => page[t] # None
                         /\ t # op.tab /\ link[t] # "none" => link'[t] # "none"
      /\ owns' \in [Tabs -> Contexts \cup {None}]
      /\ owns'[op.tab] = None
      /\ \A t \in Tabs : owns'[t] \in {None, owns[t]}
      /\ excused \subseteq excused' /\ excused' \subseteq Tabs \cup Contexts
      /\ \A c \in contexts \ excused' :
           owner[c] \in Tabs \ {op.tab} => owns'[owner[c]] = owns[owner[c]]
  <2>1. CASE /\ link[op.prev] = "live" \/ Open(op.prev)
             /\ active' = op.prev
             /\ link' = [link EXCEPT ![op.prev] = "live", ![op.tab] = "none"]
             /\ owns' = [t \in Tabs |-> IF t = op.tab \/ (t = op.prev /\ link[t] # "live")
                                        THEN None ELSE owns[t]]
             /\ excused' = IF link[op.prev] = "live" THEN excused
                           ELSE excused \cup {c \in contexts : owner[c] = op.prev}
             /\ Cancels({op.tab}, {})
    <3>1. Shrinks
      BY <1>2, <2>1, CancelsShrinks DEF IInv
    <3>2. page[op.prev] # None
      BY <1>2, <2>1 DEF IInv, TypeOK, LinkInv, Open
    <3>3. \A t \in Tabs : /\ link'[t] # "none" => page[t] # None
                          /\ t # op.tab /\ link[t] # "none" => link'[t] # "none"
      BY <1>2, <2>1, <3>2 DEF IInv, TypeOK, LinkInv
    <3>4. excused \subseteq excused' /\ excused' \subseteq Tabs \cup Contexts
      BY <2>1 DEF IInv, TypeOK
    <3>5. \A c \in contexts \ excused' :
            owner[c] \in Tabs \ {op.tab} => owns'[owner[c]] = owns[owner[c]]
      BY <2>1
    <3> QED
      BY <1>2, <2>1, <3>1, <3>3, <3>4, <3>5 DEF IInv, TypeOK
  <2>2. CASE /\ link[op.prev] # "live"
             /\ Cancels({op.tab}, {}) \/ Closes(Live({op.tab}) \cup {op.prev}, {})
             /\ link' = [link EXCEPT ![op.tab] = "none"]
             /\ owns' = [owns EXCEPT ![op.tab] = None]
             /\ UNCHANGED <<active, excused>>
    <3>1. Shrinks
      BY <1>2, <2>2, CancelsShrinks, ClosesShrinks DEF IInv
    <3>2. \A t \in Tabs : /\ link'[t] # "none" => page[t] # None
                          /\ t # op.tab /\ link[t] # "none" => link'[t] # "none"
      BY <1>2, <2>2 DEF IInv, TypeOK, LinkInv
    <3> QED
      BY <1>2, <2>2, <3>1, <3>2 DEF IInv, TypeOK
  <2> QED
    BY <2>1, <2>2 DEF PrivateNavigateFails
<1>5. TypeOK'
  <2>1. privateTargets' \in [Tabs -> Contexts \cup {None}] /\ privateContexts' \subseteq Contexts
    BY <1>1 DEF IInv, TypeOK
  <2> QED
    BY <1>1, <1>3, <1>4, <2>1 DEF IInv, TypeOK, Shrinks
<1>6. OwnerInv'
  BY <1>1, <1>4, OwnerStays DEF IInv, TypeOK
<1>7. LinkInv'
  <2>1. \A t \in Tabs : owns'[t] # op.ctx
    BY <1>2, <1>4 DEF IInv, TypeOK, LinkInv
  <2>2. \A t \in Tabs : owns'[t] # None =>
          owns'[t] = owns[t] /\ link'[t] # "none" /\ owns[t] \in privateContexts'
    BY <1>1, <1>4, <2>1 DEF IInv, LinkInv
  <2> QED
    BY <1>1, <1>4, <2>2, LinkStays
<1>8. KnownInv'
  BY <1>1, <1>3, <1>4 DEF IInv, KnownInv, Shrinks
<1>9. HeldInv'
  <2> SUFFICES ASSUME NEW c \in contexts' \ excused', owner'[c] # None
               PROVE  owns'[owner'[c]] = c \/ InHand(c)'
    BY DEF HeldInv
  <2>1. c \in contexts \ excused /\ c \in Contexts /\ owner'[c] = owner[c] /\ owner[c] \in Tabs
    BY <1>1, <1>4 DEF IInv, TypeOK, Shrinks
  <2>2. CASE c = op.ctx
    BY <1>3, <2>2 DEF InHand
  <2>3. CASE c # op.ctx
    <3>1. owner[c] # op.tab
      BY <1>2, <2>1, <2>3 DEF IInv, OwnerInv
    <3>2. owns[owner[c]] = c
      BY <2>1, <2>3 DEF IInv, HeldInv, InHand
    <3> QED
      BY <1>4, <2>1, <3>1, <3>2
  <2> QED
    BY <2>2, <2>3
<1>10. OpInv'
  BY <1>1, <1>2, <1>3, <1>4 DEF OpInv, PrivateOp, CloseOp
<1>11. ClosedInv'
  BY <1>1, <1>4, ClosedStays
<1> QED
  BY <1>4, <1>5, <1>6, <1>7, <1>8, <1>9, <1>10, <1>11 DEF IInv, Shrinks

-----------------------------------------------------------------------------
(* Closing.                                                                *)

\* Another tab is shown in place of the one that is closed.
LEMMA TabReplacedInv == ASSUME IInv, NEW t \in Tabs, TabReplaced(t) PROVE IInv'
<1>1. /\ op.call = "close" /\ op.step = "replace"
      /\ t \in op.listed /\ t # op.tab
      /\ owns[op.tab] = None \/ privateTargets[t] # privateTargets[op.tab]
      /\ Attach(t)
      /\ op' = [op EXCEPT !.step = "close"]
      /\ UNCHANGED <<chromium, privateContexts, privateTargets, owner, closed, faults>>
  BY DEF TabReplaced, Replaces, At, Step
<1>2. /\ op.tab \in Tabs /\ page[op.tab] # None /\ op.ctx = None /\ op.listed # {}
      /\ owns[op.tab] \in {None, privateTargets[op.tab]} /\ op \in Operation
  BY <1>1 DEF IInv, TypeOK, OpInv, CloseOp
<1>3. /\ op'.call = "close" /\ op'.step = "close" /\ op'.tab = op.tab /\ op'.ctx = None
      /\ op'.listed = op.listed /\ op' \in Operation
  BY <1>1, <1>2 DEF Operation
<1>4. TypeOK' /\ PageInv' /\ OwnerInv' /\ LinkInv' /\ ClosedInv'
  BY <1>1, <1>3, AttachKeeps
<1>5. KnownInv'
  BY <1>1, <1>2, <1>3, AttachFacts DEF IInv, KnownInv, chromium
<1>6. HeldInv'
  <2> SUFFICES ASSUME NEW c \in contexts' \ excused', owner'[c] # None
               PROVE  owns'[owner'[c]] = c
    BY DEF HeldInv
  <2>1. c \in contexts \ excused /\ owner'[c] = owner[c] /\ owner[c] \in Tabs
    BY <1>1, AttachFacts DEF chromium, IInv, TypeOK
  <2>2. owns[owner[c]] = c
    BY <1>1, <2>1 DEF IInv, HeldInv, InHand, At
  <2> QED
    BY <1>1, <2>1, <2>2, AttachFacts DEF chromium
<1>7. OpInv'
  <2>1. active' = t /\ owns'[op.tab] \in {None, owns[op.tab]}
    BY <1>1, <1>2, AttachFacts
  <2>2. CloseOp'
    BY <1>1, <1>2, <1>3, <2>1 DEF CloseOp, chromium
  <2> QED
    BY <1>3, <2>1, <2>2 DEF OpInv, PrivateOp
<1> QED
  BY <1>4, <1>5, <1>6, <1>7 DEF IInv

\* CloseTab fails before it has anything in hand, when no other tab can be
\* shown ...
LEMMA ReplaceFailsInv == ASSUME IInv, ReplaceFails PROVE IInv'
<1>1. op.ctx = None
  BY DEF ReplaceFails, At, IInv, OpInv, CloseOp
<1>2. Shrinks
  BY AttachFailsShrinks, StillShrinks DEF ReplaceFails, IInv
<1> QED
  BY <1>1, <1>2, CallEnds DEF ReplaceFails

\* ... or when a tab it was not attached to cannot be attached.
LEMMA CloseFailsInv == ASSUME IInv, CloseFails PROVE IInv'
<1>1. op.ctx = None
  BY DEF CloseFails, At, IInv, OpInv, CloseOp
<1>2. Shrinks
  BY StillShrinks DEF CloseFails, IInv
<1> QED
  BY <1>1, <1>2, CallEnds DEF CloseFails

\* A tab that the manager was attached to: one that owns nothing is closed,
\* the context of an owner is in hand.
LEMMA ManagedClosedInv == ASSUME IInv, ManagedClosed PROVE IInv'
<1>1. /\ op.call = "close" /\ op.step = "close" /\ link[op.tab] # "none"
      /\ Cancels({op.tab}, {})
      /\ link' = [link EXCEPT ![op.tab] = "none"]
      /\ owns' = [owns EXCEPT ![op.tab] = None]
      /\ privateTargets' = [privateTargets EXCEPT ![op.tab] = None]
      /\ excused' = IF link[op.tab] = "ended" THEN excused \cup {op.tab} ELSE excused
      /\ UNCHANGED <<active, privateContexts, owner, faults>>
  BY DEF ManagedClosed, At
<1>2. /\ op.tab \in Tabs /\ page[op.tab] # None /\ op.ctx = None /\ active \in Tabs
      /\ active # op.tab /\ op \in Operation
      /\ op.listed # {} /\ owns[op.tab] # None => privateTargets[active] # owns[op.tab]
  BY <1>1 DEF IInv, TypeOK, OpInv, CloseOp
<1>3. Shrinks /\ (op.tab \in excused' \/ page'[op.tab] = Gone)
  <2>1. Shrinks /\ (link[op.tab] = "live" => page'[op.tab] = Gone)
    BY <1>1, <1>2, CancelsShrinks DEF IInv
  <2> QED
    BY <1>1, <1>2, <2>1 DEF IInv, TypeOK
<1>4. excused \subseteq excused' /\ excused' \subseteq Tabs \cup Contexts
  BY <1>1, <1>2 DEF IInv, TypeOK
<1>5. \/ owns[op.tab] = None /\ op' = Idle /\ closed' = closed \cup {op.tab}
      \/ /\ owns[op.tab] \in Contexts /\ owner[owns[op.tab]] = op.tab
         /\ op'.call = "close" /\ op'.step = "dispose" /\ op'.tab = op.tab
         /\ op'.ctx = owns[op.tab] /\ op'.listed = op.listed
         /\ op' \in Operation /\ closed' = closed
  <2>1. CASE owns[op.tab] = None
    BY <2>1 DEF ManagedClosed
  <2>2. CASE owns[op.tab] # None
    <3>1. op' = [op EXCEPT !.step = "dispose", !.ctx = owns[op.tab]] /\ closed' = closed
      BY <2>2 DEF ManagedClosed, Step
    <3>2. owns[op.tab] \in Contexts /\ owner[owns[op.tab]] = op.tab
      BY <1>2, <2>2 DEF IInv, TypeOK, LinkInv
    <3> QED
      BY <1>1, <1>2, <3>1, <3>2 DEF Operation
  <2> QED
    BY <2>1, <2>2
<1>6. TypeOK'
  BY <1>1, <1>2, <1>3, <1>4, <1>5, IdleType DEF IInv, TypeOK, Shrinks
<1>7. OwnerInv'
  BY <1>1, <1>3, OwnerStays DEF IInv, TypeOK
<1>8. LinkInv'
  BY <1>1, <1>2, <1>3, LinkStays DEF IInv, TypeOK, LinkInv
<1>9. KnownInv'
  BY <1>1, <1>2, <1>3, <1>4 DEF IInv, TypeOK, KnownInv, Shrinks
<1>10. \A c \in contexts' \ excused' :
         owner[c] # None => /\ owns[owner[c]] = c
                            /\ owner[c] # op.tab => owns'[owner[c]] = c
                            /\ owner[c] = op.tab => owns[op.tab] = c
  BY <1>1, <1>2, <1>3, <1>4 DEF IInv, TypeOK, HeldInv, InHand, At, Shrinks
<1>11. HeldInv'
  BY <1>1, <1>2, <1>3, <1>5, <1>10 DEF IInv, TypeOK, HeldInv, InHand, At, Shrinks
<1>12. OpInv'
  <2>1. CASE op' = Idle
    BY <2>1 DEF OpInv, PrivateOp, CloseOp, Idle
  <2>2. CASE op' # Idle
    <3>1. privateTargets'[active] = privateTargets[active] /\ owns'[op.tab] = None
      BY <1>1, <1>2 DEF IInv, TypeOK
    <3>2. page'[op.tab] # None
      BY <1>2, <1>3 DEF Shrinks
    <3> QED
      BY <1>1, <1>2, <1>3, <1>5, <2>2, <3>1, <3>2 DEF OpInv, PrivateOp, CloseOp
  <2> QED
    BY <2>1, <2>2
<1>13. ClosedInv'
  <2>1. \A t \in closed : page'[t] # None
    BY <1>3 DEF IInv, TypeOK, ClosedInv, Shrinks
  <2>2. \A t \in closed \ excused' : page'[t] = Gone /\ \A c \in contexts' \ excused' : owner[c] # t
    BY <1>3, <1>4 DEF IInv, TypeOK, PageInv, ClosedInv, ClosedWhole, Open, Shrinks
  <2>3. CASE closed' = closed \cup {op.tab} /\ owns[op.tab] = None
    <3>1. \A c \in contexts' \ excused' : owner[c] # op.tab
      BY <1>2, <1>3, <1>10, <2>3 DEF IInv, TypeOK, Shrinks
    <3> QED
      BY <1>1, <1>2, <1>3, <2>1, <2>2, <2>3, <3>1
         DEF ClosedInv, ClosedWhole, Open, Shrinks, IInv, TypeOK
  <2>4. CASE closed' = closed
    BY <1>1, <1>3, <2>1, <2>2, <2>4 DEF ClosedInv, ClosedWhole, Open, Shrinks, IInv, TypeOK
  <2> QED
    BY <1>5, <2>3, <2>4
<1> QED
  BY <1>3, <1>6, <1>7, <1>8, <1>9, <1>11, <1>12, <1>13 DEF IInv, Shrinks

\* A tab the manager was not attached to owns nothing.
LEMMA UnmanagedClosedInv == ASSUME IInv, UnmanagedClosed PROVE IInv'
<1>1. /\ op.call = "close" /\ op.step = "close" /\ link[op.tab] = "none"
      /\ Open(op.tab)
      /\ privateTargets' = [privateTargets EXCEPT ![op.tab] = None]
      /\ closed' = closed \cup {op.tab}
      /\ op' = Idle
      /\ UNCHANGED <<link, owns, active, privateContexts, owner, excused, faults>>
  BY DEF UnmanagedClosed, At
<1>2. op.tab \in Tabs /\ op.ctx = None /\ page[op.tab] # None /\ owns[op.tab] = None
  BY <1>1 DEF IInv, TypeOK, OpInv, CloseOp, LinkInv
<1>3. Shrinks /\ page'[op.tab] = Gone
  BY <1>2, ClosesShrinks DEF UnmanagedClosed, IInv
<1>4. TypeOK'
  BY <1>1, <1>2, <1>3, IdleType DEF IInv, TypeOK, Shrinks
<1>5. OwnerInv'
  BY <1>1, <1>3, OwnerStays DEF IInv, TypeOK
<1>6. LinkInv'
  BY <1>1, <1>3, LinkStays DEF IInv, LinkInv
<1>7. KnownInv'
  BY <1>1, <1>2, <1>3 DEF IInv, TypeOK, KnownInv, Shrinks
<1>8. HeldInv'
  BY <1>1, <1>3 DEF IInv, HeldInv, InHand, At, Shrinks
<1>9. OpInv'
  BY <1>1 DEF OpInv, PrivateOp, CloseOp, Idle
<1>10. ClosedInv'
  <2>1. \A c \in contexts \ excused : owner[c] # op.tab
    BY <1>1, <1>2 DEF IInv, TypeOK, HeldInv, InHand, At
  <2> QED
    BY <1>1, <1>2, <1>3, <2>1
       DEF IInv, TypeOK, PageInv, ClosedInv, ClosedWhole, Open, Shrinks
<1> QED
  BY <1>3, <1>4, <1>5, <1>6, <1>7, <1>8, <1>9, <1>10 DEF IInv, Shrinks

\* What is in hand is disposed of, or given up.
LEMMA DisposesFacts ==
  ASSUME IInv, NEW T \in SUBSET Tabs, Disposes(T), op.ctx \in Contexts
  PROVE  /\ Shrinks /\ faults' \in 0 .. MaxFaults
         /\ excused' \in {excused, excused \cup {op.ctx}}
         /\ op.ctx \notin contexts' \ excused'
<1>1. CASE Connected /\ Cancels(T, {op.ctx}) /\ UNCHANGED <<excused, faults>>
  BY <1>1, CancelsShrinks DEF IInv, TypeOK
<1>2. CASE /\ Cancels(T, {})
           /\ excused' = excused \cup {op.ctx}
           /\ IF Connected THEN Fault ELSE UNCHANGED faults
  <2>1. faults' \in 0 .. MaxFaults
    BY <1>2, FaultType DEF IInv, TypeOK
  <2> QED
    BY <1>2, <2>1, CancelsShrinks DEF IInv
<1> QED
  BY <1>1, <1>2 DEF Disposes

\* What NewPrivateTab had in hand is gone or given up, and the call ends.
LEMMA PrivateDisposedInv == ASSUME IInv, PrivateDisposed PROVE IInv'
<1>1. /\ op.call = "private" /\ op.step = "dispose" /\ op.ctx \in Contexts
      /\ op' = Idle /\ UNCHANGED <<manager, owner, closed>>
  BY DEF PrivateDisposed, At, IInv, OpInv, PrivateOp
<1>2. /\ Shrinks /\ faults' \in 0 .. MaxFaults
      /\ excused' \in {excused, excused \cup {op.ctx}}
      /\ op.ctx \notin contexts' \ excused'
  BY <1>1, DisposesFacts DEF PrivateDisposed
<1>3. TypeOK'
  BY <1>1, <1>2, TypeStays, IdleType DEF IInv, TypeOK
<1>4. OwnerInv' /\ LinkInv' /\ ClosedInv'
  BY <1>1, <1>2, OwnerStays, LinkStays, ClosedStays DEF manager, IInv, TypeOK, LinkInv
<1>5. KnownInv' /\ HeldInv'
  BY <1>1, <1>2 DEF IInv, KnownInv, HeldInv, InHand, At, Shrinks, manager
<1>6. OpInv'
  BY <1>1 DEF OpInv, PrivateOp, CloseOp, Idle
<1> QED
  BY <1>2, <1>3, <1>4, <1>5, <1>6 DEF IInv, Shrinks

\* So is what CloseTab had in hand, and its owner is closed with every other
\* member.
LEMMA OwnerClosedInv == ASSUME IInv, OwnerClosed PROVE IInv'
<1>1. /\ op.call = "close" /\ op.step = "dispose"
      /\ Disposes(Members)
      /\ link' = [t \in Tabs |-> IF t \in Members THEN "none" ELSE link[t]]
      /\ owns' = [t \in Tabs |-> IF t \in Members THEN None ELSE owns[t]]
      /\ privateContexts' = privateContexts \ {op.ctx}
      /\ privateTargets' = [t \in Tabs |-> IF t \in Members THEN None ELSE privateTargets[t]]
      /\ closed' = closed \cup {op.tab}
      /\ op' = Idle
      /\ UNCHANGED <<active, owner>>
  BY DEF OwnerClosed, At
<1>2. /\ op.tab \in Tabs /\ page[op.tab] # None
      /\ op.ctx \in Contexts /\ owner[op.ctx] = op.tab /\ owns[op.tab] = None
      /\ op.tab \in excused \/ page[op.tab] = Gone
  BY <1>1 DEF IInv, OpInv, CloseOp
<1>3. /\ Shrinks /\ faults' \in 0 .. MaxFaults
      /\ excused' \in {excused, excused \cup {op.ctx}}
      /\ op.ctx \notin contexts' \ excused'
  BY <1>1, <1>2, DisposesFacts DEF Members
\* Nobody else owns the context, and its members own no other one.
<1>4. /\ \A t \in Tabs : owns[t] # op.ctx
      /\ \A t \in Members : owns[t] = None
  BY <1>2 DEF IInv, TypeOK, LinkInv, OwnerInv, Members
<1>5. TypeOK'
  BY <1>1, <1>2, <1>3, IdleType DEF IInv, TypeOK, Shrinks
<1>6. OwnerInv'
  BY <1>1, <1>3, OwnerStays DEF IInv, TypeOK
<1>7. LinkInv'
  BY <1>1, <1>3, <1>4, LinkStays DEF IInv, LinkInv
<1>8. KnownInv'
  BY <1>1, <1>3 DEF IInv, KnownInv, Shrinks
<1>9. HeldInv'
  <2> SUFFICES ASSUME NEW c \in contexts' \ excused', owner'[c] # None
               PROVE  owns'[owner'[c]] = c
    BY DEF HeldInv
  <2>1. c \in contexts \ excused /\ c # op.ctx /\ owner'[c] = owner[c] /\ owner[c] \in Tabs
    BY <1>1, <1>3 DEF IInv, TypeOK, Shrinks
  <2>2. owns[owner[c]] = c
    BY <2>1 DEF IInv, HeldInv, InHand
  <2> QED
    BY <1>1, <1>4, <2>1, <2>2 DEF IInv, TypeOK
<1>10. OpInv'
  BY <1>1 DEF OpInv, PrivateOp, CloseOp, Idle
<1>11. ClosedInv'
  <2>1. \A c \in contexts' \ excused' : owner[c] # op.tab
    BY <1>2, <1>3 DEF IInv, TypeOK, OwnerInv, Shrinks
  <2>2. op.tab \in excused' \/ page'[op.tab] = Gone
    BY <1>2, <1>3 DEF Shrinks
  <2>3. page'[op.tab] # None
    BY <1>2, <1>3 DEF Shrinks
  <2> QED
    BY <1>1, <1>3, <2>1, <2>2, <2>3
       DEF IInv, TypeOK, PageInv, ClosedInv, ClosedWhole, Open, Shrinks
<1> QED
  BY <1>3, <1>5, <1>6, <1>7, <1>8, <1>9, <1>10, <1>11 DEF IInv, Shrinks

-----------------------------------------------------------------------------
(* The invariant.                                                          *)

\* Chromium starts with one tab, of which the manager knows nothing.
LEMMA InitInv == Init => IInv
<1> SUFFICES ASSUME Init PROVE IInv
  OBVIOUS
<1>1. PICK first \in Tabs : page = [t \in Tabs |-> IF t = first THEN Profile ELSE None]
  BY DEF Init
<1>2. TypeOK /\ PageInv
  BY <1>1, IdleType DEF Init, TypeOK, PageInv
<1>3. OwnerInv /\ LinkInv /\ KnownInv /\ HeldInv
  BY <1>2 DEF Init, OwnerInv, LinkInv, KnownInv, HeldInv
<1>4. OpInv
  BY DEF Init, OpInv, PrivateOp, CloseOp, Idle
<1>5. ClosedInv
  BY DEF Init, ClosedInv, ClosedWhole
<1> QED
  BY <1>2, <1>3, <1>4, <1>5 DEF IInv

\* Each step of a call under way.
LEMMA ContinueInv == ASSUME IInv, Continue PROVE IInv'
<1>1. CASE TabsListed
  BY <1>1, TabsListedInv
<1>2. CASE CallFails
  BY <1>2, CallFailsInv
<1>3. CASE \E t \in Tabs : TargetCreated(t) \/ TabReplaced(t)
  BY <1>3, TargetCreatedInv, TabReplacedInv
<1>4. CASE \E c \in Contexts : PrivateFails(c) \/ \E t \in Tabs : PrivateCreated(c, t)
  BY <1>4, PrivateFailsInv, PrivateCreatedInv
<1>5. CASE Activate \/ ActivateFails
  BY <1>5, ActivateInv, ActivateFailsInv
<1>6. CASE PrivateActivated \/ PrivateActivateFails
  BY <1>6, PrivateActivatedInv, PrivateActivateFailsInv
<1>7. CASE PrivateNavigated \/ PrivateNavigateFails \/ PrivateDisposed
  BY <1>7, PrivateNavigatedInv, PrivateNavigateFailsInv, PrivateDisposedInv
<1>8. CASE ReplaceFails \/ CloseFails
  BY <1>8, ReplaceFailsInv, CloseFailsInv
<1>9. CASE ManagedClosed \/ UnmanagedClosed \/ OwnerClosed
  BY <1>9, ManagedClosedInv, UnmanagedClosedInv, OwnerClosedInv
<1> QED
  BY <1>1, <1>2, <1>3, <1>4, <1>5, <1>6, <1>7, <1>8, <1>9 DEF Continue

\* Every step keeps the invariant.
LEMMA NextInv == IInv /\ [Next]_vars => IInv'
<1> SUFFICES ASSUME IInv, [Next]_vars PROVE IInv'
  OBVIOUS
<1>1. CASE Environment
  BY <1>1, PageOpensInv, PageClosesInv, LinkEndsInv, RestartInv DEF Environment
<1>2. CASE Begin
  BY <1>2, BeginInv
<1>3. CASE Continue
  BY <1>3, ContinueInv
<1>4. CASE UNCHANGED vars
  <2>1. Shrinks
    BY <1>4, StillShrinks DEF vars, IInv
  <2> QED
    BY <1>4, <2>1, GoneInv DEF vars, history, IInv, TypeOK
<1> QED
  BY <1>1, <1>2, <1>3, <1>4 DEF Next

\* The manager's maps and the call that holds the mutex know every private
\* context that was not given up, whatever pages, connections and the worker
\* do between two steps of a call.
THEOREM InvariantHolds == Spec => []IInv
BY InitInv, NextInv, PTL DEF Spec

\* A tab that CloseTab closed is gone with the private context it was made
\* with, popups included (CloseTab, disposeBrowserContextBestEffortLocked).
THEOREM ClosedWholeHolds == Spec => []ClosedWhole
<1>1. IInv => ClosedWhole
  BY DEF IInv, ClosedInv
<1> QED
  BY <1>1, InvariantHolds, PTL

\* Every page of a private context is one that listTabsLocked says is private,
\* but while its context is disposed of and when that failed.
THEOREM SaidPrivateHolds == Spec => []SaidPrivate
<1>1. IInv => SaidPrivate
  BY DEF IInv, SaidPrivate, KnownInv, OpenTabs, Open
<1> QED
  BY <1>1, InvariantHolds, PTL

\* A call under way makes a step of its own, unless the worker restarts.
LEMMA CallGoesOn ==
  ASSUME Next, op.call # "none", op' # op, active' # None
  PROVE  Continue
<1>1. ~Environment
  BY DEF Environment, PageOpens, PageCloses, LinkEnds, Restart
<1>2. Begin => op = Idle
  BY DEF Begin, EnsureConnected, ListTabs, NewTab, NewPrivateTab, SwitchTab, CloseTab, Call
<1> QED
  BY <1>1, <1>2 DEF Next, Idle

-----------------------------------------------------------------------------
(* What a call may close.                                                  *)

\* Closing closes what it is told to.
LEMMA ClosesOnly ==
  ASSUME TypeOK, NEW T, NEW C, Closes(T, C),
         NEW t \in Tabs, Open(t), page'[t] = Gone
  PROVE  t \in T \/ page[t] \in C
BY DEF Closes, Without, Open, TypeOK

\* Cancelling the contexts of T closes their tabs, what is disposed of, and
\* what was made over their connections.
LEMMA CancelsOnly ==
  ASSUME TypeOK, NEW T \in SUBSET Tabs, NEW C, Cancels(T, C),
         NEW t \in Tabs, Open(t), page'[t] = Gone
  PROVE  t \in T \/ page[t] \in C \/ (page[t] \in Contexts /\ maker[page[t]] \in T)
<1>1. PICK D \in SUBSET MadeOver(Live(T)) : Closes(Live(T), C \cup D)
  BY DEF Cancels
<1>2. t \in Live(T) \/ page[t] \in C \/ page[t] \in D
  BY <1>1, ClosesOnly
<1> QED
  BY <1>2 DEF Live, MadeOver, TypeOK

\* Disposing of the context in hand, likewise.
LEMMA DisposesOnly ==
  ASSUME TypeOK, NEW T \in SUBSET Tabs, Disposes(T),
         NEW t \in Tabs, Open(t), page'[t] = Gone
  PROVE  t \in T \/ page[t] = op.ctx \/ (page[t] \in Contexts /\ maker[page[t]] \in T)
BY CancelsOnly DEF Disposes

\* Attaching fails on a tab that is not attached.
LEMMA AttachFailsOnly ==
  ASSUME TypeOK, NEW s, AttachFails(s), NEW t \in Tabs, Open(t), page'[t] = Gone
  PROVE  t = s /\ link[t] # "live"
BY ClosesOnly DEF AttachFails

\* NewTab and NewPrivateTab close what they made, CloseTab what it was asked to.
LEMMA StepClosesConcerned ==
  ASSUME IInv, Continue, NEW t \in Tabs, Open(t), link[t] = "live", page'[t] = Gone
  PROVE  t \in Concerned \/ (page[t] \in Contexts /\ maker[page[t]] \in Concerned)
<1> USE DEF At
<1>1. page'[t] # page[t] /\ op.tab \in Concerned
  BY DEF IInv, TypeOK, Open, Concerned
<1>2. CASE TabsListed \/ CallFails \/ Activate \/ PrivateActivated \/ PrivateNavigated \/ CloseFails
  BY <1>1, <1>2 DEF TabsListed, CallFails, Activate, PrivateActivated, PrivateNavigated,
                    CloseFails, chromium
<1>3. ASSUME NEW s \in Tabs, TargetCreated(s) \/ TabReplaced(s) PROVE FALSE
  BY <1>1, <1>3 DEF TargetCreated, TabReplaced, chromium, IInv, TypeOK
<1>4. ASSUME NEW c \in Contexts, NEW s \in Tabs, PrivateFails(c) \/ PrivateCreated(c, s)
      PROVE  FALSE
  BY <1>1, <1>4 DEF PrivateFails, PrivateCreated, IInv, TypeOK
<1>5. CASE ActivateFails \/ PrivateActivateFails
  BY <1>1, <1>5, AttachFailsOnly DEF ActivateFails, PrivateActivateFails, IInv
<1>6. CASE PrivateNavigateFails
  <2>1. op.tab \in Tabs
    BY <1>6 DEF PrivateNavigateFails, IInv, OpInv, PrivateOp
  <2>2. CASE Cancels({op.tab}, {})
    BY <1>1, <2>1, <2>2, CancelsOnly DEF IInv
  <2>3. CASE link[op.prev] # "live" /\ Closes(Live({op.tab}) \cup {op.prev}, {})
    BY <1>1, <2>3, ClosesOnly DEF IInv, Live
  <2> QED
    BY <1>6, <2>2, <2>3 DEF PrivateNavigateFails
<1>7. CASE PrivateDisposed
  <2>1. op.ctx \in Contexts
    BY <1>7 DEF PrivateDisposed, IInv, OpInv, PrivateOp
  <2> QED
    BY <1>7, <2>1, DisposesOnly DEF PrivateDisposed, IInv, Concerned
<1>8. CASE ReplaceFails
  BY <1>1, <1>8, AttachFailsOnly DEF ReplaceFails, IInv, chromium
<1>9. CASE ManagedClosed
  <2>1. op.tab \in Tabs
    BY <1>9 DEF ManagedClosed, IInv, OpInv, CloseOp
  <2>2. Cancels({op.tab}, {})
    BY <1>9 DEF ManagedClosed
  <2> QED
    BY <1>1, <2>1, <2>2, CancelsOnly DEF IInv
<1>10. CASE UnmanagedClosed
  BY <1>1, <1>10, ClosesOnly DEF UnmanagedClosed, IInv
<1>11. CASE OwnerClosed
  <2>1. op.ctx \in Contexts
    BY <1>11 DEF OwnerClosed, IInv, OpInv, CloseOp
  <2>2. Members \subseteq Concerned /\ Members \subseteq Tabs
    BY <2>1 DEF Members, Concerned
  <2> QED
    BY <1>11, <2>1, <2>2, DisposesOnly DEF OwnerClosed, IInv, Concerned
<1> QED
  BY <1>2, <1>3, <1>4, <1>5, <1>6, <1>7, <1>8, <1>9, <1>10, <1>11 DEF Continue

\* No call takes a tab from whoever works on it but the one it is about, the
\* pages of the private context it ends and what was made over their
\* connections, although each cancels contexts of the manager's maps.
THEOREM NoBystanderHolds == Spec => NoBystander
<1>1. IInv /\ [Next]_vars =>
        [\A t \in Live(OpenTabs) :
           op.call # "none" /\ op' # op /\ active' # None /\ page'[t] = Gone =>
             t \in Concerned \/ (page[t] \in Contexts /\ maker[page[t]] \in Concerned)]_vars
  <2> SUFFICES ASSUME IInv, Next, NEW t \in Live(OpenTabs),
                      op.call # "none", op' # op, active' # None, page'[t] = Gone
               PROVE  t \in Concerned \/ (page[t] \in Contexts /\ maker[page[t]] \in Concerned)
    OBVIOUS
  <2>1. t \in Tabs /\ Open(t) /\ link[t] = "live"
    BY DEF Live, OpenTabs
  <2>2. Continue
    BY CallGoesOn
  <2> QED
    BY <2>1, <2>2, StepClosesConcerned
<1> QED
  BY <1>1, InvariantHolds, PTL DEF Spec, NoBystander

-----------------------------------------------------------------------------
(* What a call may do to its connection.                                   *)

\* Attaching to a tab is being connected to it.
LEMMA AttachConnects ==
  ASSUME IInv, NEW t \in Tabs, Attach(t)
  PROVE  Connected'
BY AttachFacts DEF Connected

\* A step that leaves the active tab's context alone leaves the connection.
LEMMA StaysConnected ==
  ASSUME Connected, active' = active, link'[active] = link[active]
  PROVE  Connected'
BY DEF Connected

\* CloseTab has another tab activated before it cancels the active one, and
\* NewPrivateTab the tab before; but an owner that was not shown takes every
\* popup with it, the one that is shown too.
LEMMA StepStaysConnected ==
  ASSUME IInv, Continue, Connected, ~Connected'
  PROVE  \/ At("close", "dispose") /\ op.listed = {} /\ active \in Members
         \/ At("private", "navigate") /\ link[op.prev] # "live"
<1>1. active \in Tabs /\ link[active] = "live"
  BY DEF Connected
<1>2. ~(UNCHANGED <<link, active>>)
  BY <1>1, StaysConnected
<1>3. CASE TabsListed \/ CallFails \/ ActivateFails \/ PrivateNavigated \/ PrivateActivateFails
           \/ PrivateDisposed \/ ReplaceFails \/ UnmanagedClosed \/ CloseFails
  BY <1>2, <1>3 DEF TabsListed, CallFails, ActivateFails, PrivateNavigated, PrivateActivateFails,
                    PrivateDisposed, ReplaceFails, UnmanagedClosed, CloseFails, manager
<1>4. /\ \A t \in Tabs : ~TargetCreated(t)
      /\ \A c \in Contexts : ~PrivateFails(c) /\ \A t \in Tabs : ~PrivateCreated(c, t)
  BY <1>2 DEF TargetCreated, PrivateFails, PrivateCreated, manager
<1>5. ASSUME NEW t \in Tabs, TabReplaced(t) PROVE FALSE
  BY <1>5, AttachConnects DEF TabReplaced
<1>6. CASE Activate
  BY <1>6, AttachConnects DEF Activate, IInv, OpInv
<1>7. CASE PrivateActivated
  <2>1. op.tab \in Tabs /\ active' = op.tab /\ link' = [link EXCEPT ![op.tab] = "live"]
    BY <1>7 DEF PrivateActivated, At, IInv, OpInv, PrivateOp
  <2> QED
    BY <2>1 DEF Connected, IInv, TypeOK
<1>8. CASE PrivateNavigateFails
  \* The tab before is another one, so its context is not the one cancelled.
  <2>1. op.prev \in Tabs \ {op.tab}
    BY <1>8 DEF PrivateNavigateFails, At, IInv, OpInv, PrivateOp
  <2>2. \/ active' = op.prev /\ link' = [link EXCEPT ![op.prev] = "live", ![op.tab] = "none"]
        \/ link[op.prev] # "live"
    BY <1>8 DEF PrivateNavigateFails
  <2>3. link[op.prev] # "live"
    BY <2>1, <2>2 DEF Connected, IInv, TypeOK
  <2> QED
    BY <1>8, <2>3 DEF PrivateNavigateFails
<1>9. CASE ManagedClosed
  <2>1. active # op.tab /\ active' = active /\ link' = [link EXCEPT ![op.tab] = "none"]
    BY <1>9 DEF ManagedClosed, At, IInv, OpInv, CloseOp
  <2> QED
    BY <1>1, <2>1, StaysConnected DEF IInv, TypeOK
<1>10. CASE OwnerClosed
  <2>1. /\ At("close", "dispose") /\ active' = active
        /\ link' = [t \in Tabs |-> IF t \in Members THEN "none" ELSE link[t]]
    BY <1>10 DEF OwnerClosed
  <2>2. active \in Members
    BY <1>1, <2>1, StaysConnected
  <2>3. op.listed = {}
    BY <2>1, <2>2 DEF At, IInv, OpInv, CloseOp, Members
  <2> QED
    BY <2>1, <2>2, <2>3
<1> QED
  BY <1>3, <1>4, <1>5, <1>6, <1>7, <1>8, <1>9, <1>10 DEF Continue

\* A call that was connected when it made a step is connected after it, with
\* the two exceptions the code has: an owner closed while one of its popups is
\* shown, and a private tab that failed to open with no tab to return to.
THEOREM KeepsItsConnectionHolds == Spec => KeepsItsConnection
<1>1. IInv /\ [Next]_vars =>
        [op.call # "none" /\ op' # op /\ active' # None /\ Connected /\ ~Connected' =>
           \/ At("close", "dispose") /\ op.listed = {} /\ active \in Members
           \/ At("private", "navigate") /\ link[op.prev] # "live"]_vars
  <2> SUFFICES ASSUME IInv, Next, op.call # "none", op' # op, active' # None,
                      Connected, ~Connected'
               PROVE  \/ At("close", "dispose") /\ op.listed = {} /\ active \in Members
                      \/ At("private", "navigate") /\ link[op.prev] # "live"
    OBVIOUS
  <2>1. Continue
    BY CallGoesOn
  <2> QED
    BY <2>1, StepStaysConnected
<1> QED
  BY <1>1, InvariantHolds, PTL DEF Spec, KeepsItsConnection
=============================================================================
