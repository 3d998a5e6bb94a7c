------------------------ MODULE ApprovedActionsProofs ------------------------
(***************************************************************************)
(* ApprovedActions for every number of tabs, addresses, labels, texts and  *)
(* approvals and every bound: references are those this life of the worker *)
(* showed, an approval ends in one click at most, and none follows a page  *)
(* shown since it was prepared.                                            *)
(***************************************************************************)
EXTENDS ApprovedActions, TLAPS

\* No references, and no call, are well formed.
LEMMA NothingShown ==
  /\ NoRefs \in Shown /\ NoRefs.gen = 0
  /\ Idle \in ToolCall /\ Idle.at = "idle" /\ Idle.id = NoId
<1>1. SomeLabel \in Labels
  BY ApprovalAssumption, Zenon DEF SomeLabel
<1>2. NoRefs \in Shown /\ NoRefs.gen = 0
  BY <1>1, ApprovalAssumption DEF NoRefs, Shown, Generations, Contents
<1>3. QED
  BY <1>1, <1>2, ApprovalAssumption DEF Idle, ToolCall, Steps, Parts, Generations

-----------------------------------------------------------------------------
(* Types.                                                                  *)

LEMMA SomeLabelOK == SomeLabel \in Labels
BY ApprovalAssumption, Zenon DEF SomeLabel

LEMMA NewDocumentOK ==
  ASSUME DocumentOK, NEW t \in Tabs, NEW u \in Urls, NewDocument(t, u)
  PROVE  DocumentOK'
BY ApprovalAssumption DEF DocumentOK, NewDocument, Generations, Contents

LEMMA PageReactsOK ==
  ASSUME DocumentOK, ManagerOK, PageReacts
  PROVE  DocumentOK'
<1>1. CASE UNCHANGED document
  BY <1>1 DEF DocumentOK, document
<1>2. CASE \E u \in Urls : NewDocument(active, u)
  BY <1>2, NewDocumentOK DEF ManagerOK
<1>3. QED
  BY <1>1, <1>2 DEF PageReacts

LEMMA CallOK ==
  ASSUME TypeOK, NEW at \in Steps, NEW part \in Parts, NEW ref \in Generations,
         NEW lbl \in Labels, NEW id \in Ids \cup {NoId}, CallOn(at, part, ref, lbl, id)
  PROVE  ManagerOK' /\ DocumentOK' /\ BoundsOK'
<1>1. ManagerOK'
  BY NothingShown DEF TypeOK, ManagerOK, CallOn, EnsureConnected, ToolCall
<1>2. QED
  BY <1>1 DEF TypeOK, DocumentOK, BoundsOK, CallOn, document

LEMMA SettleOK ==
  ASSUME op \in ToolCall, Settle
  PROVE  op' \in ToolCall
BY NothingShown DEF Settle, ToolCall, Steps

LEMMA InitTypeOK == Init => TypeOK
<1> SUFFICES ASSUME Init PROVE TypeOK
  OBVIOUS
<1>0. SomeLabel \in Labels /\ SomeUrl \in Urls
  BY ApprovalAssumption, Zenon DEF SomeLabel, SomeUrl
<1>1. DocumentOK
  BY ApprovalAssumption DEF Init, DocumentOK, Generations, Contents
<1>2. ManagerOK
  BY NothingShown, ApprovalAssumption DEF Init, ManagerOK, Generations
<1>3. StoreOK
  BY <1>0, ApprovalAssumption DEF Init, StoreOK, Target, Generations, Contents, Statuses
<1>4. BoundsOK
  BY ApprovalAssumption DEF Init, BoundsOK
<1>5. QED
  BY <1>1, <1>2, <1>3, <1>4 DEF TypeOK

LEMMA NextTypeOK == TypeOK /\ HolderOK /\ ApprovedOnce /\ [Next]_vars => TypeOK'
<1> SUFFICES ASSUME TypeOK, HolderOK, ApprovedOnce, [Next]_vars PROVE TypeOK'
  OBVIOUS
<1> USE DEF TypeOK
<1>1. ASSUME NEW t \in Tabs, PageMoves(t) PROVE TypeOK'
  <2>1. DocumentOK'
    <3>1. CASE \E u \in Urls : NewDocument(t, u)
      BY <3>1, NewDocumentOK
    <3>2. CASE ~ \E u \in Urls : NewDocument(t, u)
      <4>1. UNCHANGED <<moved, marker, field>>
        BY <1>1, <3>2 DEF PageMoves, PageChanges
      <4>2. \A c \in {control[t], 0} : c \in Generations
        BY ApprovalAssumption DEF DocumentOK, Generations
      <4>3. url' \in [Tabs -> Urls] /\ label' \in [Tabs -> Labels]
        BY <1>1, <3>2 DEF PageMoves, PageChanges, DocumentOK
      <4>4. text' \in [Tabs -> Contents] /\ control' \in [Tabs -> Generations]
        BY <1>1, <3>2, <4>2 DEF PageMoves, PageChanges, DocumentOK
      <4>5. QED
        BY <4>1, <4>3, <4>4 DEF DocumentOK
    <3>3. QED
      BY <3>1, <3>2
  <2>2. ManagerOK' /\ StoreOK' /\ BoundsOK'
    BY <1>1, ApprovalAssumption DEF PageMoves, Trouble, ManagerOK, StoreOK, BoundsOK, manager, store
  <2>3. QED
    BY <2>1, <2>2
<1>2. CASE Status
  <2>1. ManagerOK'
    BY <1>2, NothingShown DEF Status, EnsureConnected, ManagerOK
  <2>2. QED
    BY <1>2, <2>1 DEF Status, DocumentOK, StoreOK, BoundsOK, document, store
<1>3. CASE Snapshot
  <2>1. ManagerOK' /\ DocumentOK' /\ BoundsOK'
    BY <1>3, CallOK, SomeLabelOK, ApprovalAssumption DEF Snapshot, Call, Parts, Steps, Generations
  <2>2. QED
    BY <1>3, <2>1 DEF Snapshot, StoreOK, store
<1>4. CASE Open
  <2>1. ManagerOK' /\ DocumentOK' /\ BoundsOK'
    BY <1>4, CallOK, SomeLabelOK, ApprovalAssumption DEF Open, Call, Parts, Steps, Generations
  <2>2. QED
    BY <1>4, <2>1 DEF Open, StoreOK, store
<1>5. CASE SwitchTab
  <2>1. ManagerOK' /\ DocumentOK' /\ BoundsOK'
    BY <1>5, CallOK, SomeLabelOK, ApprovalAssumption DEF SwitchTab, Call, Parts, Steps, Generations
  <2>2. QED
    BY <1>5, <2>1 DEF SwitchTab, StoreOK, store
<1>6. CASE Click
  <2>1. refs.gen \in Generations /\ refs.label \in Labels
    BY DEF ManagerOK, Shown
  <2>2. ManagerOK' /\ DocumentOK' /\ BoundsOK'
    BY <1>6, <2>1, CallOK, SomeLabelOK DEF Click, Call, Parts, Steps
  <2>3. QED
    BY <1>6, <2>2 DEF Click, StoreOK, store
<1>7. CASE Type \/ SelectOption
  <2>1. refs.gen \in Generations
    BY DEF ManagerOK, Shown
  <2>2. ManagerOK' /\ DocumentOK' /\ BoundsOK'
    BY <1>7, <2>1, CallOK, SomeLabelOK DEF Type, SelectOption, Parts, Steps
  <2>3. QED
    BY <1>7, <2>2 DEF Type, SelectOption, StoreOK, store
<1>8. CASE Activate
  <2>1. PICK t \in Tabs : ShowTab(t)
    BY <1>8 DEF Activate
  <2>2. DocumentOK'
    BY <2>1, NewDocumentOK DEF ShowTab, document, DocumentOK
  <2>3. ManagerOK'
    BY <1>8, <2>1, SettleOK, NothingShown DEF Activate, ShowTab, ManagerOK, ToolCall, Steps
  <2>4. QED
    BY <1>8, <2>2, <2>3 DEF Activate, StoreOK, BoundsOK, store
<1>9. CASE Navigate
  <2>1. DocumentOK'
    BY <1>9, NewDocumentOK DEF Navigate, ManagerOK
  <2>2. ManagerOK'
    BY <1>9, SettleOK DEF Navigate, ManagerOK, manager
  <2>3. QED
    BY <1>9, <2>1, <2>2 DEF Navigate, StoreOK, BoundsOK, store
<1>10. CASE ClickControl
  <2>1. DocumentOK'
    BY <1>10, PageReactsOK DEF ClickControl
  <2>2. ManagerOK'
    BY <1>10, SettleOK DEF ClickControl, ManagerOK, manager
  <2>3. QED
    BY <1>10, <2>1, <2>2 DEF ClickControl, StoreOK, BoundsOK, store
<1>11. CASE ClickEditable
  <2>1. DocumentOK'
    BY <1>11, PageReactsOK DEF ClickEditable
  <2>2. ManagerOK'
    BY <1>11 DEF ClickEditable, ManagerOK, ToolCall, Steps, manager
  <2>3. QED
    BY <1>11, <2>1, <2>2 DEF ClickEditable, StoreOK, BoundsOK, store
<1>12. CASE Redirect
  <2>1. DocumentOK'
    <3>1. CASE UNCHANGED document
      BY <3>1 DEF DocumentOK, document
    <3>2. CASE GiveReference
      <4>1. op.ref \in Generations /\ op.on \in Parts /\ life \in 0 .. Lives
        BY ApprovalAssumption DEF ManagerOK, ToolCall, BoundsOK
      <4>2. \A g \in {0, op.ref} :
              /\ [control EXCEPT ![active] = g] \in [Tabs -> Generations]
              /\ [field EXCEPT ![active] = g] \in [Tabs -> Generations]
        BY <4>1, ApprovalAssumption DEF DocumentOK, ManagerOK, Generations
      <4>2a. control' \in [Tabs -> Generations] /\ field' \in [Tabs -> Generations]
        BY <3>2, <4>2 DEF GiveReference, DocumentOK
      <4>3. moved' \in [Tabs -> SUBSET Parts]
        BY <3>2, <4>1 DEF GiveReference, DocumentOK
      <4>4. marker' \in [Tabs -> [Parts -> 0 .. Lives]]
        BY <3>2, <4>1 DEF GiveReference, DocumentOK
      <4>5. QED
        BY <3>2, <4>2a, <4>3, <4>4 DEF GiveReference, DocumentOK
    <3>3. QED
      BY <1>12, <3>1, <3>2 DEF Redirect
  <2>2. ManagerOK'
    BY <1>12 DEF Redirect, ManagerOK, ToolCall, Steps, manager
  <2>3. QED
    BY <1>12, <2>1, <2>2, ApprovalAssumption DEF Redirect, Trouble, StoreOK, BoundsOK, store
<1>12a. CASE TypeText
  <2>1. DocumentOK'
    <3>1. CASE PageReacts
      BY <3>1, PageReactsOK
    <3>2. CASE ~PageReacts
      BY <1>12a, <3>2 DEF TypeText, DocumentOK, ManagerOK
    <3>3. QED
      BY <3>1, <3>2
  <2>2. ManagerOK'
    BY <1>12a, SettleOK DEF TypeText, ManagerOK, manager
  <2>3. QED
    BY <1>12a, <2>1, <2>2 DEF TypeText, StoreOK, BoundsOK, store
<1>13. CASE TakeSnapshot
  <2>1. generation' \in Generations
    BY <1>13, ApprovalAssumption DEF TakeSnapshot, Working, HolderOK, ManagerOK, Generations
  <2>2. DocumentOK'
    BY <1>13, <2>1, ApprovalAssumption DEF TakeSnapshot, Marked, DocumentOK, ManagerOK, BoundsOK
  <2>3. ManagerOK'
    BY <1>13, <2>1, NothingShown DEF TakeSnapshot, DocumentOK, ManagerOK, Shown
  <2>4. StoreOK' /\ BoundsOK'
    BY <1>13 DEF TakeSnapshot, StoreOK, BoundsOK
  <2>5. QED
    BY <2>2, <2>3, <2>4
<1>14. CASE LoseSnapshot
  <2>1. generation' \in Generations
    BY <1>14, ApprovalAssumption DEF LoseSnapshot, HolderOK, ManagerOK, Generations
  <2>2. DocumentOK'
    <3>1. CASE Marked
      BY <1>14, <2>1, <3>1, ApprovalAssumption DEF LoseSnapshot, Marked, DocumentOK, ManagerOK, BoundsOK
    <3>2. CASE ~Marked
      BY <1>14, <3>2 DEF LoseSnapshot, DocumentOK
    <3>3. QED
      BY <3>1, <3>2
  <2>3. ManagerOK'
    BY <1>14, <2>1, NothingShown DEF LoseSnapshot, ManagerOK
  <2>4. StoreOK' /\ BoundsOK'
    BY <1>14, ApprovalAssumption DEF LoseSnapshot, Trouble, StoreOK, BoundsOK, store
  <2>5. QED
    BY <2>2, <2>3, <2>4
<1>15. CASE DescribeAction
  <2>1. op.id \in Ids /\ op.ref \in Generations /\ op.label \in Labels
    BY <1>15 DEF DescribeAction, Working, HolderOK, ManagerOK, ToolCall
  <2>2. [ref |-> op.ref, label |-> op.label, url |-> url[active], text |-> refs.text,
         gen |-> generation] \in Target
    BY <2>1 DEF ManagerOK, DocumentOK, Shown, Target
  <2>3. StoreOK'
    BY <1>15, <2>1, <2>2, ApprovalAssumption DEF DescribeAction, StoreOK, Statuses
  <2>4. QED
    BY <1>15, <2>3, NothingShown DEF DescribeAction, DocumentOK, ManagerOK, BoundsOK, document, manager
<1>16. CASE Validate
  <2>1. ManagerOK'
    BY <1>16 DEF Validate, ManagerOK, ToolCall, Steps, manager
  <2>2. QED
    BY <1>16, <2>1 DEF Validate, DocumentOK, StoreOK, BoundsOK, document, store
<1>17. CASE CommitClick
  <2>1. DocumentOK'
    BY <1>17, PageReactsOK DEF CommitClick
  <2>2. ManagerOK'
    BY <1>17, SettleOK DEF CommitClick, ManagerOK, manager
  <2>3. op.id \in Ids /\ clicks[op.id] = 0
    BY <1>17 DEF CommitClick, Working, HolderOK, ApprovedOnce
  <2>4. StoreOK'
    BY <1>17, <2>3 DEF CommitClick, Finish, Finished, StoreOK, Statuses
  <2>5. QED
    BY <1>17, <2>1, <2>2, <2>4 DEF CommitClick, BoundsOK
<1>18. CASE OperationFails
  <2>1. StoreOK'
    BY <1>18 DEF OperationFails, Finish, Finished, StoreOK, Statuses
  <2>2. QED
    BY <1>18, <2>1, NothingShown DEF OperationFails, DocumentOK, ManagerOK, BoundsOK, document, manager
<1>19. CASE LoseConnection
  BY <1>19, ApprovalAssumption DEF LoseConnection, Trouble, DocumentOK, ManagerOK, StoreOK, BoundsOK, document, store
<1>20. CASE Restart
  <2>1. ManagerOK'
    BY <1>20, NothingShown, ApprovalAssumption DEF Restart, ManagerOK, Generations
  <2>2. StoreOK' /\ BoundsOK'
    BY <1>20, ApprovalAssumption DEF Restart, StoreOK, BoundsOK, Statuses
  <2>3. QED
    BY <1>20, <2>1, <2>2 DEF Restart, DocumentOK, document
<1>21. CASE Tick
  <2>1. StoreOK'
    BY <1>21, ApprovalAssumption DEF Tick, StoreOK
  <2>2. QED
    BY <1>21, <2>1 DEF Tick, DocumentOK, ManagerOK, BoundsOK, document, manager
<1>22. ASSUME NEW i \in Ids, PrepareAction(i) PROVE TypeOK'
  <2>1. refs.gen \in Generations /\ refs.label \in Labels
    BY DEF ManagerOK, Shown
  <2>2. ManagerOK' /\ DocumentOK' /\ BoundsOK'
    BY <1>22, <2>1, CallOK DEF PrepareAction, Call, Parts, Steps
  <2>3. QED
    BY <1>22, <2>2 DEF PrepareAction, StoreOK, store
<1>23. ASSUME NEW i \in Ids, Take(i) \/ Cancel(i) \/ CommitRefused(i) PROVE TypeOK'
  <2>1. StoreOK'
    BY <1>23 DEF Take, Cancel, CommitRefused, Finished, StoreOK, Statuses
  <2>2. QED
    BY <1>23, <2>1 DEF Take, Cancel, CommitRefused, DocumentOK, ManagerOK, BoundsOK, document, manager
<1>24. ASSUME NEW i \in Ids, CommitAction(i) PROVE TypeOK'
  <2>1. approval[i].ref \in Generations /\ approval[i].label \in Labels
    BY DEF StoreOK, Target
  <2>2. ManagerOK' /\ DocumentOK' /\ BoundsOK'
    BY <1>24, <2>1, CallOK, SomeLabelOK DEF CommitAction, Call, Parts, Steps
  <2>3. StoreOK'
    BY <1>24 DEF CommitAction, StoreOK, Statuses
  <2>4. QED
    BY <2>2, <2>3
<1>25. CASE UNCHANGED vars
  BY <1>25 DEF vars, DocumentOK, ManagerOK, StoreOK, BoundsOK, document, manager, store
<1>26. QED
  BY <1>1, <1>2, <1>3, <1>4, <1>5, <1>6, <1>7, <1>8, <1>9, <1>10, <1>11, <1>12, <1>12a, <1>13, <1>14, <1>15, <1>16, <1>17, <1>18, <1>19, <1>20, <1>21, <1>22, <1>23, <1>24, <1>25 DEF Next, OpStep, Commit

-----------------------------------------------------------------------------
\* References stay those of this life.
LEMMA NextRefsOK ==
  ASSUME TypeOK, HolderOK, RefsOK, [Next]_vars
  PROVE  RefsOK'
<1> USE DEF RefsOK, TypeOK, HolderOK, Live, Generations, DocumentOK, ManagerOK, StoreOK, BoundsOK, ToolCall, Shown, Target
<1>1. ASSUME NEW t \in Tabs, PageMoves(t) PROVE RefsOK'
  BY <1>1, NothingShown, ApprovalAssumption DEF PageMoves, PageChanges, NewDocument, manager, store
<1>2. CASE Status
  BY <1>2, NothingShown, ApprovalAssumption DEF Status, EnsureConnected, document, store
<1>3. CASE Snapshot \/ Open \/ SwitchTab
  BY <1>3, NothingShown, ApprovalAssumption DEF Snapshot, Open, SwitchTab, Call, CallOn, EnsureConnected, document, store
<1>4. CASE Click \/ Type \/ SelectOption
  BY <1>4, NothingShown, ApprovalAssumption DEF Click, Type, SelectOption, Call, CallOn, EnsureConnected, document, store
<1>5. CASE Activate
  BY <1>5, NothingShown, ApprovalAssumption DEF Activate, ShowTab, Settle, NewDocument, Working, document, store
<1>6. CASE Navigate
  BY <1>6, NothingShown, ApprovalAssumption DEF Navigate, Settle, NewDocument, Working, manager, store
<1>7. CASE ClickControl \/ ClickEditable
  BY <1>7, NothingShown, ApprovalAssumption DEF ClickControl, ClickEditable, PageReacts, NewDocument, Settle, Working, document, manager, store
<1>8. CASE Redirect
  <2>1. UNCHANGED <<active, generation, refs, life, approval, status>>
    BY <1>8 DEF Redirect, manager, store
  <2>2. CASE UNCHANGED document
    BY <2>1, <2>2 DEF document
  <2>3. CASE GiveReference
    <3>1. op.on \in Parts /\ op.ref \in Generations /\ op.ref # 0
      BY <1>8 DEF Redirect, Working, Acting
    <3>2. CASE op.on = "control"
      <4>1. marker'[active]["control"] = life /\ marker'[active]["field"] = marker[active]["field"]
        BY <2>3, <3>2 DEF GiveReference, Parts
      <4>2. field'[active] \in {field[active], 0}
        BY <2>3, <3>2 DEF GiveReference
      <4>3. QED
        BY <2>1, <4>1, <4>2
    <3>3. CASE op.on = "field"
      <4>1. marker'[active]["field"] = life /\ marker'[active]["control"] = marker[active]["control"]
        BY <2>3, <3>3 DEF GiveReference, Parts
      <4>2. control'[active] \in {control[active], 0}
        BY <2>3, <3>3 DEF GiveReference
      <4>3. QED
        BY <2>1, <4>1, <4>2
    <3>4. QED
      BY <3>1, <3>2, <3>3 DEF Parts
  <2>4. QED
    BY <1>8, <2>2, <2>3 DEF Redirect
<1>8a. CASE TypeText
  BY <1>8a, NothingShown, ApprovalAssumption DEF TypeText, PageReacts, NewDocument, Settle, Working, document, manager, store
<1>9. CASE TakeSnapshot
  <2>1. marker'[active] = [p \in Parts |-> life] /\ UNCHANGED <<active, life, approval, status>>
    BY <1>9 DEF TakeSnapshot, Marked
  <2>2. refs'.gen = generation' /\ generation' = generation + 1
    BY <1>9 DEF TakeSnapshot
  <2>3. QED
    BY <2>1, <2>2 DEF Parts
<1>10. CASE LoseSnapshot
  BY <1>10, NothingShown, ApprovalAssumption DEF LoseSnapshot, Marked, store
<1>11. CASE DescribeAction
  BY <1>11, NothingShown, ApprovalAssumption DEF DescribeAction, Working, document, manager
<1>12. CASE Validate
  BY <1>12, NothingShown, ApprovalAssumption DEF Validate, Working, document, manager, store
<1>13. CASE CommitClick
  BY <1>13, NothingShown, ApprovalAssumption DEF CommitClick, PageReacts, NewDocument, Finish, Finished, Settle, Working, document, manager
<1>14. CASE OperationFails
  BY <1>14, NothingShown, ApprovalAssumption DEF OperationFails, Finish, Finished, document, manager
<1>15. CASE LoseConnection
  BY <1>15, NothingShown, ApprovalAssumption DEF LoseConnection, document, store
<1>16. CASE Restart
  BY <1>16, NothingShown, ApprovalAssumption DEF Restart, document
<1>17. CASE Tick
  BY <1>17, NothingShown, ApprovalAssumption DEF Tick, document, manager
<1>18. ASSUME NEW i \in Ids, PrepareAction(i) PROVE RefsOK'
  BY <1>18, NothingShown, ApprovalAssumption DEF PrepareAction, Call, CallOn, EnsureConnected, document, store
<1>19. ASSUME NEW i \in Ids, Take(i) \/ Cancel(i) PROVE RefsOK'
  BY <1>19, NothingShown, ApprovalAssumption DEF Take, Cancel, document, manager
<1>20. ASSUME NEW i \in Ids, CommitRefused(i) PROVE RefsOK'
  BY <1>20, NothingShown, ApprovalAssumption DEF CommitRefused, Finished, document, manager
<1>21. ASSUME NEW i \in Ids, CommitAction(i) PROVE RefsOK'
  BY <1>21, NothingShown, ApprovalAssumption DEF CommitAction, Current, Call, CallOn, EnsureConnected, document
<1>22. CASE UNCHANGED vars
  BY <1>22, NothingShown, ApprovalAssumption DEF vars, document, manager, store
<1>99. QED
  BY <1>1, <1>2, <1>3, <1>4, <1>5, <1>6, <1>7, <1>8, <1>8a, <1>9, <1>10, <1>11, <1>12, <1>13, <1>14, <1>15, <1>16, <1>17, <1>18, <1>19, <1>20, <1>21, <1>22 DEF Next, OpStep, Commit

\* Generations number what was shown.
LEMMA NextNumbered ==
  ASSUME TypeOK, HolderOK, Numbered, [Next]_vars
  PROVE  Numbered'
<1> USE DEF Numbered, TypeOK, HolderOK, Live, Generations, ManagerOK, StoreOK, BoundsOK, ToolCall, Shown, Target
<1>1. ASSUME NEW t \in Tabs, PageMoves(t) PROVE Numbered'
  BY <1>1, NothingShown, ApprovalAssumption DEF PageMoves, PageChanges, NewDocument, manager, store
<1>2. CASE Status
  BY <1>2, NothingShown, ApprovalAssumption DEF Status, EnsureConnected, document, store
<1>3. CASE Snapshot \/ Open \/ SwitchTab
  BY <1>3, NothingShown, ApprovalAssumption DEF Snapshot, Open, SwitchTab, Call, CallOn, EnsureConnected, document, store
<1>4. CASE Click \/ Type \/ SelectOption
  BY <1>4, NothingShown, ApprovalAssumption DEF Click, Type, SelectOption, Call, CallOn, EnsureConnected, document, store
<1>5. CASE Activate
  BY <1>5, NothingShown, ApprovalAssumption DEF Activate, ShowTab, Settle, NewDocument, Working, document, store
<1>6. CASE Navigate
  BY <1>6, NothingShown, ApprovalAssumption DEF Navigate, Settle, NewDocument, Working, manager, store
<1>7. CASE ClickControl \/ ClickEditable
  BY <1>7, NothingShown, ApprovalAssumption DEF ClickControl, ClickEditable, PageReacts, NewDocument, Settle, Working, document, manager, store
<1>8. CASE Redirect \/ TypeText
  BY <1>8, NothingShown, ApprovalAssumption DEF Redirect, GiveReference, TypeText, PageReacts, NewDocument, Trouble, Settle, Working, document, manager, store
<1>9. CASE TakeSnapshot
  BY <1>9, NothingShown, ApprovalAssumption DEF TakeSnapshot, Marked, Working
<1>10. CASE LoseSnapshot
  BY <1>10, NothingShown, ApprovalAssumption DEF LoseSnapshot, Marked, store
<1>11. CASE DescribeAction
  BY <1>11, NothingShown, ApprovalAssumption DEF DescribeAction, Working, document, manager
<1>12. CASE Validate
  BY <1>12, NothingShown, ApprovalAssumption DEF Validate, Working, document, manager, store
<1>13. CASE CommitClick
  BY <1>13, NothingShown, ApprovalAssumption DEF CommitClick, PageReacts, NewDocument, Finish, Finished, Settle, Working, document, manager
<1>14. CASE OperationFails
  BY <1>14, NothingShown, ApprovalAssumption DEF OperationFails, Finish, Finished, document, manager
<1>15. CASE LoseConnection
  BY <1>15, NothingShown, ApprovalAssumption DEF LoseConnection, document, store
<1>16. CASE Restart
  BY <1>16, NothingShown, ApprovalAssumption DEF Restart, document
<1>17. CASE Tick
  BY <1>17, NothingShown, ApprovalAssumption DEF Tick, document, manager
<1>18. ASSUME NEW i \in Ids, PrepareAction(i) PROVE Numbered'
  BY <1>18, NothingShown, ApprovalAssumption DEF PrepareAction, Call, CallOn, EnsureConnected, document, store
<1>19. ASSUME NEW i \in Ids, Take(i) \/ Cancel(i) PROVE Numbered'
  BY <1>19, NothingShown, ApprovalAssumption DEF Take, Cancel, document, manager
<1>20. ASSUME NEW i \in Ids, CommitRefused(i) PROVE Numbered'
  BY <1>20, NothingShown, ApprovalAssumption DEF CommitRefused, Finished, document, manager
<1>21. ASSUME NEW i \in Ids, CommitAction(i) PROVE Numbered'
  BY <1>21, NothingShown, ApprovalAssumption DEF CommitAction, Current, Call, CallOn, EnsureConnected, document
<1>22. CASE UNCHANGED vars
  BY <1>22, NothingShown, ApprovalAssumption DEF vars, document, manager, store
<1>99. QED
  BY <1>1, <1>2, <1>3, <1>4, <1>5, <1>6, <1>7, <1>8, <1>9, <1>10, <1>11, <1>12, <1>13, <1>14, <1>15, <1>16, <1>17, <1>18, <1>19, <1>20, <1>21, <1>22 DEF Next, OpStep, Commit

\* One click, then none.
LEMMA NextApprovedOnce ==
  ASSUME TypeOK, HolderOK, ApprovedOnce, [Next]_vars
  PROVE  ApprovedOnce'
<1> USE DEF ApprovedOnce, TypeOK, HolderOK, ManagerOK, StoreOK, ToolCall
<1>1. ASSUME NEW t \in Tabs, PageMoves(t) PROVE ApprovedOnce'
  BY <1>1, NothingShown, ApprovalAssumption DEF PageMoves, PageChanges, NewDocument, manager, store
<1>2. CASE Status
  BY <1>2, NothingShown, ApprovalAssumption DEF Status, EnsureConnected, document, store
<1>3. CASE Snapshot \/ Open \/ SwitchTab
  BY <1>3, NothingShown, ApprovalAssumption DEF Snapshot, Open, SwitchTab, Call, CallOn, EnsureConnected, document, store
<1>4. CASE Click \/ Type \/ SelectOption
  BY <1>4, NothingShown, ApprovalAssumption DEF Click, Type, SelectOption, Call, CallOn, EnsureConnected, document, store
<1>5. CASE Activate
  BY <1>5, NothingShown, ApprovalAssumption DEF Activate, ShowTab, Settle, NewDocument, Working, document, store
<1>6. CASE Navigate
  BY <1>6, NothingShown, ApprovalAssumption DEF Navigate, Settle, NewDocument, Working, manager, store
<1>7. CASE ClickControl \/ ClickEditable
  BY <1>7, NothingShown, ApprovalAssumption DEF ClickControl, ClickEditable, PageReacts, NewDocument, Settle, Working, document, manager, store
<1>8. CASE Redirect \/ TypeText
  BY <1>8, NothingShown, ApprovalAssumption DEF Redirect, GiveReference, TypeText, PageReacts, NewDocument, Trouble, Settle, Working, document, manager, store
<1>9. CASE TakeSnapshot
  BY <1>9, NothingShown, ApprovalAssumption DEF TakeSnapshot, Marked, Working
<1>10. CASE LoseSnapshot
  BY <1>10, NothingShown, ApprovalAssumption DEF LoseSnapshot, Marked, store
<1>11. CASE DescribeAction
  BY <1>11, NothingShown, ApprovalAssumption DEF DescribeAction, Working, document, manager
<1>12. CASE Validate
  BY <1>12, NothingShown, ApprovalAssumption DEF Validate, Working, document, manager, store
<1>13. CASE CommitClick
  BY <1>13, NothingShown, ApprovalAssumption DEF CommitClick, PageReacts, NewDocument, Finish, Finished, Settle, Working, document, manager
<1>14. CASE OperationFails
  BY <1>14, NothingShown, ApprovalAssumption DEF OperationFails, Finish, Finished, document, manager
<1>15. CASE LoseConnection
  BY <1>15, NothingShown, ApprovalAssumption DEF LoseConnection, document, store
<1>16. CASE Restart
  BY <1>16, NothingShown, ApprovalAssumption DEF Restart, document
<1>17. CASE Tick
  BY <1>17, NothingShown, ApprovalAssumption DEF Tick, document, manager
<1>18. ASSUME NEW i \in Ids, PrepareAction(i) PROVE ApprovedOnce'
  BY <1>18, NothingShown, ApprovalAssumption DEF PrepareAction, Call, CallOn, EnsureConnected, document, store
<1>19. ASSUME NEW i \in Ids, Take(i) \/ Cancel(i) PROVE ApprovedOnce'
  BY <1>19, NothingShown, ApprovalAssumption DEF Take, Cancel, document, manager
<1>20. ASSUME NEW i \in Ids, CommitRefused(i) PROVE ApprovedOnce'
  BY <1>20, NothingShown, ApprovalAssumption DEF CommitRefused, Finished, document, manager
<1>21. ASSUME NEW i \in Ids, CommitAction(i) PROVE ApprovedOnce'
  BY <1>21, NothingShown, ApprovalAssumption DEF CommitAction, Current, Call, CallOn, EnsureConnected, document
<1>22. CASE UNCHANGED vars
  BY <1>22, NothingShown, ApprovalAssumption DEF vars, document, manager, store
<1>99. QED
  BY <1>1, <1>2, <1>3, <1>4, <1>5, <1>6, <1>7, <1>8, <1>9, <1>10, <1>11, <1>12, <1>13, <1>14, <1>15, <1>16, <1>17, <1>18, <1>19, <1>20, <1>21, <1>22 DEF Next, OpStep, Commit

\* Whoever holds the mutex may rely on what it checked.
LEMMA NextHolderOK ==
  ASSUME TypeOK, HolderOK, RefsOK, Numbered, [Next]_vars
  PROVE  HolderOK'
<1> USE DEF HolderOK, RefsOK, TypeOK, Acting, Idle, Live, Generations, DocumentOK, ManagerOK, StoreOK, BoundsOK, ToolCall, Shown, Target, Matches, FindsControl, FindsField, Finds, Parts
<1>1. ASSUME NEW t \in Tabs, PageMoves(t) PROVE HolderOK'
  BY <1>1, NothingShown, ApprovalAssumption DEF PageMoves, PageChanges, NewDocument, manager, store
<1>2. CASE Status
  BY <1>2, NothingShown, ApprovalAssumption DEF Status, EnsureConnected, document, store
<1>3. CASE Snapshot \/ Open \/ SwitchTab
  BY <1>3, NothingShown, ApprovalAssumption DEF Snapshot, Open, SwitchTab, Call, CallOn, EnsureConnected, document, store
<1>4. CASE Click \/ Type \/ SelectOption
  BY <1>4, NothingShown, ApprovalAssumption DEF Click, Type, SelectOption, Call, CallOn, EnsureConnected, document, store
<1>5. CASE Activate
  BY <1>5, NothingShown, ApprovalAssumption DEF Activate, ShowTab, Settle, NewDocument, Working, document, store
<1>6. CASE Navigate
  BY <1>6, NothingShown, ApprovalAssumption DEF Navigate, Settle, NewDocument, Working, manager, store
<1>7. CASE ClickControl \/ ClickEditable
  BY <1>7, NothingShown, ApprovalAssumption DEF ClickControl, ClickEditable, PageReacts, NewDocument, Settle, Working, document, manager, store
<1>8. CASE Redirect \/ TypeText
  BY <1>8, NothingShown, ApprovalAssumption DEF Redirect, GiveReference, TypeText, PageReacts, NewDocument, Trouble, Settle, Working, document, manager, store
<1>9. CASE TakeSnapshot
  BY <1>9, NothingShown, ApprovalAssumption DEF TakeSnapshot, Marked, Working
<1>10. CASE LoseSnapshot
  BY <1>10, NothingShown, ApprovalAssumption DEF LoseSnapshot, Marked, store
<1>11. CASE DescribeAction
  BY <1>11, NothingShown, ApprovalAssumption DEF DescribeAction, Working, document, manager
<1>12. CASE Validate
  BY <1>12, NothingShown, ApprovalAssumption DEF Validate, Working, document, manager, store
<1>13. CASE CommitClick
  BY <1>13, NothingShown, ApprovalAssumption DEF CommitClick, PageReacts, NewDocument, Finish, Finished, Settle, Working, document, manager
<1>14. CASE OperationFails
  BY <1>14, NothingShown, ApprovalAssumption DEF OperationFails, Finish, Finished, document, manager
<1>15. CASE LoseConnection
  BY <1>15, NothingShown, ApprovalAssumption DEF LoseConnection, document, store
<1>16. CASE Restart
  BY <1>16, NothingShown, ApprovalAssumption DEF Restart, document
<1>17. CASE Tick
  BY <1>17, NothingShown, ApprovalAssumption DEF Tick, document, manager
<1>18. ASSUME NEW i \in Ids, PrepareAction(i) PROVE HolderOK'
  BY <1>18, NothingShown, ApprovalAssumption DEF PrepareAction, Call, CallOn, EnsureConnected, document, store
<1>19. ASSUME NEW i \in Ids, Take(i) \/ Cancel(i) PROVE HolderOK'
  BY <1>19, NothingShown, ApprovalAssumption DEF Take, Cancel, document, manager
<1>20. ASSUME NEW i \in Ids, CommitRefused(i) PROVE HolderOK'
  BY <1>20, NothingShown, ApprovalAssumption DEF CommitRefused, Finished, document, manager
<1>21. ASSUME NEW i \in Ids, CommitAction(i) PROVE HolderOK'
  BY <1>21, NothingShown, ApprovalAssumption DEF CommitAction, Current, Call, CallOn, EnsureConnected, document
<1>22. CASE UNCHANGED vars
  BY <1>22, NothingShown, ApprovalAssumption DEF vars, document, manager, store
<1>99. QED
  BY <1>1, <1>2, <1>3, <1>4, <1>5, <1>6, <1>7, <1>8, <1>9, <1>10, <1>11, <1>12, <1>13, <1>14, <1>15, <1>16, <1>17, <1>18, <1>19, <1>20, <1>21, <1>22 DEF Next, OpStep, Commit

LEMMA InitIInv == Init => IInv
<1> SUFFICES ASSUME Init PROVE IInv
  OBVIOUS
<1>1. TypeOK
  BY InitTypeOK
<1>2. refs.gen = 0 /\ op.at = "idle" /\ op = Idle
  BY NothingShown DEF Init
<1>3. \A i \in Ids : ~Live(i) /\ clicks[i] = 0
  BY DEF Init, Live
<1>4. QED
  BY <1>1, <1>2, <1>3 DEF IInv, HolderOK, RefsOK, Numbered, ApprovedOnce, SeenBefore, Acting,
     TypeOK, ManagerOK, Generations

\* What is acted on carries the reference looked up, which is one of this life.
LEMMA HoldersSee == TypeOK /\ HolderOK /\ RefsOK => SeenBefore
BY DEF HolderOK, RefsOK, SeenBefore, FindsControl, FindsField, Finds, Parts

LEMMA NextIInv == IInv /\ [Next]_vars => IInv'
<1> SUFFICES ASSUME IInv, [Next]_vars PROVE IInv'
  OBVIOUS
<1>1. TypeOK' /\ HolderOK' /\ RefsOK' /\ Numbered' /\ ApprovedOnce'
  BY NextTypeOK, NextHolderOK, NextRefsOK, NextNumbered, NextApprovedOnce DEF IInv
<1>2. (TypeOK /\ HolderOK /\ RefsOK => SeenBefore)'
  BY HoldersSee, PTL
<1>3. QED
  BY <1>1, <1>2 DEF IInv

\* Types, the holder of the mutex, references and approvals are as they should
\* be in every state, for every instance.
THEOREM ActionsAreBound == Spec => []IInv
<1>1. QED
  BY InitIInv, NextIInv, PTL DEF Spec

\* An approval ends in one final click at most, and in none once it was
\* cancelled, refused or forgotten.
THEOREM ApprovedOnceHolds == Spec => []ApprovedOnce
<1>1. IInv => ApprovedOnce
  BY DEF IInv
<1>2. QED
  BY <1>1, ActionsAreBound, PTL

\* A call acts only on elements this life of the worker has shown, unless it
\* had to connect anew after it looked the reference up.
THEOREM ElementsWereSeen == Spec => []SeenBefore
<1>1. IInv => SeenBefore
  BY DEF IInv
<1>2. QED
  BY <1>1, ActionsAreBound, PTL

\* The only step that makes a final click is the one of the commit.
LEMMA OnlyCommitsClick ==
  ASSUME IInv, [Next]_vars, NEW i \in Ids, FinalClick(i)
  PROVE  CommitClick /\ op.id = i /\ op.at = "commit"
<1> USE DEF FinalClick, store
<1>1. CASE CommitClick
  BY <1>1 DEF CommitClick, Working, IInv, TypeOK, StoreOK
<1>2. ASSUME NEW t \in Tabs, PageMoves(t) PROVE FALSE
  BY <1>2 DEF PageMoves, PageChanges, NewDocument, manager, store
<1>3. CASE Status
  BY <1>3 DEF Status, EnsureConnected, document, store
<1>4. CASE Snapshot \/ Open \/ SwitchTab
  BY <1>4 DEF Snapshot, Open, SwitchTab, Call, CallOn, EnsureConnected, document, store
<1>5. CASE Click \/ Type \/ SelectOption
  BY <1>5 DEF Click, Type, SelectOption, Call, CallOn, EnsureConnected, document, store
<1>6. CASE Activate
  BY <1>6 DEF Activate, ShowTab, Settle, NewDocument, Working, document, store
<1>7. CASE Navigate
  BY <1>7 DEF Navigate, Settle, NewDocument, Working, manager, store
<1>8. CASE ClickControl \/ ClickEditable
  BY <1>8 DEF ClickControl, ClickEditable, PageReacts, NewDocument, Settle, Working, document, manager, store
<1>9. CASE Redirect \/ TypeText
  BY <1>9 DEF Redirect, GiveReference, TypeText, PageReacts, NewDocument, Trouble, Settle, Working, document, manager, store
<1>10. CASE TakeSnapshot
  BY <1>10 DEF TakeSnapshot, Marked, Working
<1>11. CASE LoseSnapshot
  BY <1>11 DEF LoseSnapshot, Marked, store
<1>12. CASE DescribeAction
  BY <1>12 DEF DescribeAction, Working, document, manager
<1>13. CASE Validate
  BY <1>13 DEF Validate, Working, document, manager, store
<1>14. CASE OperationFails
  BY <1>14 DEF OperationFails, Finish, Finished, document, manager
<1>15. CASE LoseConnection
  BY <1>15 DEF LoseConnection, document, store
<1>16. CASE Restart
  BY <1>16 DEF Restart, document
<1>17. CASE Tick
  BY <1>17 DEF Tick, document, manager
<1>18. ASSUME NEW j \in Ids, PrepareAction(j) PROVE FALSE
  BY <1>18 DEF PrepareAction, Call, CallOn, EnsureConnected, document, store
<1>19. ASSUME NEW j \in Ids, Take(j) \/ Cancel(j) PROVE FALSE
  BY <1>19 DEF Take, Cancel, document, manager
<1>20. ASSUME NEW j \in Ids, CommitRefused(j) PROVE FALSE
  BY <1>20 DEF CommitRefused, Finished, document, manager
<1>21. ASSUME NEW j \in Ids, CommitAction(j) PROVE FALSE
  BY <1>21 DEF CommitAction, Current, Call, CallOn, EnsureConnected, document
<1>22. CASE UNCHANGED vars
  BY <1>22 DEF vars, document, manager, store
<1>23. QED
  BY <1>1, <1>2, <1>3, <1>4, <1>5, <1>6, <1>7, <1>8, <1>9, <1>10, <1>11, <1>12, <1>13, <1>14, <1>15, <1>16, <1>17, <1>18, <1>19, <1>20, <1>21, <1>22 DEF Next, OpStep, Commit

\* No page was shown between the preparation and the final click.
THEOREM NothingOvertakes == Spec => NotOvertaken
<1>1. ASSUME IInv, [Next]_vars
      PROVE  [\A i \in Ids : FinalClick(i) => overtaken[i] = "no"]_vars
  <2>1. ASSUME NEW i \in Ids, FinalClick(i) PROVE overtaken[i] = "no"
    <3>1. op.at = "commit" /\ op.id = i
      BY <1>1, <2>1, OnlyCommitsClick
    <3>2. status[i] = "running" /\ approval[i].gen = generation
      BY <1>1, <3>1 DEF IInv, HolderOK
    <3>3. QED
      BY <1>1, <3>2 DEF IInv, Numbered, Live
  <2>2. QED
    BY <2>1
<1>2. QED
  BY <1>1, ActionsAreBound, PTL DEF Spec, NotOvertaken

\* An undisturbed final click meets what was approved.
THEOREM CommitsAreAsApproved == Spec => CommitAsApproved
<1> DEFINE Met(i) == /\ url[active] = approval[i].url
                     /\ "control" \notin moved[active] => label[active] = approval[i].label
                     /\ approval[i].text # Empty /\ "field" \notin moved[active] =>
                          text[active] = approval[i].text
<1>1. ASSUME IInv, [Next]_vars
      PROVE  [\A i \in Ids : FinalClick(i) /\ undisturbed = "yes" => Met(i)]_vars
  <2>1. ASSUME NEW i \in Ids, FinalClick(i), undisturbed = "yes" PROVE Met(i)
    <3>1. op.at = "commit" /\ op.id = i
      BY <1>1, <2>1, OnlyCommitsClick
    <3>2. Matches(approval[i])
      BY <1>1, <2>1, <3>1 DEF IInv, HolderOK
    <3>3. QED
      BY <3>2 DEF Matches
  <2>2. QED
    BY <2>1
<1>2. QED
  BY <1>1, ActionsAreBound, PTL DEF Spec, CommitAsApproved
=============================================================================
