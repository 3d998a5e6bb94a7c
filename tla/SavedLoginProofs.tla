-------------------------- MODULE SavedLoginProofs --------------------------
(***************************************************************************)
(* Proofs about CredentialVault and SavedLogin: the vault's invariant,     *)
(* whatever edits cross; where a secret is submitted and typed; what the   *)
(* caller is told; and which form may be submitted again.                  *)
(***************************************************************************)
EXTENDS SavedLogin, TLAPS

LEMMA NullTypes ==
  /\ NoRow \in Rows /\ ~(NoRow.at = "live") /\ NoRow.at = "none" /\ NoRow.payload.password = None
  /\ NoEdit \in Edits /\ NoEdit.id = None
  /\ None \notin Ids /\ None \notin Origins /\ None \notin Passwords
BY VaultAssumption
DEF NoRow, Rows, NoPayload, Payload, NoEdit, Edits

LEMMA KeptTypes ==
  ASSUME NEW o \in Origins, NEW w \in Passwords, NEW r, r = Kept(o, w)
  PROVE  /\ r \in Rows /\ r # NoRow /\ r.at = "live"
         /\ r.origin = o /\ r.payload \in Payload
         /\ r.payload.origin = o /\ r.payload.password = w
BY DEF NoRow, Rows, Payload, Kept

LEMMA VaultInitInv == VaultInit => VaultInv
<1> SUFFICES ASSUME VaultInit PROVE VaultInv
  OBVIOUS
<1>1. \A i \in Ids : row[i] = NoRow \/ \E o \in Origins, w \in Passwords : row[i] = Kept(o, w)
  BY DEF VaultInit
<1>2. VaultTypeOK
  <2> DEFINE Opening == {NoRow} \cup {Kept(o, w) : o \in Origins, w \in Passwords}
  <2>1. row \in [Ids -> Rows]
    <3>1. \A r \in Opening : r \in Rows
      BY NullTypes, KeptTypes
    <3>2. row \in [Ids -> Opening]
      BY DEF VaultInit
    <3>3. QED
      BY <3>1, <3>2
  <2>2. given \in [Ids -> Passwords \cup {None}]
    <3>1. \A i \in Ids : row[i].payload.password \in Passwords \cup {None}
      BY <1>1, NullTypes, KeptTypes
    <3>2. QED
      BY <3>1 DEF VaultInit
  <2>3. QED
    BY <2>1, <2>2, NullTypes, VaultAssumption DEF VaultTypeOK, VaultInit
<1>3. ASSUME NEW i \in Ids, Live(i)
      PROVE  /\ row[i].origin \in Origins /\ row[i].payload \in Payload
             /\ Opens(row[i].payload, row[i].origin)
             /\ row[i].payload.password = given[i]
             /\ row[i] # NoRow
  <2>1. PICK o \in Origins, w \in Passwords : row[i] = Kept(o, w)
    BY <1>1, <1>3, NullTypes DEF Live
  <2>2. QED
    BY <2>1, KeptTypes DEF Opens, VaultInit
<1>4. QED
  BY <1>2, <1>3, NullTypes DEF VaultInv, Intact, Sound, FreshEdits, Distinct, VaultInit

LEMMA CreateInv ==
  ASSUME VaultInv, NEW i \in Ids, NEW o \in Origins, NEW w \in Passwords,
         CreateCredential(i, o, w)
  PROVE  VaultInv'
<1> DEFINE r == Kept(o, w)
<1>r. /\ r \in Rows /\ r # NoRow /\ r.at = "live"
      /\ r.origin = o /\ r.payload \in Payload
      /\ r.payload.origin = o /\ r.payload.password = w
  BY KeptTypes
<1>1. /\ row' = [row EXCEPT ![i] = r] /\ given' = [given EXCEPT ![i] = w]
      /\ row \in [Ids -> Rows] /\ given \in [Ids -> Passwords \cup {None}]
      /\ row[i].at = "none"
  BY DEF CreateCredential, VaultInv, VaultTypeOK
<1>2. \A j \in Ids : /\ row'[j] = IF j = i THEN r ELSE row[j]
                     /\ given'[j] = IF j = i THEN w ELSE given[j]
  BY <1>1
<1> HIDE DEF r
<1>3. VaultTypeOK'
  BY <1>1, <1>r, VaultAssumption DEF VaultInv, VaultTypeOK, CreateCredential, Counted
<1>4. \A j \in Ids : Live(j)' <=> Live(j) \/ j = i
  BY <1>2, <1>r DEF Live
<1>5. Intact'
  BY <1>2, <1>4, <1>r DEF VaultInv, Intact, CreateCredential, Opens
<1>6. Sound'
  BY <1>2, <1>4, <1>r DEF VaultInv, Sound
<1>7. FreshEdits'
  <2> SUFFICES ASSUME NEW s \in Slots, (edit[s].id # None)'
               PROVE  Fresh(edit[s])'
    BY DEF FreshEdits
  <2>1. Fresh(edit[s])
    BY DEF VaultInv, FreshEdits, CreateCredential
  <2>2. edit[s].id # i
    BY <2>1, <1>1 DEF Fresh
  <2>3. QED
    BY <2>1, <2>2, <1>2, <1>4 DEF Fresh, CreateCredential
<1>8. Distinct'
  BY <1>2, <1>4, <1>r DEF VaultInv, Distinct, CreateCredential, Unique
<1>9. QED
  BY <1>3, <1>5, <1>6, <1>7, <1>8 DEF VaultInv

LEMMA UpdateInv ==
  ASSUME VaultInv, NEW s \in Slots, NEW i \in Ids, NEW o \in Origins,
         NEW w \in Passwords \cup {None}, UpdateCredential(s, i, o, w)
  PROVE  VaultInv'
<1> DEFINE e == [id |-> i, found |-> row[i].origin, origin |-> o, payload |-> Sealed(i, o, w),
                 blank |-> w = None, late |-> FALSE]
<1>1. /\ edit' = [edit EXCEPT ![s] = e] /\ edit \in [Slots -> Edits]
      /\ Live(i) /\ row[i].origin \in Origins /\ row[i].payload \in Payload
      /\ UNCHANGED <<row, given, crossed>>
  BY DEF UpdateCredential, VaultInv, VaultTypeOK, Sound
<1>2. Sealed(i, o, w) \in Payload /\ Sealed(i, o, w).origin = o
      /\ (w = None => Sealed(i, o, w).password = row[i].payload.password)
  BY <1>1 DEF Sealed, Payload
<1>3. e \in Edits
  BY <1>1, <1>2 DEF Edits
<1>4. VaultTypeOK'
  BY <1>1, <1>3, VaultAssumption DEF VaultInv, VaultTypeOK, UpdateCredential, Counted
<1>5. Fresh(e)
  BY <1>1, <1>2, NullTypes DEF Fresh, VaultInv, Intact, Live, Payload
<1>6. ASSUME NEW t \in Slots, (edit[t].id # None)' PROVE Fresh(edit[t])'
  <2>1. CASE t = s
    <3>1. edit'[t] = e
      BY <1>1, <2>1
    <3>2. QED
      BY <3>1, <1>5, <1>1 DEF Fresh, Live
  <2>2. CASE t # s
    <3>1. edit'[t] = edit[t]
      BY <1>1, <2>2
    <3>2. Fresh(edit[t])
      BY <3>1, <1>6 DEF VaultInv, FreshEdits
    <3>3. QED
      BY <3>1, <3>2, <1>1 DEF Fresh, Live
  <2>3. QED
    BY <2>1, <2>2
<1>7. QED
  <2>1. Intact' /\ Sound' /\ Distinct'
    BY <1>1 DEF VaultInv, Intact, Sound, Distinct, Live, Opens
  <2>2. FreshEdits'
    BY <1>6 DEF FreshEdits
  <2>3. QED
    BY <1>4, <2>1, <2>2 DEF VaultInv

LEMMA SaveInv ==
  ASSUME VaultInv, NEW s \in Slots, SaveUpdate(s)
  PROVE  VaultInv'
<1> DEFINE e == edit[s]
           i == edit[s].id
           taken == Live(i) /\ (e.origin # e.found => Unique(i, e.origin))
<1>1. /\ i \in Ids /\ Fresh(e) /\ e \in Edits
      /\ edit \in [Slots -> Edits] /\ row \in [Ids -> Rows]
      /\ given \in [Ids -> Passwords \cup {None}] /\ crossed \subseteq Ids
  BY DEF SaveUpdate, VaultInv, VaultTypeOK, FreshEdits, Edits
<1>2. CASE ~taken
  <2>1. edit' = [edit EXCEPT ![s] = NoEdit] /\ UNCHANGED <<row, given, crossed, edits>>
    BY <1>2 DEF SaveUpdate
  <2>2. \A t \in Slots : edit'[t] = IF t = s THEN NoEdit ELSE edit[t]
    BY <2>1, <1>1
  <2>3. VaultTypeOK'
    BY <2>1, <1>1, NullTypes DEF VaultInv, VaultTypeOK
  <2>4. FreshEdits'
    BY <2>1, <2>2, NullTypes DEF VaultInv, FreshEdits, Fresh, Live
  <2>5. Intact' /\ Sound' /\ Distinct'
    BY <2>1 DEF VaultInv, Intact, Sound, Distinct, Live, Opens
  <2>6. QED
    BY <2>3, <2>4, <2>5 DEF VaultInv
<1>3. CASE taken
  <2> DEFINE origin == IF e.origin # e.found THEN e.origin ELSE row[i].origin
  <2>1. /\ row' = [row EXCEPT ![i].origin = origin, ![i].payload = e.payload]
        /\ given' = IF e.blank THEN given ELSE [given EXCEPT ![i] = e.payload.password]
        /\ crossed' = IF e.late THEN crossed \cup {i} ELSE crossed
        /\ edit' = Overtaken(i, s)
        /\ UNCHANGED edits
    BY <1>3 DEF SaveUpdate
  <2>2. /\ row[i].origin \in Origins /\ row[i].at = "live"
        /\ e.origin \in Origins \cup {None} /\ e.payload.origin = e.origin
        /\ e.payload.password \in Passwords /\ e.payload \in Payload \cup {NoPayload}
    BY <1>1, <1>3 DEF VaultInv, Sound, Fresh, Live, Edits
  <2>3. e.payload \in Payload /\ e.origin \in Origins
    BY <2>2, NullTypes DEF Payload, NoPayload
  <2>4. origin \in Origins
    BY <2>2, <2>3
  <2>5. \A j \in Ids :
          /\ j # i => row'[j] = row[j] /\ given'[j] = given[j]
          /\ row'[j].at = row[j].at
          /\ j = i => /\ row'[j].origin = origin /\ row'[j].payload = e.payload
                      /\ given'[j] = IF e.blank THEN given[j] ELSE e.payload.password
    BY <2>1, <1>1 DEF Rows
  <2>6. row' \in [Ids -> Rows]
    BY <2>1, <2>3, <2>4, <1>1 DEF Rows
  <2>7. \A t \in Slots :
          /\ t = s => edit'[t] = NoEdit
          /\ t # s /\ edit[t].id = i => edit'[t] = [edit[t] EXCEPT !.late = TRUE]
          /\ t # s /\ edit[t].id # i => edit'[t] = edit[t]
    BY <2>1 DEF Overtaken
  <2>8. VaultTypeOK'
    <3>1. edit' \in [Slots -> Edits]
      <4>1. \A t \in Slots : [edit[t] EXCEPT !.late = TRUE] \in Edits
        BY <1>1 DEF Edits
      <4>2. QED
        BY <2>1, <4>1, <1>1, NullTypes DEF Overtaken
    <3>2. given' \in [Ids -> Passwords \cup {None}]
      BY <2>1, <2>2, <1>1
    <3>3. QED
      BY <3>1, <3>2, <2>1, <2>6, <1>1 DEF VaultInv, VaultTypeOK
  <2>9. Intact'
    <3> SUFFICES ASSUME NEW j \in Ids, Live(j)', j \notin crossed'
                 PROVE  row'[j].payload.origin = row'[j].origin /\ row'[j].payload.password = given'[j]
      BY DEF Intact, Opens
    <3>1. CASE j # i
      <4>1. j \notin crossed
        BY <2>1
      <4>2. row'[j] = row[j] /\ given'[j] = given[j] /\ Live(j)
        BY <3>1, <2>5 DEF Live
      <4>3. row[j].payload.origin = row[j].origin /\ row[j].payload.password = given[j]
        BY <4>1, <4>2 DEF VaultInv, Intact, Opens
      <4>4. QED
        BY <4>2, <4>3
    <3>2. CASE j = i
      <4>1. ~e.late /\ i \notin crossed
        BY <3>2, <2>1
      <4>2. e.found = row[i].origin /\ (e.blank => e.payload.password = given[i])
        BY <4>1, <1>1, <1>3 DEF Fresh
      <4>3. QED
        BY <3>2, <4>2, <2>2, <2>5
    <3>3. QED
      BY <3>1, <3>2
  <2>10. Sound'
    BY <2>3, <2>4, <2>5 DEF VaultInv, Sound, Live
  <2>11. ASSUME NEW t \in Slots, (edit[t].id # None)' PROVE Fresh(edit[t])'
    <3>1. t # s
      BY <2>7, <2>11, NullTypes
    <3>2. CASE edit[t].id = i
      <4>1. edit'[t] = [edit[t] EXCEPT !.late = TRUE] /\ edit[t] \in Edits /\ Fresh(edit[t])
        BY <3>1, <3>2, <2>7, <1>1, NullTypes DEF VaultInv, FreshEdits
      <4>2. /\ edit'[t].id = i /\ edit'[t].late
            /\ edit'[t].payload = edit[t].payload /\ edit'[t].origin = edit[t].origin
        BY <4>1, <3>2 DEF Edits
      <4>3. QED
        BY <4>1, <4>2, <1>1, <2>5 DEF Fresh
    <3>3. CASE edit[t].id # i
      <4>1. edit'[t] = edit[t] /\ Fresh(edit[t])
        BY <3>1, <3>3, <2>7, <2>11 DEF VaultInv, FreshEdits
      <4>2. edit[t].id \in crossed' <=> edit[t].id \in crossed
        BY <2>1, <3>3
      <4>3. QED
        BY <4>1, <4>2, <2>5, <3>3 DEF Fresh, Live
    <3>4. QED
      BY <3>2, <3>3
  <2>12. ASSUME NEW j \in Ids, NEW k \in Ids, Live(j)', Live(k)', j # k
         PROVE  (row[j].origin # row[k].origin)'
    <3>1. Live(j) /\ Live(k)
      BY <2>5, <2>12 DEF Live
    <3>2. \A n \in Ids : n # i /\ Live(n) => row[n].origin # origin
      BY <1>1, <1>3, <2>2 DEF Fresh, Unique, VaultInv, Distinct, Live
    <3>3. QED
      BY <3>1, <3>2, <2>5, <2>12 DEF VaultInv, Distinct
  <2>13. QED
    BY <2>8, <2>9, <2>10, <2>11, <2>12 DEF VaultInv, FreshEdits, Distinct
<1>4. QED
  BY <1>2, <1>3

LEMMA DeleteInv ==
  ASSUME VaultInv, NEW i \in Ids, DeleteCredential(i)
  PROVE  VaultInv'
<1>1. /\ row' = [row EXCEPT ![i] = [NoRow EXCEPT !.at = "gone"]]
      /\ given' = [given EXCEPT ![i] = None] /\ crossed' = crossed \ {i}
      /\ row \in [Ids -> Rows] /\ given \in [Ids -> Passwords \cup {None}]
      /\ UNCHANGED <<edit, edits>>
  BY DEF DeleteCredential, VaultInv, VaultTypeOK
<1>2. [NoRow EXCEPT !.at = "gone"] \in Rows /\ [NoRow EXCEPT !.at = "gone"].at = "gone"
  BY DEF NoRow, Rows, NoPayload
<1>3. \A j \in Ids : /\ j # i => row'[j] = row[j] /\ given'[j] = given[j]
                     /\ row'[i].at = "gone"
  BY <1>1, <1>2
<1>4. VaultTypeOK'
  BY <1>1, <1>2 DEF VaultInv, VaultTypeOK
<1>5. \A j \in Ids : Live(j)' <=> Live(j) /\ j # i
  BY <1>3 DEF Live
<1>6. FreshEdits'
  BY <1>1, <1>3, <1>5 DEF VaultInv, FreshEdits, Fresh
<1>7. Intact' /\ Sound' /\ Distinct'
  BY <1>1, <1>3, <1>5 DEF VaultInv, Intact, Sound, Distinct, Opens
<1>8. QED
  BY <1>4, <1>6, <1>7 DEF VaultInv

LEMMA VaultNextInv == VaultInv /\ [VaultNext]_vault => VaultInv'
<1>1. ASSUME VaultInv, UNCHANGED vault PROVE VaultInv'
  BY <1>1 DEF vault, VaultInv, VaultTypeOK, Intact, Sound, FreshEdits, Distinct, Fresh, Live, Opens
<1>2. QED
  BY <1>1, CreateInv, UpdateInv, SaveInv, DeleteInv DEF VaultNext

-----------------------------------------------------------------------------
(***************************************************************************)
(* The login.  Records that are updated in part are described first.       *)
(***************************************************************************)
LEMMA PageTypes ==
  ASSUME NEW p \in Page
  PROVE  /\ \A w \in Secret \cup {None} :
              /\ [p EXCEPT !.typed = w] \in Page /\ [p EXCEPT !.typed = w].typed = w
              /\ [p EXCEPT !.typed = w].url = p.url /\ [p EXCEPT !.typed = w].marker = p.marker
         /\ \A n \in Names :
              /\ [p EXCEPT !.name = n] \in Page /\ [p EXCEPT !.name = n].typed = p.typed
              /\ [p EXCEPT !.name = n].url = p.url /\ [p EXCEPT !.name = n].marker = p.marker
         /\ \A g \in Generation : [p EXCEPT !.marker = g] \in Page
BY DEF Page

LEMMA DocumentType ==
  ASSUME NEW u \in Urls
  PROVE  /\ Document(u) \in Page /\ Document(u).marker = 0 /\ Document(u).typed = None
         /\ Document(u).url = u
BY LoginAssumption DEF Document, Page, Generation

LEMMA CallTypes ==
  ASSUME NEW c \in Call
  PROVE  /\ New \in Call
         /\ \A what \in {"refused", "failed", "submitted"} :
              Told(what) \in Call /\ Told(what).at = "over" /\ Told(what).told = what
         /\ \A w \in Secret, o \in Origins :
              [c EXCEPT !.at = "ready", !.secret = w, !.home = o] \in Call
         /\ [c EXCEPT !.at = "committing"] \in Call
         /\ [c EXCEPT !.at = "over", !.told = "failed"] \in Call
<1>1. New \in Call
  BY LoginAssumption DEF Call, New, Generation
<1>2. ASSUME NEW what \in {"refused", "failed", "submitted"}
      PROVE  Told(what) \in Call /\ Told(what).at = "over" /\ Told(what).told = what
  BY <1>1 DEF Call, New, Told
<1>3. ASSUME NEW w \in Secret, NEW o \in Origins
      PROVE  [c EXCEPT !.at = "ready", !.secret = w, !.home = o] \in Call
  BY DEF Call
<1>4. [c EXCEPT !.at = "committing"] \in Call
  BY DEF Call
<1>5. [c EXCEPT !.at = "over", !.told = "failed"] \in Call
  BY DEF Call
<1>6. QED
  BY <1>1, <1>2, <1>3, <1>4, <1>5

LEMMA WorkerTypes ==
  ASSUME NEW w \in Worker, w.refs <= w.generation
  PROVE  /\ Started \in Worker /\ Started.refs = 0 /\ Started.generation = 0
         /\ Started.at = "idle" /\ Started.doing = None
         /\ Connected(w) \in Worker /\ Connected(w).refs \in {0, w.refs}
         /\ Connected(w).generation = w.generation
         /\ Connected(w).at = w.at /\ Connected(w).doing = w.doing
         /\ Released(w) \in Worker /\ Released(w).refs = w.refs
         /\ Released(w).generation = w.generation
         /\ Released(w).at = "idle" /\ Released(w).doing = None
<1>1. /\ Started \in Worker /\ Started.refs = 0 /\ Started.generation = 0
      /\ Started.at = "idle" /\ Started.doing = None
  BY LoginAssumption DEF Worker, Started, Fields, Generation
<1>2. /\ [w EXCEPT !.connected = TRUE, !.refs = 0] \in Worker
      /\ [w EXCEPT !.connected = TRUE, !.refs = 0].generation = w.generation
      /\ [w EXCEPT !.connected = TRUE, !.refs = 0].refs = 0
      /\ [w EXCEPT !.connected = TRUE, !.refs = 0].at = w.at
      /\ [w EXCEPT !.connected = TRUE, !.refs = 0].doing = w.doing
  <2>1. 0 \in Generation
    BY LoginAssumption DEF Generation
  <2>2. QED
    BY <2>1 DEF Worker
<1>3. /\ Released(w) \in Worker /\ Released(w).refs = w.refs
      /\ Released(w).generation = w.generation
      /\ Released(w).at = "idle" /\ Released(w).doing = None
  BY DEF Worker, Fields, Released
<1>4. QED
  BY <1>1, <1>2, <1>3 DEF Connected

LEMMA SnapshotTypes ==
  ASSUME NEW w \in Worker, w.generation < MaxGeneration, NEW p \in Page, page = p
  PROVE  /\ Snapshots(w) \in Worker
         /\ Snapshots(w).refs = w.generation + 1 /\ Snapshots(w).generation = w.generation + 1
         /\ Snapshots(w).at = w.at /\ Snapshots(w).doing = w.doing
         /\ [w EXCEPT !.generation = @ + 1] \in Worker
         /\ [w EXCEPT !.generation = @ + 1].refs = w.refs
         /\ [w EXCEPT !.generation = @ + 1].generation = w.generation + 1
         /\ [w EXCEPT !.generation = @ + 1].at = w.at
         /\ [w EXCEPT !.generation = @ + 1].doing = w.doing
         /\ w.generation + 1 \in Generation
<1>1. w.generation \in Generation /\ w.generation + 1 \in Generation
  BY LoginAssumption DEF Worker, Generation
<1>2. /\ Snapshots(w) \in Worker
      /\ Snapshots(w).refs = w.generation + 1 /\ Snapshots(w).generation = w.generation + 1
      /\ Snapshots(w).at = w.at /\ Snapshots(w).doing = w.doing
  BY <1>1 DEF Worker, Snapshots, Page
<1>3. /\ [w EXCEPT !.generation = @ + 1] \in Worker
      /\ [w EXCEPT !.generation = @ + 1].refs = w.refs
      /\ [w EXCEPT !.generation = @ + 1].generation = w.generation + 1
      /\ [w EXCEPT !.generation = @ + 1].at = w.at
      /\ [w EXCEPT !.generation = @ + 1].doing = w.doing
  BY <1>1 DEF Worker
<1>4. QED
  BY <1>1, <1>2, <1>3

LEMMA InitInv == Init => IInv
<1> SUFFICES ASSUME Init PROVE IInv
  OBVIOUS
<1>1. page \in Page
  BY DocumentType DEF Init
<1>2. \A k \in Calls : call[k] = New /\ New \in Call /\ New.at = "new" /\ New.told = "nothing"
  BY LoginAssumption DEF Init, New, Call, Generation
<1>3. TypeOK
  <2>1. worker = Started /\ Started \in Worker /\ Started.refs = 0 /\ Started.generation = 0
        /\ Started.at = "idle" /\ Started.doing = None
    BY LoginAssumption DEF Init, Worker, Started, Fields, Generation
  <2>2. call \in [Calls -> Call]
    BY <1>2 DEF Init
  <2>3. QED
    BY <1>1, <1>2, <2>1, <2>2, LoginAssumption DEF TypeOK, Init, Idle
<1>4. CallInv /\ WorkInv /\ SubmittedInv
  BY <1>2 DEF CallInv, CallOK, WorkInv, SubmittedInv, Init, Idle, Started
<1>5. SecretsAtHome /\ OutcomeTruthful /\ NotTwice
  BY <1>2 DEF SecretsAtHome, OutcomeTruthful, NotTwice, Init
<1>6. QED
  BY <1>3, <1>4, <1>5, VaultInitInv DEF IInv, Init

\* Calls that end, are given their secret, are committed or given up.
LEMMA CallSteps ==
  ASSUME NEW c \in Call, CallOK(c)
  PROVE  /\ \A what \in {"refused", "failed", "submitted"} : CallOK(Told(what))
         /\ \A w \in Secret, o \in Origins :
              c.at \in {"described", "pending"} /\ o = c.origin =>
                /\ CallOK([c EXCEPT !.at = "ready", !.secret = w, !.home = o])
                /\ [c EXCEPT !.at = "ready", !.secret = w, !.home = o].told = "nothing"
         /\ c.at = "ready" => /\ CallOK([c EXCEPT !.at = "committing"])
                              /\ HasSecret([c EXCEPT !.at = "committing"])
                              /\ [c EXCEPT !.at = "committing"].told = "nothing"
                              /\ [c EXCEPT !.at = "committing"].at = "committing"
         /\ /\ CallOK([c EXCEPT !.at = "over", !.told = "failed"])
            /\ HasSecret(c) => HasSecret([c EXCEPT !.at = "over", !.told = "failed"])
<1>1. ASSUME NEW what \in {"refused", "failed", "submitted"} PROVE CallOK(Told(what))
  BY DEF CallOK, Told, New
<1>2. ASSUME NEW w \in Secret, NEW o \in Origins,
             c.at \in {"described", "pending"}, o = c.origin
      PROVE  /\ CallOK([c EXCEPT !.at = "ready", !.secret = w, !.home = o])
             /\ [c EXCEPT !.at = "ready", !.secret = w, !.home = o].told = "nothing"
  <2> DEFINE d == [c EXCEPT !.at = "ready", !.secret = w, !.home = o]
  <2>1. /\ d.at = "ready" /\ d.secret = w /\ d.home = o /\ d.told = c.told
        /\ d.url = c.url /\ d.origin = c.origin /\ d.ref = c.ref
        /\ d.generation = c.generation
    BY DEF Call
  <2>2. HasTarget(c) /\ c.told = "nothing"
    BY <1>2 DEF CallOK
  <2>3. QED
    BY <2>1, <2>2, <1>2 DEF CallOK, HasTarget, HasSecret
<1>3. ASSUME c.at = "ready"
      PROVE  /\ CallOK([c EXCEPT !.at = "committing"])
             /\ HasSecret([c EXCEPT !.at = "committing"])
             /\ [c EXCEPT !.at = "committing"].told = "nothing"
             /\ [c EXCEPT !.at = "committing"].at = "committing"
  <2> DEFINE d == [c EXCEPT !.at = "committing"]
  <2>1. /\ d.at = "committing" /\ d.secret = c.secret /\ d.home = c.home /\ d.told = c.told
        /\ d.url = c.url /\ d.origin = c.origin /\ d.ref = c.ref
        /\ d.generation = c.generation
    BY DEF Call
  <2>2. HasSecret(c) /\ c.told = "nothing"
    BY <1>3 DEF CallOK
  <2>3. QED
    BY <2>1, <2>2 DEF CallOK, HasTarget, HasSecret
<1>4. /\ CallOK([c EXCEPT !.at = "over", !.told = "failed"])
      /\ HasSecret(c) => HasSecret([c EXCEPT !.at = "over", !.told = "failed"])
  <2> DEFINE d == [c EXCEPT !.at = "over", !.told = "failed"]
  <2>1. /\ d.at = "over" /\ d.secret = c.secret /\ d.home = c.home /\ d.told = "failed"
        /\ d.url = c.url /\ d.origin = c.origin /\ d.ref = c.ref
        /\ d.generation = c.generation
    BY DEF Call
  <2>2. QED
    BY <2>1 DEF CallOK, HasTarget, HasSecret
<1>5. QED
  BY <1>1, <1>2, <1>3, <1>4

LoginInv ==
  /\ TypeOK /\ CallInv /\ WorkInv /\ SubmittedInv
  /\ SecretsAtHome /\ OutcomeTruthful /\ NotTwice

WorkerOK == worker \in Worker /\ worker.refs <= worker.generation /\ (Idle <=> worker.doing = None)

\* What a step that submits nothing may do to a call: nothing, take it on
\* before it is committed, or tell its caller what is true.
CallStep(k) ==
  \/ call'[k] = call[k]
  \/ /\ call[k].at \notin {"committing", "over"}
     /\ call'[k].told \in {"nothing", "refused"}
  \/ call'[k].told = "failed"
  \/ call'[k].told = "submitted" /\ Doing("settling") /\ worker.doing = k

\* A click that is being settled stays so, is cut off, or is followed by a
\* snapshot, which failed or renews the references; or the worker restarts.
WorkerStep ==
  \/ /\ life' = life /\ worker.generation <= worker'.generation
     /\ \/ worker'.refs \in {0, worker.refs}
        \/ worker'.refs > worker.generation
     /\ Doing("settling") =>
          \/ worker'.at = "settling" /\ worker'.doing = worker.doing
          \/ worker.doing \in cut'
          \/ /\ worker.generation < worker'.generation
             /\ worker.doing \in unseen' \/ worker'.refs > worker.generation
  \/ life' \in Nat /\ life < life'

\* What has been typed on pages of other origins.
AstrayOK ==
  /\ astray \subseteq [call : Calls, field : Fields, found : BOOLEAN]
  /\ \A x \in astray :
       /\ Outcome(x.call) /\ ~x.found
       /\ \A y \in astray : y.call = x.call => y = x
       /\ \A y \in submitted : y.call # x.call

\* What became of a call that was committed stays.
LEMMA OutcomeStays ==
  ASSUME IInv, NEW k \in Calls, Outcome(k), CallStep(k)
  PROVE  Outcome(k)'
<1>1. call[k].at \in {"committing", "over"}
  BY DEF IInv, CallInv, CallOK, Outcome, At
<1>2. QED
  BY <1>1 DEF CallStep, Outcome, At

LEMMA NothingSubmitted ==
  ASSUME IInv, WorkerOK', page' \in Page, call' \in [Calls -> Call], CallInv', WorkInv',
         life' \in 1 .. Lives, trouble' \in 0 .. MaxTrouble,
         cut \subseteq cut', cut' \subseteq Calls, submitted' = submitted,
         unseen \subseteq unseen', unseen' \subseteq Calls,
         astray' = astray \/ AstrayOK',
         \A k \in Calls : CallStep(k), WorkerStep
  PROVE  LoginInv'
<1>0. AstrayOK'
  <2>1. AstrayOK
    BY DEF AstrayOK, IInv, TypeOK, SubmittedInv, SecretsAtHome
  <2>2. ASSUME astray' = astray, NEW x \in astray PROVE Outcome(x.call)'
    BY <2>1, OutcomeStays DEF AstrayOK
  <2>3. CASE astray' = astray
    BY <2>1, <2>2, <2>3 DEF AstrayOK
  <2>4. QED
    BY <2>3
<1>1. TypeOK'
  <2>1. \A k \in Calls : call'[k].at \notin {"new", "over"} => call'[k].origin \in Origins
    BY LoginAssumption DEF CallInv, CallOK, HasTarget
  <2>2. QED
    BY <1>0, <2>1 DEF TypeOK, IInv, WorkerOK, AstrayOK
<1>2. SubmittedInv'
  <2> SUFFICES ASSUME NEW x \in submitted
               PROVE  /\ Outcome(x.call)'
                      /\ x.target.ref <= x.target.generation
                      /\ x.life <= life'
                      /\ x.life = life' =>
                           /\ x.target.generation <= worker'.generation
                           /\ \/ x.call \in cut'
                              \/ worker'.at = "settling" /\ worker'.doing = x.call
                              \/ /\ x.target.generation < worker'.generation
                                 /\ \/ x.call \in unseen'
                                    \/ worker'.refs = 0 \/ worker'.refs > x.target.generation
    <3>1. \A x \in submitted : \A k \in x.after : ~Unused(k)'
      BY DEF IInv, SubmittedInv, Unused
    <3>2. QED
      BY <1>0, <3>1 DEF SubmittedInv, Doing, AstrayOK
  <2>1. /\ x.call \in Calls /\ x.life \in 1 .. Lives /\ x.target \in Call
        /\ x.target.generation \in 0 .. MaxGeneration
    BY DEF IInv, TypeOK, Call, Generation
  <2>2. /\ Outcome(x.call)
        /\ x.target.ref <= x.target.generation
        /\ x.life <= life
        /\ x.life = life =>
             /\ x.target.generation <= worker.generation
             /\ \/ x.call \in cut
                \/ Doing("settling") /\ worker.doing = x.call
                \/ /\ x.target.generation < worker.generation
                   /\ \/ x.call \in unseen
                      \/ worker.refs = 0 \/ worker.refs > x.target.generation
    BY DEF IInv, SubmittedInv
  <2>3. Outcome(x.call)'
    BY <2>1, <2>2, OutcomeStays
  <2>4. /\ worker.generation \in 0 .. MaxGeneration /\ worker'.generation \in 0 .. MaxGeneration
        /\ worker.refs \in 0 .. MaxGeneration /\ worker'.refs \in 0 .. MaxGeneration
        /\ life \in 1 .. Lives
    BY DEF IInv, TypeOK, WorkerOK, Worker, Generation
  <2>5. CASE life' = life
    BY <2>1, <2>2, <2>3, <2>4, <2>5, LoginAssumption DEF WorkerStep, Doing
  <2>6. CASE life' # life
    BY <2>1, <2>2, <2>3, <2>4, <2>6, LoginAssumption DEF WorkerStep
  <2>7. QED
    BY <2>5, <2>6
<1>3. SecretsAtHome'
  BY <1>0 DEF SecretsAtHome, IInv, AstrayOK
<1>4. OutcomeTruthful'
  <2> SUFFICES ASSUME NEW k \in Calls
               PROVE  /\ call'[k].told = "submitted" => \E x \in submitted : x.call = k
                      /\ call'[k].told = "refused" => \A x \in submitted : x.call # k
    BY DEF OutcomeTruthful
  <2>1. /\ call[k].told = "submitted" => \E x \in submitted : x.call = k
        /\ call[k].told = "refused" => \A x \in submitted : x.call # k
    BY DEF IInv, OutcomeTruthful
  <2>2. call[k].at \notin {"committing", "over"} => \A x \in submitted : x.call # k
    BY DEF IInv, SubmittedInv, CallInv, CallOK, Outcome, At
  <2>3. Doing("settling") /\ worker.doing = k => \E x \in submitted : x.call = k
    BY DEF IInv, WorkInv, OnceInv, Unused, Doing, Idle
  <2>4. CallStep(k)
    OBVIOUS
  <2>5. QED
    BY <2>1, <2>2, <2>3, <2>4 DEF CallStep
<1>5. NotTwice'
  BY DEF NotTwice, SameForm, IInv
<1>6. QED
  BY <1>1, <1>2, <1>3, <1>4, <1>5 DEF LoginInv

LEMMA Facts ==
  ASSUME IInv
  PROVE  /\ page \in Page /\ WorkerOK /\ worker \in Worker /\ worker.refs <= worker.generation
         /\ worker.generation \in Generation /\ worker.generation \in Nat
         /\ call \in [Calls -> Call] /\ \A k \in Calls : call[k] \in Call /\ CallOK(call[k])
         /\ ~Idle => worker.doing \in Calls /\ worker.doing # None
         /\ cut \subseteq Calls /\ unseen \subseteq Calls /\ life \in 1 .. Lives /\ life \in Nat
         /\ trouble \in 0 .. MaxTrouble
         /\ CallInv /\ WorkInv
BY LoginAssumption DEF IInv, TypeOK, WorkerOK, CallInv, Worker, Generation

LEMMA TroubleType ==
  ASSUME IInv, Trouble \/ UNCHANGED trouble
  PROVE  trouble' \in 0 .. MaxTrouble
<1>1. edits \in Nat /\ MaxTrouble \in Nat /\ trouble \in 0 .. MaxTrouble
  BY VaultAssumption, LoginAssumption DEF IInv, TypeOK, VaultInv, VaultTypeOK
<1>2. QED
  BY <1>1 DEF Trouble

\* What makes a form submittable stays while the commit goes on.
LEMMA OnceStays ==
  ASSUME IInv, ~Idle, worker'.doing = worker.doing, Doing("settling")' <=> Doing("settling"),
         UNCHANGED <<submitted, life>>, cut \subseteq cut', unseen \subseteq unseen',
         Mine'.ref = Mine.ref, Mine'.generation = Mine.generation
  PROVE  OnceInv'
<1>1. OnceInv
  BY DEF IInv, WorkInv
<1>2. Unused(worker.doing)' <=> Unused(worker.doing)
  BY DEF Unused
<1>3. Submittable(Mine) => Submittable(Mine)'
  BY DEF Submittable
<1>4. QED
  BY <1>1, <1>2, <1>3 DEF OnceInv

\* The page moves, whatever the worker is at.
LEMMA PageMovesInv ==
  ASSUME IInv, PageMoves
  PROVE  LoginInv'
<1>1. UNCHANGED <<worker, call, submitted, astray, cut, unseen, life>> /\ trouble' \in 0 .. MaxTrouble
  BY TroubleType DEF PageMoves, history
<1>2. \/ \E u \in Urls : page' = Document(u)
      \/ \E n \in Names : page' = [page EXCEPT !.name = n]
      \/ page' = [page EXCEPT !.typed = None]
  BY DEF PageMoves
<1>3. /\ page' \in Page
      /\ page'.marker # 0 => page'.marker = page.marker /\ page'.url = page.url
      /\ page'.typed \in {page.typed, None}
  <2>1. page \in Page
    BY Facts
  <2>2. CASE \E u \in Urls : page' = Document(u)
    BY <2>2, DocumentType
  <2>3. CASE \E n \in Names : page' = [page EXCEPT !.name = n]
    BY <2>1, <2>3, PageTypes
  <2>4. CASE page' = [page EXCEPT !.typed = None]
    <3>1. None \in Secret \cup {None}
      OBVIOUS
    <3>2. QED
      BY <2>1, <2>4, <3>1, PageTypes
  <2>5. QED
    BY <1>2, <2>2, <2>3, <2>4
<1>4. WorkInv'
  <2> SUFFICES ASSUME ~Idle PROVE WorkInv'
    BY <1>1 DEF WorkInv, Idle
  <2>1. HasSecret(Mine) /\ Mine.ref # 0
    BY Facts DEF WorkInv, HasSecret, HasTarget
  <2>2. (Found => page.url = Mine.url)'
    BY <1>1, <1>3, <2>1, Facts DEF Found, Mine, WorkInv
  <2>3. (Doing("clicking") => page.typed \in {Mine.secret, None})'
    BY <1>1, <1>3, Facts DEF Doing, Mine, WorkInv
  <2>4. OnceInv'
    BY <1>1, OnceStays DEF Mine, Doing
  <2>5. StraightInv'
    <3>1. StraightInv
      BY Facts DEF WorkInv
    <3>2. ~Found => ~Found'
      BY <1>1, <1>3, <2>1 DEF Found, Mine
    <3>3. QED
      BY <1>1, <3>1, <3>2 DEF StraightInv
  <2>6. QED
    BY <1>1, <2>1, <2>2, <2>3, <2>4, <2>5, Facts DEF WorkInv, Idle, At, Mine, Doing
<1>5. QED
  <2>1. WorkerOK' /\ WorkerStep
    BY <1>1, Facts DEF WorkerOK, Idle, WorkerStep, Doing
  <2>2. CallInv' /\ \A k \in Calls : CallStep(k)
    BY <1>1, Facts DEF CallInv, CallStep
  <2>3. QED
    BY <1>1, <1>3, <1>4, <2>1, <2>2, NothingSubmitted, Facts

\* A worker that idles, before and after, may see the page anew.
LEMMA IdleInv ==
  ASSUME IInv, Idle, Idle', worker'.doing = None, worker' \in Worker,
         worker'.refs <= worker'.generation, worker.generation <= worker'.generation,
         worker'.refs \in {0, worker.refs} \/ worker'.refs > worker.generation,
         page' \in Page, UNCHANGED <<call, submitted, astray, cut, unseen, life>>,
         Trouble \/ UNCHANGED trouble
  PROVE  LoginInv'
<1>1. WorkInv' /\ WorkerOK' /\ WorkerStep
  BY DEF WorkInv, WorkerOK, WorkerStep, Idle, Doing
<1>2. QED
  BY <1>1, NothingSubmitted, Facts, TroubleType DEF CallInv, CallStep

LEMMA SnapshotInv ==
  ASSUME IInv, Snapshot \/ Status \/ SnapshotFails
  PROVE  LoginInv'
<1> DEFINE c == Connected(worker)
<1>1. /\ c \in Worker /\ c.refs <= c.generation /\ c.generation = worker.generation
      /\ c.at = worker.at /\ c.doing = worker.doing /\ c.refs \in {0, worker.refs}
  BY WorkerTypes, Facts
<1>2. worker.at = "idle" /\ worker.doing = None /\ page \in Page
  BY Facts DEF Snapshot, Status, SnapshotFails, Idle, WorkerOK
<1>3. CASE Status
  <2>1. worker' = c /\ UNCHANGED <<page, call, submitted, astray, cut, unseen, life, trouble>>
    BY <1>3 DEF Status, history
  <2>2. worker.generation <= worker'.generation
    BY <1>1, <2>1, Facts
  <2>3. QED
    BY <1>1, <1>2, <2>1, <2>2, IdleInv DEF Idle
<1>4. CASE Snapshot \/ SnapshotFails
  <2>1. c.generation < MaxGeneration
    BY <1>1, <1>4 DEF Snapshot, SnapshotFails
  <2> HIDE DEF c
  <2>2. /\ Snapshots(c) \in Worker /\ Snapshots(c).refs = c.generation + 1
        /\ Snapshots(c).generation = c.generation + 1
        /\ Snapshots(c).at = "idle" /\ Snapshots(c).doing = None
        /\ [c EXCEPT !.generation = @ + 1] \in Worker
        /\ [c EXCEPT !.generation = @ + 1].refs = c.refs
        /\ [c EXCEPT !.generation = @ + 1].generation = c.generation + 1
        /\ [c EXCEPT !.generation = @ + 1].at = "idle"
        /\ [c EXCEPT !.generation = @ + 1].doing = None
        /\ c.generation + 1 \in Generation
    BY <1>1, <1>2, <2>1, SnapshotTypes
  <2>3. worker' \in {Snapshots(c), [c EXCEPT !.generation = @ + 1]}
    BY <1>4 DEF Snapshot, SnapshotFails, c
  <2>4. c.generation \in Nat /\ c.refs \in Nat
    BY <1>1, LoginAssumption DEF Worker, Generation
  <2>5. page' \in Page
    BY <1>1, <1>2, <1>4, <2>2, PageTypes DEF Snapshot, SnapshotFails, Marks
  <2>6. UNCHANGED <<call, submitted, astray, cut, unseen, life>> /\ (Trouble \/ UNCHANGED trouble)
    BY <1>4 DEF Snapshot, SnapshotFails, history
  <2>7. /\ worker' \in Worker /\ worker'.refs <= worker'.generation
        /\ worker'.refs \in {0, worker.refs} \/ worker'.refs > worker.generation
        /\ worker.generation <= worker'.generation
        /\ worker'.at = "idle" /\ worker'.doing = None
    <3>1. CASE worker' = Snapshots(c)
      BY <1>1, <2>2, <2>4, <3>1
    <3>2. CASE worker' = [c EXCEPT !.generation = @ + 1]
      BY <1>1, <2>2, <2>4, <3>2
    <3>3. QED
      BY <2>3, <3>1, <3>2
  <2>8. QED
    BY <1>2, <2>5, <2>6, <2>7, IdleInv DEF Idle
<1>5. QED
  BY <1>3, <1>4

\* One call is taken on, refused or given up; the worker may connect.
LEMMA OneCallInv ==
  ASSUME IInv, NEW k \in Calls, NEW c \in Call, CallOK(c), call' = [call EXCEPT ![k] = c],
         UNCHANGED <<page, submitted, astray, cut, unseen, life>>, Trouble \/ UNCHANGED trouble,
         worker' = worker \/ (Idle /\ worker' = Connected(worker)),
         \/ call[k].at \notin {"committing", "over"} /\ c.told \in {"nothing", "refused"}
         \/ c.told = "failed",
         ~Idle /\ worker.doing = k => c = [call[k] EXCEPT !.at = "over", !.told = "failed"]
  PROVE  LoginInv'
<1>1. /\ call' \in [Calls -> Call]
      /\ \A j \in Calls : call'[j] = IF j = k THEN c ELSE call[j]
  BY Facts
<1>2. /\ worker' \in Worker /\ worker'.refs <= worker'.generation
      /\ worker'.generation = worker.generation
      /\ worker'.at = worker.at /\ worker'.doing = worker.doing
      /\ worker.refs <= worker.generation /\ worker'.refs \in {0, worker.refs}
  <2>1. CASE worker' = worker
    BY <2>1, Facts
  <2>2. CASE worker' = Connected(worker)
    <3>1. 0 <= worker.generation
      BY Facts
    <3>2. QED
      BY <2>2, <3>1, Facts, WorkerTypes
  <2>3. QED
    BY <2>1, <2>2
<1>3. WorkerOK' /\ WorkerStep
  BY <1>2, Facts DEF WorkerOK, WorkerStep, Idle, Doing
<1>4. CallInv' /\ \A j \in Calls : CallStep(j)
  BY <1>1, Facts DEF CallInv, CallStep
<1>5. WorkInv'
  <2> SUFFICES ASSUME ~Idle PROVE WorkInv'
    BY <1>2 DEF WorkInv, Idle
  <2>1. worker.doing \in Calls /\ worker' = worker
    BY Facts
  <2>2. CASE worker.doing # k
    <3>1. Mine' = Mine
      BY <1>1, <2>1, <2>2 DEF Mine
    <3>2. OnceInv'
      BY <2>1, <3>1, OnceStays DEF Doing
    <3>3. StraightInv'
      BY <2>1, <3>1, Facts DEF WorkInv, StraightInv, Found
    <3>4. QED
      BY <2>1, <3>1, <3>2, <3>3, Facts DEF WorkInv, Idle, At, Doing, Found, Mine
  <2>3. CASE worker.doing = k
    <3> DEFINE d == [call[k] EXCEPT !.at = "over", !.told = "failed"]
    <3>1. Mine' = d /\ Mine = call[k] /\ call[k] \in Call
      BY <1>1, <2>1, <2>3, Facts DEF Mine
    <3>2. /\ d.told = "failed" /\ d.generation = call[k].generation /\ d.url = call[k].url
          /\ d.ref = call[k].ref /\ d.secret = call[k].secret
      BY <3>1 DEF Call
    <3>3. HasSecret(call[k]) => HasSecret(d)
      BY <3>1, CallSteps, Facts
    <3> HIDE DEF d
    <3>4. HasSecret(Mine)'
      BY <3>1, <3>3, Facts DEF WorkInv
    <3>5. (worker.generation = Mine.generation /\ worker.generation < MaxGeneration)'
      BY <2>1, <3>1, <3>2, Facts DEF WorkInv
    <3>6. (Found => page.url = Mine.url)'
      BY <2>1, <3>1, <3>2, Facts DEF WorkInv, Found
    <3>7. (Doing("clicking") => page.typed \in {Mine.secret, None})'
      BY <2>1, <3>1, <3>2, Facts DEF WorkInv, Doing
    <3>8. OnceInv'
      BY <2>1, <3>1, <3>2, OnceStays DEF Doing
    <3>8a. StraightInv'
      BY <2>1, <3>1, <3>2, Facts DEF WorkInv, StraightInv, Found
    <3>9. (Mine.told = "failed")'
      BY <3>1, <3>2
    <3>10. QED
      BY <3>4, <3>5, <3>6, <3>7, <3>8, <3>8a, <3>9 DEF WorkInv
  <2>4. QED
    BY <2>2, <2>3
<1>6. page' \in Page /\ life' \in 1 .. Lives /\ cut \subseteq cut' /\ cut' \subseteq Calls
      /\ unseen \subseteq unseen' /\ unseen' \subseteq Calls /\ astray' = astray
      /\ submitted' = submitted /\ trouble' \in 0 .. MaxTrouble
  BY Facts, TroubleType
<1>7. QED
  BY <1>1, <1>3, <1>4, <1>5, <1>6, NothingSubmitted

LEMMA DescribesInv ==
  ASSUME IInv, NEW k \in Calls, NEW place \in {"described", "pending"}, Describes(k, place)
  PROVE  LoginInv'
<1> DEFINE c == [New EXCEPT !.at = place, !.url = page.url, !.origin = OriginOf[page.url],
                   !.name = worker.name, !.generation = worker.generation, !.ref = worker.refs]
<1>1. /\ page.url \in Urls /\ OriginOf[page.url] \in Origins /\ worker.refs # 0
      /\ worker.name \in Names \cup {None} /\ worker.refs \in Generation
      /\ worker.generation \in Generation
  BY Facts, LoginAssumption DEF Describes, Page, Worker
<1>2. c.at = place /\ c.url = page.url /\ c.origin = OriginOf[page.url] /\ c.ref = worker.refs
      /\ c.generation = worker.generation /\ c.told = "nothing"
  BY DEF New
<1>3. c \in Call
  BY <1>1 DEF New, Call
<1>4. CallOK(c)
  BY <1>1, <1>2, VaultAssumption, Facts DEF CallOK, HasTarget
<1> HIDE DEF c
<1>5. /\ call[k].at = "new" /\ Idle /\ worker' = Connected(worker)
      /\ call' = [call EXCEPT ![k] = c]
      /\ UNCHANGED <<page, submitted, astray, cut, unseen, life, trouble>>
  BY DEF Describes, At, history, c
<1>6. QED
  BY <1>2, <1>3, <1>4, <1>5, OneCallInv

LEMMA TellsInv ==
  ASSUME IInv, NEW k \in Calls,
         CredentialRefused(k) \/ ApprovalEnds(k)
  PROVE  LoginInv'
<1>1. /\ call[k].at \in {"described", "pending"}
      /\ call' = [call EXCEPT ![k] = Told("refused")]
      /\ UNCHANGED <<page, worker, submitted, astray, cut, unseen, life, trouble>>
  BY DEF CredentialRefused, ApprovalEnds, At, Tells, history
<1>2. Told("refused") \in Call /\ Told("refused").told = "refused" /\ CallOK(Told("refused"))
  BY CallTypes, CallSteps, Facts
<1>3. ~Idle /\ worker.doing = k => FALSE
  BY <1>1, Facts DEF WorkInv, At, Mine, CallOK
<1>4. QED
  BY <1>1, <1>2, <1>3, OneCallInv

LEMMA ReceivesInv ==
  ASSUME IInv, NEW k \in Calls, ReadCredential(k) \/ TakeApproval(k)
  PROVE  LoginInv'
<1>1. /\ call[k].at \in {"described", "pending"} /\ call[k] \in Call
      /\ call[k].origin \in Origins
      /\ UNCHANGED <<page, worker, submitted, astray, cut, unseen, life, trouble>>
  BY Facts, LoginAssumption DEF ReadCredential, TakeApproval, At, CallOK, HasTarget, Call, history
<1>2. PICK w \in Secret : Receives(k, w, call[k].origin)
  <2>1. CASE ReadCredential(k)
    <3>1. PICK i \in Ids : /\ Live(i) /\ row[i].origin = call[k].origin
                           /\ Opens(row[i].payload, row[i].origin)
                           /\ Receives(k, row[i].payload.password, row[i].payload.origin)
      BY <2>1 DEF ReadCredential, SavedCredential
    <3>2. row[i].payload.password \in Passwords /\ row[i].payload.origin = call[k].origin
      BY <3>1 DEF Opens, IInv, VaultInv, Sound, Payload
    <3>3. QED
      BY <3>1, <3>2 DEF Secret
  <2>2. CASE TakeApproval(k)
    BY <2>2 DEF TakeApproval, Secret
  <2>3. QED
    BY <2>1, <2>2
<1> DEFINE c == [call[k] EXCEPT !.at = "ready", !.secret = w, !.home = call[k].origin]
<1>3. c \in Call /\ CallOK(c) /\ c.told = "nothing"
  <2>1. c \in Call
    BY <1>1, CallTypes
  <2>2. CallOK(call[k])
    BY Facts
  <2>3. QED
    BY <1>1, <2>1, <2>2, CallSteps
<1>4. call' = [call EXCEPT ![k] = c]
  BY <1>2 DEF Receives
<1> HIDE DEF c
<1>5. ~Idle /\ worker.doing = k => FALSE
  BY <1>1, Facts DEF WorkInv, At, Mine, CallOK
<1>6. QED
  BY <1>1, <1>3, <1>4, <1>5, OneCallInv

LEMMA GiveUpInv ==
  ASSUME IInv, NEW k \in Calls, GiveUp(k)
  PROVE  LoginInv'
<1> DEFINE c == [call[k] EXCEPT !.at = "over", !.told = "failed"]
<1>1. c \in Call /\ CallOK(c)
  BY CallTypes, CallSteps, Facts
<1>2. c.told = "failed"
  BY Facts DEF Call
<1>3. /\ call' = [call EXCEPT ![k] = c] /\ Trouble
      /\ UNCHANGED <<page, worker, submitted, astray, cut, unseen, life>>
  BY DEF GiveUp, history
<1> HIDE DEF c
<1>4. ~Idle /\ worker.doing = k => c = [call[k] EXCEPT !.at = "over", !.told = "failed"]
  BY DEF c
<1>5. QED
  BY <1>1, <1>2, <1>3, <1>4, OneCallInv

LEMMA CommitSavedLoginInv ==
  ASSUME IInv, NEW k \in Calls, CommitSavedLogin(k)
  PROVE  LoginInv'
<1>1. /\ Idle /\ call[k].at = "ready" /\ worker.generation < MaxGeneration
      /\ UNCHANGED <<page, submitted, astray, cut, unseen, life, trouble>>
  BY DEF CommitSavedLogin, At, history
<1>2. CASE ~Matches(k)
  <2>1. worker' = Connected(worker) /\ call' = [call EXCEPT ![k] = Told("failed")]
    BY <1>2 DEF CommitSavedLogin, Tells
  <2>2. Told("failed") \in Call /\ Told("failed").told = "failed" /\ CallOK(Told("failed"))
    BY CallTypes, CallSteps, Facts
  <2>3. QED
    BY <1>1, <2>1, <2>2, OneCallInv
<1>3. CASE Matches(k)
  <2> DEFINE c == [call[k] EXCEPT !.at = "committing"]
             w == Connected(worker)
             v == [w EXCEPT !.doing = k, !.at = "focusing"]
  <2>1. /\ c \in Call /\ CallOK(c) /\ HasSecret(c) /\ c.told = "nothing" /\ c.at = "committing"
    BY <1>1, CallTypes, CallSteps, Facts
  <2>2. c.url = call[k].url /\ c.ref = call[k].ref /\ c.generation = call[k].generation
    BY Facts DEF Call
  <2>3. call' = [call EXCEPT ![k] = c] /\ worker' = v
    BY <1>3 DEF CommitSavedLogin
  <2>4. /\ w \in Worker /\ w.refs <= w.generation /\ w.generation = worker.generation
        /\ w.refs \in {0, worker.refs}
    <3>1. w \in Worker /\ w.refs \in {0, worker.refs} /\ w.generation = worker.generation
      BY WorkerTypes, Facts
    <3>2. QED
      BY <3>1, Facts
  <2> HIDE DEF c, w
  <2>5. /\ v \in Worker /\ v.refs = w.refs /\ v.generation = w.generation
        /\ v.at = "focusing" /\ v.doing = k
    BY <2>4 DEF Worker
  <2> HIDE DEF v
  <2>6. /\ call' \in [Calls -> Call]
        /\ \A j \in Calls : call'[j] = IF j = k THEN c ELSE call[j]
    BY <2>1, <2>3, Facts
  <2>7. CallInv' /\ \A j \in Calls : CallStep(j)
    BY <1>1, <2>1, <2>6, Facts DEF CallInv, CallStep
  <2>8. WorkerOK'
    BY <2>3, <2>4, <2>5, LoginAssumption DEF WorkerOK, Idle
  <2>9. WorkInv'
    <3>1. Mine' = c
      BY <2>3, <2>5, <2>6 DEF Mine
    <3>2. worker.generation = c.generation /\ page.url = c.url
      BY <1>3, <2>2 DEF Matches
    <3>3. At(worker.doing, "committing")'
      BY <2>1, <2>3, <2>5, <2>6 DEF At
    <3>4. ~Outcome(k)
      BY <1>1, Facts DEF Outcome, At, CallOK
    <3>5. Unused(k) /\ \A x \in astray : x.call # k
      BY <3>4 DEF IInv, SubmittedInv, Unused
    <3>6. Submittable(c)
      <4> SUFFICES ASSUME NEW x \in submitted, x.life = life, x.target.ref = c.ref
                   PROVE  \/ x.call \in cut
                          \/ x.call \in unseen /\ x.target.generation < c.generation
        BY DEF Submittable
      <4>1. worker.refs = c.ref /\ c.ref # 0
        BY <1>3, <2>1, <2>2 DEF Matches, HasSecret, HasTarget
      <4>2. /\ x.target.generation \in Nat /\ x.target.ref \in Nat
        BY LoginAssumption DEF IInv, TypeOK, Call, Generation
      <4>3. /\ x.target.ref <= x.target.generation
            /\ \/ x.call \in cut
               \/ /\ x.target.generation < worker.generation
                  /\ \/ x.call \in unseen
                     \/ worker.refs = 0 \/ worker.refs > x.target.generation
        BY <1>1 DEF IInv, SubmittedInv, Doing, Idle
      <4>4. QED
        BY <3>2, <4>1, <4>2, <4>3
    <3>7. OnceInv'
      BY <1>1, <2>3, <2>5, <3>1, <3>5, <3>6 DEF OnceInv, Doing, Unused, Submittable
    <3>8. StraightInv'
      BY <1>1, <2>3, <2>5, <3>5 DEF StraightInv
    <3>9. QED
      BY <1>1, <2>1, <2>3, <2>4, <2>5, <3>1, <3>2, <3>3, <3>7, <3>8 DEF WorkInv, Doing
  <2>10. WorkerStep
    BY <1>1, <2>3, <2>4, <2>5, Facts DEF WorkerStep, Doing, Idle
  <2>11. QED
    BY <1>1, <2>6, <2>7, <2>8, <2>9, <2>10, Facts, NothingSubmitted
<1>4. QED
  BY <1>2, <1>3

\* The steps of a commit up to the click that type nothing.
LEMMA GoesInv ==
  ASSUME IInv, Focus \/ Verify
  PROVE  LoginInv'
<1> DEFINE place == IF Focus THEN "typing" ELSE "clicking"
<1>1. /\ ~Idle /\ worker.at \in {"focusing", "verifying"} /\ Found
      /\ UNCHANGED <<page, call, submitted, astray, cut, unseen, life, trouble>>
      /\ ~Focus => page.typed = Mine.secret
  BY DEF Focus, Verify, Idle, Doing, history
<1>2. worker' = [worker EXCEPT !.at = place]
  BY DEF Focus, Verify, Goes
<1>3. /\ worker' \in Worker /\ worker'.refs = worker.refs
      /\ worker'.generation = worker.generation /\ worker'.doing = worker.doing
      /\ worker'.at = place /\ worker'.at \notin {"idle", "settling"}
  BY <1>2, Facts DEF Worker
<1> HIDE DEF place
<1>4. WorkInv'
  <2>1. Mine' = Mine
    BY <1>1, <1>3 DEF Mine
  <2>2. (Doing("clicking") => page.typed \in {Mine.secret, None})'
    BY <1>1, <1>3, <2>1 DEF Doing, place
  <2>3. OnceInv'
    BY <1>1, <1>3, <2>1, OnceStays DEF Doing
  <2>4. StraightInv'
    BY <1>1, <1>3, Facts DEF WorkInv, StraightInv
  <2>5. QED
    BY <1>1, <1>3, <2>1, <2>2, <2>3, <2>4, Facts DEF WorkInv, Found, At
<1>5. WorkerOK' /\ WorkerStep
  BY <1>1, <1>3, Facts DEF WorkerOK, WorkerStep, Idle, Doing
<1>6. CallInv' /\ \A k \in Calls : CallStep(k)
  BY <1>1, Facts DEF CallInv, CallStep
<1>7. QED
  BY <1>1, <1>4, <1>5, <1>6, Facts, NothingSubmitted

\* What is typed, on whatever page there is by then.
LEMMA InsertTextInv ==
  ASSUME IInv, InsertText
  PROVE  LoginInv'
<1> DEFINE k == worker.doing
           e == [call |-> k, field |-> worker.field, found |-> Found]
<1>1. /\ ~Idle /\ worker.at = "typing"
      /\ UNCHANGED <<call, submitted, cut, unseen, life, trouble>>
      /\ astray' = astray \/ (astray' = astray \cup {e} /\ OriginOf[page.url] # Mine.home)
  BY DEF InsertText, Strays, Idle, Doing
<1>2. /\ HasSecret(Mine) /\ Mine.secret \in Secret
      /\ Found => page.url = Mine.url
      /\ At(k, "committing") \/ Mine.told = "failed"
      /\ Unused(k) /\ \A x \in astray : x.call # k
  BY <1>1, Facts DEF WorkInv, HasSecret, OnceInv, StraightInv, Doing
<1>3. page' \in Page /\ page'.url = page.url /\ page'.marker = page.marker
  <2>1. page \in Page /\ page.typed \in Secret \cup {None}
    BY Facts DEF Page
  <2>2. PICK x \in Secret \cup {None} : page' = [page EXCEPT !.typed = x]
    BY <1>2, <2>1 DEF InsertText, Filled
  <2>3. QED
    BY <2>1, <2>2, PageTypes
<1>4. /\ worker' \in Worker /\ worker'.refs = worker.refs
      /\ worker'.generation = worker.generation /\ worker'.doing = worker.doing
      /\ worker'.at \in {"focusing", "verifying"}
  BY Facts DEF InsertText, Worker, Fields
<1>5. k \in Calls /\ Mine = call[k] /\ worker.field \in Fields /\ e \in
        [call : Calls, field : Fields, found : BOOLEAN]
  BY <1>1, Facts DEF Mine, Worker, Found
<1>6. astray' = astray \/ (astray' = astray \cup {e} /\ ~Found)
  BY <1>1, <1>2 DEF HasSecret, HasTarget
<1>7. e.call = k /\ e.found = Found
  OBVIOUS
<1> HIDE DEF e
<1>8. Mine' = Mine /\ Found' = Found
  BY <1>1, <1>3, <1>4 DEF Mine, Found
<1>9. WorkInv'
  <2>1. OnceInv'
    BY <1>1, <1>4, <1>8, OnceStays DEF Doing
  <2>2. StraightInv'
    BY <1>2, <1>4, <1>6, <1>8 DEF StraightInv
  <2>3. QED
    BY <1>1, <1>3, <1>4, <1>8, <2>1, <2>2, Facts DEF WorkInv, At, Doing
<1>10. astray' = astray \/ AstrayOK'
  <2> SUFFICES ASSUME astray' = astray \cup {e}, ~Found PROVE AstrayOK'
    BY <1>6
  <2>1. Outcome(k)
    BY <1>2, <1>5 DEF Outcome
  <2>2. AstrayOK
    BY DEF AstrayOK, IInv, TypeOK, SubmittedInv, SecretsAtHome
  <2>3. astray' \subseteq [call : Calls, field : Fields, found : BOOLEAN]
    BY <1>5, <2>2 DEF AstrayOK
  <2>4. ASSUME NEW x \in astray' PROVE Outcome(x.call)' /\ ~x.found
    BY <1>1, <1>7, <2>1, <2>2, <2>4 DEF AstrayOK, Outcome, At
  <2>5. ASSUME NEW x \in astray', NEW y \in astray', y.call = x.call PROVE y = x
    BY <1>2, <1>7, <2>2, <2>5 DEF AstrayOK
  <2>6. ASSUME NEW x \in astray', NEW y \in submitted' PROVE y.call # x.call
    BY <1>1, <1>2, <1>7, <2>2, <2>6 DEF AstrayOK, Unused
  <2>7. QED
    BY <2>3, <2>4, <2>5, <2>6 DEF AstrayOK
<1>11. WorkerOK' /\ WorkerStep
  BY <1>1, <1>4, Facts DEF WorkerOK, WorkerStep, Idle, Doing
<1>12. CallInv' /\ \A j \in Calls : CallStep(j)
  BY <1>1, Facts DEF CallInv, CallStep
<1>13. QED
  BY <1>1, <1>3, <1>9, <1>10, <1>11, <1>12, Facts, NothingSubmitted

\* The click: on the page of the origin the secret is kept for, with that
\* secret or nothing, and on a form that may still be submitted.
LEMMA ClickInv ==
  ASSUME IInv, Click
  PROVE  LoginInv'
<1> DEFINE k == worker.doing
           y == [call |-> k, target |-> Mine, url |-> page.url, typed |-> page.typed,
                 life |-> life, after |-> {x.call : x \in submitted}]
           v == [worker EXCEPT !.at = "settling"]
<1>1. /\ worker.at = "clicking" /\ ~Idle /\ Found
      /\ submitted' = submitted \cup {y} /\ worker' = v
      /\ UNCHANGED <<call, astray, cut, unseen, life, trouble>>
  BY DEF Click, Doing, Idle, Goes
<1>2. /\ k \in Calls /\ Mine \in Call /\ Mine = call[k] /\ CallOK(Mine)
  BY <1>1, Facts DEF Mine
<1>3. /\ HasSecret(Mine) /\ page.url = Mine.url /\ page.typed \in {Mine.secret, None}
      /\ worker.generation = Mine.generation /\ worker.generation < MaxGeneration
      /\ At(k, "committing") \/ Mine.told = "failed"
      /\ Unused(k) /\ Submittable(Mine) /\ \A x \in astray : x.call # k
  BY <1>1, Facts DEF WorkInv, OnceInv, StraightInv, Doing
<1>4. /\ v \in Worker /\ v.refs = worker.refs /\ v.generation = worker.generation
      /\ v.doing = k /\ v.at = "settling"
  BY Facts DEF Worker
<1>5. /\ y.call = k /\ y.target = Mine /\ y.url = page.url /\ y.typed = page.typed
      /\ y.life = life /\ y.after = {x.call : x \in submitted}
  OBVIOUS
<1>6. page' \in Page /\ (page'.marker # 0 => page'.marker = page.marker /\ page'.url = page.url)
  <2>1. page \in Page /\ None \in Secret \cup {None}
    BY Facts
  <2>2. page' = page \/ page' = [page EXCEPT !.typed = None] \/ \E u \in Urls : page' = Document(u)
    BY DEF Click
  <2>3. CASE page' = page
    BY <2>1, <2>3
  <2>4. CASE page' = [page EXCEPT !.typed = None]
    BY <2>1, <2>4, PageTypes
  <2>5. CASE \E u \in Urls : page' = Document(u)
    BY <2>5, DocumentType
  <2>6. QED
    BY <2>2, <2>3, <2>4, <2>5
<1>7. y \in [call : Calls, target : Call, url : Urls, typed : Secret \cup {None},
             life : 1 .. Lives, after : SUBSET Calls]
  <2>1. {x.call : x \in submitted} \subseteq Calls
    BY DEF IInv, TypeOK
  <2>2. QED
    BY <1>2, <2>1, Facts DEF Page
<1> HIDE DEF v, y
<1>8. CallInv'
  BY <1>1, Facts DEF CallInv
<1>9. TypeOK'
  <2>1. submitted' \subseteq
          [call : Calls, target : Call, url : Urls, typed : Secret \cup {None},
           life : 1 .. Lives, after : SUBSET Calls]
    BY <1>1, <1>7 DEF IInv, TypeOK
  <2>2. (\A j \in Calls : call[j].at \notin {"new", "over"} => call[j].origin \in Origins)'
    BY <1>1 DEF IInv, TypeOK
  <2>3. (Idle <=> worker.doing = None)'
    BY <1>1, <1>4, Facts DEF Idle
  <2>4. astray' \subseteq [call : Calls, field : Fields, found : BOOLEAN]
    BY <1>1 DEF IInv, TypeOK
  <2>5. QED
    BY <1>1, <1>4, <1>6, <2>1, <2>2, <2>3, <2>4, Facts DEF TypeOK
<1>10. WorkInv'
  <2>1. Mine' = Mine
    BY <1>1, <1>4 DEF Mine
  <2>2. Mine.ref # 0
    BY <1>3 DEF HasSecret, HasTarget
  <2>3. (Found => page.url = Mine.url)'
    BY <1>1, <1>3, <1>6, <2>1, <2>2 DEF Found
  <2>4. (At(worker.doing, "committing") \/ Mine.told = "failed")'
    BY <1>1, <1>3, <1>4, <2>1 DEF At
  <2>5. OnceInv'
    BY <1>1, <1>4, <1>5 DEF OnceInv, Unused, Doing
  <2>6. StraightInv'
    BY <1>1, <1>3, <1>4 DEF StraightInv
  <2>7. QED
    BY <1>1, <1>3, <1>4, <2>1, <2>3, <2>4, <2>5, <2>6 DEF WorkInv, Doing
<1>11. SubmittedInv'
  <2>1. \A x \in astray' : Outcome(x.call)'
    BY <1>1 DEF IInv, SubmittedInv, Outcome, At
  <2>2. Outcome(k)' /\ Mine.ref <= Mine.generation /\ Mine.generation \in Nat
    <3>1. Outcome(k)'
      BY <1>1, <1>2, <1>3, <1>4 DEF Outcome, At
    <3>2. Mine.generation \in Nat
      BY <1>2, LoginAssumption DEF Call, Generation
    <3>3. QED
      BY <1>3, <3>1, <3>2 DEF HasSecret, HasTarget
  <2> SUFFICES ASSUME NEW x \in submitted'
               PROVE  /\ Outcome(x.call)'
                      /\ x.target.ref <= x.target.generation
                      /\ x.life <= life'
                      /\ x.life = life' =>
                           /\ x.target.generation <= worker'.generation
                           /\ \/ x.call \in cut'
                              \/ worker'.at = "settling" /\ worker'.doing = x.call
                              \/ /\ x.target.generation < worker'.generation
                                 /\ \/ x.call \in unseen'
                                    \/ worker'.refs = 0 \/ worker'.refs > x.target.generation
    <3>1. \A j : ~Unused(j) => ~Unused(j)'
      BY <1>1 DEF Unused
    <3>2. \A j \in y.after : ~Unused(j)
      BY <1>5 DEF Unused
    <3>3. \A x \in submitted' : \A j \in x.after : ~Unused(j)'
      BY <1>1, <3>1, <3>2 DEF IInv, SubmittedInv
    <3>4. QED
      BY <2>1, <3>3 DEF SubmittedInv, Doing
  <2>3. CASE x = y
    BY <1>1, <1>3, <1>4, <1>5, <2>2, <2>3, Facts
  <2>4. CASE x \in submitted
    <3>1. /\ Outcome(x.call)
          /\ x.target.ref <= x.target.generation
          /\ x.life <= life
          /\ x.life = life =>
               /\ x.target.generation <= worker.generation
               /\ \/ x.call \in cut
                  \/ /\ x.target.generation < worker.generation
                     /\ \/ x.call \in unseen
                        \/ worker.refs = 0 \/ worker.refs > x.target.generation
      BY <1>1, <2>4 DEF IInv, SubmittedInv, Doing
    <3>2. Outcome(x.call)'
      BY <1>1, <3>1 DEF Outcome, At
    <3>3. QED
      BY <1>1, <1>4, <3>1, <3>2
  <2>5. QED
    BY <1>1, <2>3, <2>4
<1>12. SecretsAtHome'
  <2>1. OriginOf[y.url] = y.target.home /\ y.typed \in {y.target.secret, None}
    BY <1>3, <1>5 DEF HasSecret, HasTarget
  <2>2. \A x \in astray : y.call # x.call
    BY <1>3, <1>5
  <2>3. QED
    BY <1>1, <2>1, <2>2 DEF IInv, SecretsAtHome
<1>13. OutcomeTruthful'
  <2>1. call[k].told # "refused"
    BY <1>2, <1>3 DEF At, CallOK
  <2>2. QED
    BY <1>1, <1>5, <2>1 DEF IInv, OutcomeTruthful
<1>14. NotTwice'
  <2>1. ASSUME NEW x \in submitted, SameForm(x, y)
        PROVE  x.call \in cut \/ (x.call \in unseen /\ x.target.generation < y.target.generation)
    BY <1>3, <1>5, <2>1 DEF SameForm, Submittable
  <2>2. y.call \notin y.after
    BY <1>3, <1>5 DEF Unused
  <2>3. ASSUME NEW x \in submitted PROVE y.call \notin x.after
    BY <1>3, <1>5, <2>3 DEF IInv, SubmittedInv
  <2>4. \A x, z \in submitted : x.call \in z.after /\ SameForm(x, z) =>
          x.call \in cut \/ (x.call \in unseen /\ x.target.generation < z.target.generation)
    BY DEF IInv, NotTwice
  <2>5. QED
    BY <1>1, <2>1, <2>2, <2>3, <2>4 DEF NotTwice
<1>15. QED
  BY <1>8, <1>9, <1>10, <1>11, <1>12, <1>13, <1>14 DEF LoginInv

\* A commit ends: its caller is told, if it still listens, and a click that was
\* not followed by a snapshot counts as cut off.
LEMMA EndsInv ==
  ASSUME IInv, ~Idle, NEW what \in {"failed", "submitted"}, Answers(what),
         what = "submitted" => Doing("settling"),
         worker' \in Worker, worker'.refs <= worker'.generation,
         worker.generation <= worker'.generation,
         worker'.at = "idle", worker'.doing = None, page' \in Page,
         cut' \subseteq Calls, cut \subseteq cut',
         unseen' \subseteq Calls, unseen \subseteq unseen',
         worker'.refs \in {0, worker.refs} \/ worker'.refs > worker.generation,
         Doing("settling") =>
           \/ worker.doing \in cut'
           \/ /\ worker.generation < worker'.generation
              /\ worker.doing \in unseen' \/ worker'.refs > worker.generation,
         UNCHANGED <<submitted, astray, life>>, Trouble \/ UNCHANGED trouble
  PROVE  LoginInv'
<1>1. Told(what) \in Call /\ Told(what).told = what /\ CallOK(Told(what))
  BY CallTypes, CallSteps, Facts
<1>2. \/ call' = call
      \/ call' = [call EXCEPT ![worker.doing] = Told(what)]
  BY DEF Answers, Tells
<1>3. worker.doing \in Calls
  BY Facts
<1>4. /\ call' \in [Calls -> Call]
      /\ \A k \in Calls : \/ call'[k] = call[k]
                          \/ k = worker.doing /\ call'[k] = Told(what)
  BY <1>1, <1>2, <1>3, Facts
<1>5. CallInv' /\ \A k \in Calls : CallStep(k)
  BY <1>1, <1>4, Facts DEF CallInv, CallStep
<1>6. WorkInv' /\ WorkerOK' /\ WorkerStep
  BY DEF WorkInv, WorkerOK, WorkerStep, Idle
<1>7. QED
  BY <1>4, <1>5, <1>6, NothingSubmitted, Facts, TroubleType

LEMMA SettleInv ==
  ASSUME IInv, Settle \/ SettleFails
  PROVE  LoginInv'
<1>1. /\ ~Idle /\ Doing("settling") /\ page \in Page /\ worker \in Worker
      /\ worker.generation < MaxGeneration
  BY Facts DEF Settle, SettleFails, Idle, Doing, WorkInv
<1>2. worker.generation + 1 \in Generation
  BY <1>1, SnapshotTypes
<1>3. page' \in Page
  BY <1>1, <1>2, PageTypes DEF Settle, SettleFails, Marks
<1>4. /\ worker' \in Worker /\ worker'.refs <= worker'.generation
      /\ worker'.generation = worker.generation + 1
      /\ worker'.at = "idle" /\ worker'.doing = None
      /\ \/ worker'.refs = worker.generation + 1 /\ unseen' = unseen
         \/ worker'.refs = worker.refs /\ unseen' = unseen \cup {worker.doing}
  <2>1. CASE Settle
    <3>1. /\ Snapshots(worker) \in Worker
          /\ Snapshots(worker).refs = worker.generation + 1
          /\ Snapshots(worker).generation = worker.generation + 1
      BY <1>1, SnapshotTypes
    <3>2. Snapshots(worker).refs <= Snapshots(worker).generation
      BY <3>1, Facts
    <3>3. QED
      BY <2>1, <3>1, <3>2, WorkerTypes DEF Settle, history
  <2>2. CASE SettleFails
    <3> DEFINE r == Released(worker)
    <3>1. /\ r \in Worker /\ r.refs = worker.refs /\ r.generation = worker.generation
          /\ r.at = "idle" /\ r.doing = None
      BY Facts, WorkerTypes
    <3>2. worker' = [r EXCEPT !.generation = @ + 1]
      BY <2>2 DEF SettleFails
    <3> HIDE DEF r
    <3>3. /\ [r EXCEPT !.generation = @ + 1] \in Worker
          /\ [r EXCEPT !.generation = @ + 1].refs = r.refs
          /\ [r EXCEPT !.generation = @ + 1].generation = r.generation + 1
          /\ [r EXCEPT !.generation = @ + 1].at = r.at
          /\ [r EXCEPT !.generation = @ + 1].doing = r.doing
      BY <1>1, <3>1, SnapshotTypes
    <3>4. worker.refs <= worker.generation + 1
      BY Facts, LoginAssumption DEF Worker, Generation
    <3>5. unseen' = unseen \cup {worker.doing}
      BY <2>2 DEF SettleFails
    <3>6. QED
      BY <3>1, <3>2, <3>3, <3>4, <3>5
  <2>3. QED
    BY <2>1, <2>2
<1>5. /\ worker.generation < worker'.generation /\ worker.generation <= worker'.generation
      /\ worker'.refs = worker.refs \/ worker'.refs > worker.generation
      /\ worker.doing \in unseen' \/ worker'.refs > worker.generation
      /\ unseen \subseteq unseen' /\ unseen' \subseteq Calls
  BY <1>1, <1>4, Facts
<1>6. /\ UNCHANGED <<submitted, astray, cut, life>> /\ (Trouble \/ UNCHANGED trouble)
      /\ \E what \in {"failed", "submitted"} : Answers(what)
  BY DEF Settle, SettleFails, history
<1>7. QED
  BY <1>1, <1>3, <1>4, <1>5, <1>6, EndsInv, Facts

LEMMA CutsType ==
  ASSUME IInv, Cuts
  PROVE  /\ cut' \subseteq Calls /\ cut \subseteq cut'
         /\ Doing("settling") => worker.doing \in cut'
BY Facts DEF Cuts, Doing, Idle

LEMMA CommitFailsInv ==
  ASSUME IInv, CommitFails
  PROVE  LoginInv'
<1>1. /\ ~Idle /\ worker' = Released(worker) /\ Answers("failed") /\ Cuts
      /\ UNCHANGED <<page, submitted, astray, unseen, life>> /\ (Trouble \/ UNCHANGED trouble)
  BY DEF CommitFails, Spares
<1>2. /\ worker' \in Worker /\ worker'.refs = worker.refs
      /\ worker'.generation = worker.generation
      /\ worker'.at = "idle" /\ worker'.doing = None
  BY <1>1, WorkerTypes, Facts
<1>3. worker'.refs <= worker'.generation /\ worker.generation <= worker'.generation
  BY <1>2, Facts
<1>4. QED
  BY <1>1, <1>2, <1>3, CutsType, EndsInv, Facts

LEMMA DisconnectInv ==
  ASSUME IInv, Disconnect
  PROVE  LoginInv'
<1> DEFINE r == Released(worker)
<1>1. /\ r \in Worker /\ r.refs = worker.refs /\ r.generation = worker.generation
      /\ r.at = "idle" /\ r.doing = None
  BY WorkerTypes, Facts
<1>2. worker' = [r EXCEPT !.connected = FALSE] /\ Trouble /\ Cuts
      /\ UNCHANGED <<page, submitted, astray, unseen, life>>
  BY DEF Disconnect
<1> HIDE DEF r
<1>3. /\ worker' \in Worker /\ worker'.refs = worker.refs
      /\ worker'.generation = worker.generation
      /\ worker'.at = "idle" /\ worker'.doing = None
  BY <1>1, <1>2 DEF Worker
<1>4. worker'.refs <= worker'.generation /\ worker.generation <= worker'.generation
  BY <1>3, Facts
<1>5. CASE ~Idle
  <2>1. Answers("failed")
    BY <1>5 DEF Disconnect
  <2>2. QED
    BY <1>2, <1>3, <1>4, <1>5, <2>1, CutsType, EndsInv, Facts
<1>6. CASE Idle
  <2>1. UNCHANGED <<call, cut>>
    BY <1>6 DEF Disconnect, Cuts, Idle, Doing
  <2>2. QED
    BY <1>2, <1>3, <1>4, <1>6, <2>1, IdleInv, Facts DEF Idle
<1>7. QED
  BY <1>5, <1>6

\* A new life: nothing of it has been submitted yet.
LEMMA RestartInv ==
  ASSUME IInv, Restart
  PROVE  LoginInv'
<1>1. /\ worker' = Started /\ life' = life + 1 /\ life < Lives /\ Trouble /\ Cuts
      /\ UNCHANGED <<page, submitted, astray, unseen>>
  BY DEF Restart
<1>2. /\ worker' \in Worker /\ worker'.refs = 0 /\ worker'.generation = 0
      /\ worker'.at = "idle" /\ worker'.doing = None
  BY <1>1, WorkerTypes, Facts
<1>3. \A k \in Calls :
        \/ call'[k] = call[k]
        \/ call[k].at = "pending" /\ call'[k] = Told("refused")
        \/ call'[k] = Told("failed")
  BY DEF Restart, At
<1>4. /\ Told("refused") \in Call /\ Told("refused").told = "refused" /\ CallOK(Told("refused"))
      /\ Told("failed") \in Call /\ Told("failed").told = "failed" /\ CallOK(Told("failed"))
  <2>1. ASSUME NEW k \in Calls
        PROVE  /\ Told("refused") \in Call /\ Told("refused").told = "refused" /\ CallOK(Told("refused"))
               /\ Told("failed") \in Call /\ Told("failed").told = "failed" /\ CallOK(Told("failed"))
    BY CallTypes, CallSteps, Facts
  <2>2. New \in Call
    BY LoginAssumption DEF New, Call, Generation
  <2>3. CallOK(New)
    BY DEF CallOK, New
  <2>4. QED
    BY <2>2, <2>3, CallTypes, CallSteps
<1>5. call' \in [Calls -> Call]
  <2>1. \A k \in Calls : call'[k] \in Call
    BY <1>3, <1>4, Facts
  <2>2. QED
    BY <2>1 DEF Restart
<1>6. CallInv' /\ \A k \in Calls : CallStep(k)
  BY <1>3, <1>4, Facts DEF CallInv, CallStep
<1>7. WorkInv' /\ WorkerOK' /\ WorkerStep
  <2>1. life' \in Nat /\ life < life'
    BY <1>1, Facts
  <2>2. WorkerStep
    BY <2>1 DEF WorkerStep
  <2>3. QED
    BY <1>2, <2>2 DEF WorkInv, WorkerOK, Idle
<1>8. page' \in Page /\ life' \in 1 .. Lives /\ trouble' \in 0 .. MaxTrouble
  BY <1>1, Facts, TroubleType, LoginAssumption
<1>9. QED
  <2>1. submitted' = submitted /\ astray' = astray /\ unseen' = unseen /\ unseen \subseteq Calls
    BY <1>1, Facts
  <2>2. cut' \subseteq Calls /\ cut \subseteq cut'
    BY <1>1, CutsType
  <2>3. QED
    BY <1>5, <1>6, <1>7, <1>8, <2>1, <2>2, NothingSubmitted

LEMMA QuietInv ==
  ASSUME IInv, UNCHANGED login
  PROVE  LoginInv'
BY DEF login, history, IInv, LoginInv, TypeOK, CallInv, WorkInv, SubmittedInv, SecretsAtHome,
       OutcomeTruthful, NotTwice, Idle, At, Mine, Found, Doing, OnceInv, StraightInv, Unused,
       Submittable, Outcome

LEMMA NextInv == IInv /\ [Next]_vars => IInv'
<1> SUFFICES ASSUME IInv, [Next]_vars PROVE IInv'
  OBVIOUS
<1>1. VaultInv'
  <2>1. [VaultNext]_vault
    BY DEF Next, LoginNext, PageMoves, Snapshot, Status, SnapshotFails, Describe, Describes,
           PrepareSavedLogin, ReadCredential, CredentialRefused, TakeApproval, ApprovalEnds,
           CommitSavedLogin, GiveUp, Focus, InsertText, Verify, Click, Settle, SettleFails, CommitFails,
           Disconnect, Restart, vars
  <2>2. QED
    BY <2>1, VaultNextInv DEF IInv
<1>2. LoginInv'
  <2>1. CASE LoginNext
    <3>1. ASSUME NEW k \in Calls, Describe(k) \/ PrepareSavedLogin(k) PROVE LoginInv'
      BY <3>1, DescribesInv DEF Describe, PrepareSavedLogin
    <3>2. QED
      BY <2>1, <3>1, PageMovesInv, SnapshotInv, ReceivesInv, TellsInv, CommitSavedLoginInv,
         GiveUpInv, GoesInv, InsertTextInv, ClickInv, SettleInv, CommitFailsInv, DisconnectInv, RestartInv
      DEF LoginNext
  <2>2. CASE UNCHANGED login
    BY <2>2, QuietInv
  <2>3. QED
    BY <2>1, <2>2 DEF Next, vars
<1>3. QED
  BY <1>1, <1>2 DEF IInv, LoginInv

\* For any number of accesses, origins, passwords, calls, updates and lives:
\* the vault's rows and the updates under way, the logins, the commit the
\* worker is at and what was submitted fit each other.
THEOREM InvariantHolds == Spec => []IInv
<1>1. QED
  BY InitInv, NextInv, PTL DEF Spec

\* Unless updates of it crossed, a saved access opens under its origin and
\* holds the password its owner gave last.
THEOREM IntactHolds == Spec => []Intact
<1>1. IInv => Intact
  BY DEF IInv, VaultInv
<1>2. QED
  BY <1>1, InvariantHolds, PTL

\* However pages, accesses, references and connections change on the way, a
\* secret is submitted only to the origin it is kept for, and typed elsewhere
\* only into a document that came between the focus of a field and its text.
THEOREM HomeHolds == Spec => []SecretsAtHome
<1>1. IInv => SecretsAtHome
  BY DEF IInv
<1>2. QED
  BY <1>1, InvariantHolds, PTL

\* Success and refusal are told truthfully, whichever calls were given up.
THEOREM OutcomesHold == Spec => []OutcomeTruthful
<1>1. IInv => OutcomeTruthful
  BY DEF IInv
<1>2. QED
  BY <1>1, InvariantHolds, PTL

\* In a life of the worker a form is submitted again before a snapshot has shown
\* it anew only after a click that was cut off, or, by a login described later,
\* after one whose snapshot failed.
THEOREM NotTwiceHolds == Spec => []NotTwice
<1>1. IInv => NotTwice
  BY DEF IInv
<1>2. QED
  BY <1>1, InvariantHolds, PTL
=============================================================================
