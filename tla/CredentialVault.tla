--------------------------- MODULE CredentialVault ---------------------------
(***************************************************************************)
(* The saved accesses of one account (internal/control/credentials.go):    *)
(* rows with an origin, at most one per origin, and a payload that is      *)
(* sealed for the origin (credential_vault.go): it opens under no other.   *)
(* An update reads the row, seals a payload for the origin it was asked    *)
(* for, with the password it found when it was given none, and saves the   *)
(* columns it changed, while other updates and deletions do the same.      *)
(* Every query and every seal names the account, so the rows of others are *)
(* left out; of a secret only the password matters.                        *)
(***************************************************************************)
EXTENDS Naturals, FiniteSets

CONSTANTS
  Ids,        \* identifiers of rows, each used once
  Origins,    \* canonical HTTPS origins
  Passwords,
  None,       \* no password, no row, no origin
  Slots,      \* updates the control plane handles at a time
  MaxEdits    \* bound: creations and updates that were begun

ASSUME VaultAssumption ==
  /\ None \notin Ids \cup Origins \cup Passwords
  /\ MaxEdits \in Nat

VARIABLES
  row,        \* saved_credentials
  edit,       \* the updates between their read and their save
  given,      \* history: the password its owner gave last for each row
  crossed,    \* history: rows saved by an update that read before another save
  edits

vault == <<row, edit, given, crossed, edits>>

Payload == [origin : Origins, password : Passwords]
NoPayload == [origin |-> None, password |-> None]
Rows == [at : {"none", "live", "gone"}, origin : Origins \cup {None},
         payload : Payload \cup {NoPayload}]

\* found: the origin that was read; blank: was the password left out; late:
\* history: has the row been saved since it was read?
Edits == [id : Ids \cup {None}, found : Origins \cup {None},
          origin : Origins \cup {None}, payload : Payload \cup {NoPayload},
          blank : BOOLEAN, late : BOOLEAN]

NoRow == [at |-> "none", origin |-> None, payload |-> NoPayload]
NoEdit == [id |-> None, found |-> None, origin |-> None, payload |-> NoPayload,
           blank |-> FALSE, late |-> FALSE]

Kept(o, w) == [at |-> "live", origin |-> o, payload |-> [origin |-> o, password |-> w]]

\* Some accesses have been saved already.
VaultInit ==
  /\ row \in [Ids -> {NoRow} \cup {Kept(o, w) : o \in Origins, w \in Passwords}]
  /\ \A i, j \in Ids : row[i] # NoRow /\ i # j => row[i].origin # row[j].origin
  /\ edit = [s \in Slots |-> NoEdit]
  /\ given = [i \in Ids |-> row[i].payload.password]
  /\ crossed = {}
  /\ edits = 0

-----------------------------------------------------------------------------
Live(i) == row[i].at = "live"

\* idx_saved_credentials_owner_origin: is the origin free for row i?
Unique(i, o) == \A j \in Ids \ {i} : Live(j) => row[j].origin # o

Opens(payload, o) == payload.origin = o

\* What a save does to the updates that read the row before.
Overtaken(i, s) ==
  [t \in Slots |-> IF t = s THEN NoEdit
                   ELSE IF edit[t].id = i THEN [edit[t] EXCEPT !.late = TRUE]
                   ELSE edit[t]]

Counted == edits < MaxEdits /\ edits' = edits + 1

CreateCredential(i, o, w) ==
  /\ Counted
  /\ row[i].at = "none"
  /\ Unique(i, o)
  /\ row' = [row EXCEPT ![i] = Kept(o, w)]
  /\ given' = [given EXCEPT ![i] = w]
  /\ UNCHANGED <<edit, crossed>>

\* Mutant: the payload is sealed for the origin the row has.
SealedForFound(i, o, w) ==
  [origin |-> row[i].origin, password |-> IF w = None THEN row[i].payload.password ELSE w]

\* The payload an update seals; without a password it takes the one it found.
Sealed(i, o, w) ==
  [origin |-> o, password |-> IF w = None THEN row[i].payload.password ELSE w]

\* updateCredential, until the row is saved.  What does not open is an error.
UpdateCredential(s, i, o, w) ==
  /\ Counted
  /\ edit[s].id = None
  /\ Live(i)
  /\ w = None => Opens(row[i].payload, row[i].origin)
  /\ edit' = [edit EXCEPT ![s] =
       [id |-> i, found |-> row[i].origin, origin |-> o, payload |-> Sealed(i, o, w),
        blank |-> w = None, late |-> FALSE]]
  /\ UNCHANGED <<row, given, crossed>>

\* The columns that differ from what was read are written: the payload always
\* does, the origin only when another one was asked for.  A row that is gone
\* stays so; an origin that is taken is refused.
SaveUpdate(s) ==
  LET e == edit[s]
  IN /\ e.id # None
     /\ IF Live(e.id) /\ (e.origin # e.found => Unique(e.id, e.origin))
        THEN /\ row' = [row EXCEPT
                  ![e.id].origin = IF e.origin # e.found THEN e.origin ELSE @,
                  ![e.id].payload = e.payload]
             /\ given' = IF e.blank THEN given
                         ELSE [given EXCEPT ![e.id] = e.payload.password]
             /\ crossed' = IF e.late THEN crossed \cup {e.id} ELSE crossed
             /\ edit' = Overtaken(e.id, s)
        ELSE /\ edit' = [edit EXCEPT ![s] = NoEdit]
             /\ UNCHANGED <<row, given, crossed>>
     /\ UNCHANGED edits

DeleteCredential(i) ==
  /\ Live(i)
  /\ row' = [row EXCEPT ![i] = [NoRow EXCEPT !.at = "gone"]]
  /\ given' = [given EXCEPT ![i] = None]
  /\ crossed' = crossed \ {i}
  /\ UNCHANGED <<edit, edits>>

VaultNext ==
  \/ \E i \in Ids, o \in Origins, w \in Passwords : CreateCredential(i, o, w)
  \/ \E s \in Slots, i \in Ids, o \in Origins, w \in Passwords \cup {None} :
       UpdateCredential(s, i, o, w)
  \/ \E s \in Slots : SaveUpdate(s)
  \/ \E i \in Ids : DeleteCredential(i)

-----------------------------------------------------------------------------
VaultTypeOK ==
  /\ row \in [Ids -> Rows]
  /\ edit \in [Slots -> Edits]
  /\ given \in [Ids -> Passwords \cup {None}]
  /\ crossed \subseteq Ids
  /\ edits \in 0 .. MaxEdits

\* Every saved access opens under its origin and holds the password its owner
\* gave last, whatever else was edited meanwhile, unless two updates of that
\* access crossed each other: then the later save may leave a payload sealed
\* for another origin or bring an older password back.
Intact == \A i \in Ids :
  Live(i) /\ i \notin crossed =>
    /\ Opens(row[i].payload, row[i].origin)
    /\ row[i].payload.password = given[i]

\* What Intact rests on, with the types: an update nobody overtook saw the row as it is.
Fresh(e) ==
  /\ e.id \in Ids
  /\ row[e.id].at # "none"
  /\ e.payload.origin = e.origin
  /\ e.payload.password \in Passwords
  /\ ~e.late /\ Live(e.id) =>
       /\ e.found = row[e.id].origin
       /\ e.blank /\ e.id \notin crossed => e.payload.password = given[e.id]

FreshEdits == \A s \in Slots : edit[s].id # None => Fresh(edit[s])
Distinct == \A i, j \in Ids : Live(i) /\ Live(j) /\ i # j => row[i].origin # row[j].origin
Sound == \A i \in Ids : Live(i) => row[i].origin \in Origins /\ row[i].payload \in Payload

VaultInv == VaultTypeOK /\ Intact /\ Sound /\ FreshEdits /\ Distinct
=============================================================================
