----------------------- MODULE BrowserRegistryProofs -----------------------
(***************************************************************************)
(* BrowserRegistry for every set of accounts, browsers, names and          *)
(* handlers and every limit: no runtime without a place, no name twice, no *)
(* default of somebody else, no row without its account.                   *)
(***************************************************************************)
EXTENDS BrowserRegistry, FiniteSetTheorems, TLAPS

LEMMA AnyNameOK == AnyName \in Names
BY RegistryAssumption, Zenon DEF AnyName

LEMMA IdleOK == \A r \in Request : r # Idle /\ r.op \in Operations
BY DEF Request, Idle, Operations

LEMMA RangeAppend ==
  ASSUME born \in Seq(Browsers), NEW b \in Browsers
  PROVE  Append(born, b) \in Seq(Browsers) /\ Range(Append(born, b)) = Range(born) \cup {b}
<1>1. Append(born, b) \in Seq(Browsers)
  OBVIOUS
<1>2. DOMAIN Append(born, b) = DOMAIN born \cup {Len(born) + 1}
  OBVIOUS
<1>3. \A i \in DOMAIN born : Append(born, b)[i] = born[i]
  OBVIOUS
<1>4. Append(born, b)[Len(born) + 1] = b
  OBVIOUS
<1>5. QED
  BY <1>1, <1>2, <1>3, <1>4 DEF Range

-----------------------------------------------------------------------------
(* Types.                                                                  *)

LEMMA InitTypeOK == Init => TypeOK
<1> SUFFICES ASSUME Init PROVE TypeOK
  OBVIOUS
<1>1. born \in Seq(Browsers) /\ Rows = {} /\ row \in [Rows -> Row]
  BY DEF Init, Rows
<1>2. QED
  BY <1>1, RegistryAssumption DEF Init, TypeOK

\* A handler that moves on stays a request or becomes idle.
LEMMA HandlerMoves ==
  ASSUME TypeOK, NEW h \in Handlers, NEW r \in Request \cup {Idle},
         handler' = [handler EXCEPT ![h] = r]
  PROVE  handler' \in [Handlers -> Request \cup {Idle}]
BY DEF TypeOK

LEMMA ServedRequest ==
  ASSUME TypeOK, NEW h \in Handlers, handler[h] # Idle
  PROVE  handler[h] \in Request
BY DEF TypeOK

LEMMA LoadAuthType ==
  ASSUME TypeOK, NEW h \in Handlers, NEW u \in Users, NEW b \in Browsers, NEW n \in Names,
         NEW op \in Operations, LoadAuth(h, op, u, b, n)
  PROVE  TypeOK'
<1>1. default[u] \in Browsers \cup {None} /\ requests' \in 0 .. MaxRequests
  BY RegistryAssumption DEF LoadAuth, TypeOK
<1>2. [op |-> op, pc |-> "auth", user |-> u, browser |-> b, name |-> n,
       read |-> default[u]] \in Request
  BY <1>1 DEF Request
<1>3. handler' \in [Handlers -> Request \cup {Idle}]
  BY <1>2, HandlerMoves DEF LoadAuth
<1>4. QED
  BY <1>1, <1>3 DEF LoadAuth, TypeOK, Rows

LEMMA SelectType ==
  ASSUME TypeOK, NEW h \in Handlers, NEW u \in Users, NEW s, SelectBrowser(h, u, s)
  PROVE  TypeOK'
<1>1. Resolve(u, s) \in Browsers /\ requests' \in 0 .. MaxRequests
  BY RegistryAssumption DEF SelectBrowser, TypeOK, Live, Owned, Range
<1>2. [op |-> "default", pc |-> "selected", user |-> u, browser |-> Resolve(u, s),
       name |-> AnyName, read |-> None] \in Request
  BY <1>1, AnyNameOK DEF Request, Operations
<1>3. handler' \in [Handlers -> Request \cup {Idle}]
  BY <1>2, HandlerMoves DEF SelectBrowser
<1>4. QED
  BY <1>1, <1>3 DEF SelectBrowser, TypeOK, Rows

LEMMA ReserveType ==
  ASSUME TypeOK, NEW u \in Users, NEW b \in Browsers, NEW n \in Names, ReserveBrowser(u, b, n)
  PROVE  TypeOK'
<1>1. born' \in Seq(Browsers) /\ Range(born') = Range(born) \cup {b}
  BY RangeAppend DEF ReserveBrowser, TypeOK
<1>2. row' \in [Rows \cup {b} -> Row] /\ Rows' = Rows \cup {b}
  BY DEF ReserveBrowser, TypeOK, Rows, Row
<1>3. default' \in [Users -> Browsers \cup {None}] /\ requests' \in 0 .. MaxRequests
  BY RegistryAssumption DEF ReserveBrowser, TypeOK
<1>4. QED
  BY <1>1, <1>2, <1>3 DEF ReserveBrowser, TypeOK

\* The saves of a handler to the row of its browser.
LEMMA RowSaved ==
  ASSUME TypeOK, NEW b \in Rows, NEW r \in Row, Update(b, r)
  PROVE  row' \in [Rows -> Row] /\ Rows' = Rows
BY DEF TypeOK, Update, Rows

LEMMA DefaultSaved ==
  ASSUME TypeOK, NEW r \in Request, NEW b \in Browsers \cup {None}, SaveDefault(r, b)
  PROVE  default' \in [Users -> Browsers \cup {None}]
BY DEF TypeOK, SaveDefault, Rows

LEMMA OperationType ==
  ASSUME TypeOK, NEW h \in Handlers, Operation(h) \/ HandlerFails(h)
  PROVE  TypeOK'
<1> DEFINE r == handler[h]
           b == r.browser
<1>1. CASE ReadBrowser(h)
  <2>1. r \in Request
    BY <1>1, ServedRequest DEF ReadBrowser
  <2>2. [r EXCEPT !.pc = "save"] \in Request
    BY <2>1 DEF Request
  <2>3. handler' \in [Handlers -> Request \cup {Idle}]
    BY <1>1, <2>2, HandlerMoves DEF ReadBrowser
  <2>4. QED
    BY <1>1, <2>3 DEF ReadBrowser, TypeOK, Rows
<1>2. CASE ReadAccount(h)
  <2>1. r \in Request
    BY <1>2, ServedRequest DEF ReadAccount
  <2>2. [r EXCEPT !.pc = "save", !.read = default[r.user]] \in Request
    BY <2>1 DEF Request, TypeOK
  <2>3. handler' \in [Handlers -> Request \cup {Idle}]
    BY <1>2, <2>2, HandlerMoves DEF ReadAccount
  <2>4. QED
    BY <1>2, <2>3 DEF ReadAccount, TypeOK, Rows
<1>3. CASE RenameBrowser(h)
  <2>1. r \in Request
    BY <1>3, ServedRequest DEF RenameBrowser, At
  <2>2. row' \in [Rows -> Row] /\ Rows' = Rows
    <3>1. CASE b \in Rows
      <4>1. [row[b] EXCEPT !.name = r.name] \in Row
        BY <2>1, <3>1 DEF TypeOK, Row, Request
      <4>2. QED
        BY <1>3, <3>1, <4>1, RowSaved DEF RenameBrowser
    <3>2. CASE b \notin Rows
      BY <1>3, <3>2 DEF RenameBrowser, TypeOK, Rows
    <3>3. QED
      BY <3>1, <3>2
  <2>3. handler' \in [Handlers -> Request \cup {Idle}]
    BY <1>3, HandlerMoves DEF RenameBrowser, Answer
  <2>4. QED
    BY <1>3, <2>2, <2>3 DEF RenameBrowser, TypeOK
<1>4. CASE PowerBrowser(h)
  <2>2. row' \in [Rows -> Row] /\ Rows' = Rows
    <3>1. CASE b \in Rows
      <4>1. [row[b] EXCEPT !.deleting = FALSE] \in Row
        BY <3>1 DEF TypeOK, Row
      <4>2. QED
        BY <1>4, <3>1, <4>1, RowSaved DEF PowerBrowser
    <3>2. CASE b \notin Rows
      BY <1>4, <3>2 DEF PowerBrowser, TypeOK, Rows
    <3>3. QED
      BY <3>1, <3>2
  <2>3. handler' \in [Handlers -> Request \cup {Idle}]
    BY <1>4, HandlerMoves DEF PowerBrowser, Answer
  <2>4. QED
    BY <1>4, <2>2, <2>3 DEF PowerBrowser, TypeOK
<1>5. CASE SetDefaultBrowser(h)
  <2>1. r \in Request /\ b \in Browsers
    BY <1>5, ServedRequest DEF SetDefaultBrowser, At, Request
  <2>2. default' \in [Users -> Browsers \cup {None}]
    BY <1>5, <2>1, DefaultSaved DEF SetDefaultBrowser
  <2>3. handler' \in [Handlers -> Request \cup {Idle}]
    BY <1>5, HandlerMoves DEF SetDefaultBrowser, Answer
  <2>4. QED
    BY <1>5, <2>2, <2>3 DEF SetDefaultBrowser, TypeOK, Rows
<1>6. CASE DeleteBrowser(h)
  <2>1. r \in Request
    BY <1>6, ServedRequest DEF DeleteBrowser, At
  <2>2. row' \in [Rows -> Row] /\ Rows' = Rows
    BY <1>6 DEF DeleteBrowser, TypeOK, Rows, Row
  <2>3. [r EXCEPT !.pc = "clear"] \in Request
    BY <2>1 DEF Request
  <2>4. handler' \in [Handlers -> Request \cup {Idle}]
    BY <1>6, <2>3, HandlerMoves DEF DeleteBrowser
  <2>5. QED
    BY <1>6, <2>2, <2>4 DEF DeleteBrowser, TypeOK
<1>7. CASE ClearDefault(h)
  <2>1. r \in Request
    BY <1>7, ServedRequest DEF ClearDefault
  <2>2. default' \in [Users -> Browsers \cup {None}]
    BY <1>7, <2>1, DefaultSaved DEF ClearDefault
  <2>3. handler' \in [Handlers -> Request \cup {Idle}]
    BY <1>7, HandlerMoves DEF ClearDefault, Answer
  <2>4. QED
    BY <1>7, <2>2, <2>3 DEF ClearDefault, TypeOK, Rows
<1>8. CASE HandlerFails(h)
  <2>1. handler' \in [Handlers -> Request \cup {Idle}]
    BY <1>8, HandlerMoves DEF HandlerFails, Answer
  <2>2. QED
    BY <1>8, <2>1 DEF HandlerFails, TypeOK, Rows
<1>9. QED
  BY <1>1, <1>2, <1>3, <1>4, <1>5, <1>6, <1>7, <1>8 DEF Operation

LEMMA AgentType ==
  ASSUME TypeOK, Agent \/ \E u \in Users : RemoveAccount(u)
  PROVE  TypeOK'
<1>1. CASE Poll
  BY <1>1 DEF Poll, TypeOK, Rows, Range
<1>2. ASSUME NEW b \in Browsers, EnsureRuntime(b) \/ EnsureDeleted(b)
      PROVE  TypeOK'
  BY <1>2 DEF EnsureRuntime, EnsureDeleted, TypeOK, Rows
<1>3. CASE ConfirmBrowserDeletion
  BY <1>3 DEF ConfirmBrowserDeletion, TypeOK, Rows
<1>4. CASE ConfirmationLost
  BY <1>4 DEF ConfirmationLost, TypeOK, Rows
<1>5. ASSUME NEW u \in Users, RemoveAccount(u)
      PROVE  TypeOK'
  BY <1>5 DEF RemoveAccount, TypeOK, Rows
<1>6. QED
  BY <1>1, <1>2, <1>3, <1>4, <1>5 DEF Agent

LEMMA TypeStep == TypeOK /\ [Next]_vars => TypeOK'
<1> SUFFICES ASSUME TypeOK, [Next]_vars PROVE TypeOK'
  OBVIOUS
<1>1. CASE UNCHANGED vars
  BY <1>1 DEF vars, TypeOK, Rows
<1>2. CASE \E u \in Users, b \in Browsers, n \in Names : ReserveBrowser(u, b, n)
  BY <1>2, ReserveType
<1>3. CASE \E h \in Handlers, op \in Operations, u \in Users, b \in Browsers, n \in Names :
             LoadAuth(h, op, u, b, n)
  BY <1>3, LoadAuthType
<1>4. CASE \E h \in Handlers, u \in Users, s \in Browsers \cup Names : SelectBrowser(h, u, s)
  BY <1>4, SelectType
<1>5. CASE \E h \in Handlers : Operation(h) \/ HandlerFails(h)
  BY <1>5, OperationType
<1>6. CASE Agent \/ \E u \in Users : RemoveAccount(u)
  BY <1>6, AgentType
<1>7. QED
  BY <1>1, <1>2, <1>3, <1>4, <1>5, <1>6 DEF Next

-----------------------------------------------------------------------------
(* What the rows are.                                                      *)

\* The parts of the invariant that rows, accounts and defaults decide.
Limits ==
  /\ Cardinality(Rows) <= MaxTotal
  /\ \A u \in Users : Cardinality(Owned(u)) <= MaxPerUser

RowsInv == Limits /\ NamesDistinct /\ DefaultOwned /\ RowsHaveAccounts

LEMMA RowsKept ==
  ASSUME RowsInv, UNCHANGED <<accounts, default, row>>
  PROVE  RowsInv'
BY DEF RowsInv, Limits, NamesDistinct, DefaultOwned, RowsHaveAccounts, Live, Owned, Rows

\* A row saved again keeps its place, its owner and, by the index, its name.
LEMMA RowsSaved ==
  ASSUME TypeOK, RowsInv, NEW b \in Rows, NEW r \in Row, r.owner = row[b].owner,
         row' = [row EXCEPT ![b] = r], Unique(b, r), UNCHANGED <<accounts, default>>
  PROVE  RowsInv'
<1>1. Rows' = Rows /\ \A c \in Rows : row'[c].owner = row[c].owner
  BY DEF TypeOK, Rows
<1>2. \A u \in Users : Owned(u)' = Owned(u)
  BY <1>1 DEF Owned
<1>3. Limits'
  BY <1>1, <1>2 DEF RowsInv, Limits
<1>4. NamesDistinct'
  <2> SUFFICES ASSUME NEW u \in Users, NEW c \in Live(u)', NEW d \in Live(u)',
                      row'[c].name = row'[d].name, c # d
               PROVE  FALSE
    BY DEF NamesDistinct
  <2>1. c \in Owned(u) /\ d \in Owned(u) /\ ~row'[c].deleting /\ ~row'[d].deleting
    BY <1>2 DEF Live
  <2>2. CASE c # b /\ d # b
    <3>1. c \in Live(u) /\ d \in Live(u) /\ row[c].name = row[d].name
      BY <2>1, <2>2, <1>1 DEF Live, Owned, Rows, TypeOK
    <3>2. QED
      BY <3>1 DEF RowsInv, NamesDistinct
  <2>3. CASE c = b
    BY <2>1, <2>3, <1>1 DEF Unique, Clash, Owned, Rows, TypeOK
  <2>4. CASE d = b
    BY <2>1, <2>4, <1>1 DEF Unique, Clash, Owned, Rows, TypeOK
  <2>5. QED
    BY <2>2, <2>3, <2>4
<1>5. DefaultOwned' /\ RowsHaveAccounts'
  BY <1>1, <1>2 DEF RowsInv, DefaultOwned, RowsHaveAccounts
<1>6. QED
  BY <1>3, <1>4, <1>5 DEF RowsInv

LEMMA RowsUpdated ==
  ASSUME TypeOK, RowsInv, NEW b \in Rows, NEW r \in Row, r.owner = row[b].owner,
         Update(b, r), UNCHANGED <<accounts, default>>
  PROVE  RowsInv'
<1>1. CASE Unique(b, r)
  BY <1>1, RowsSaved DEF Update
<1>2. CASE ~Unique(b, r)
  BY <1>2, RowsKept DEF Update
<1>3. QED
  BY <1>1, <1>2

\* A default saved late is the request's own browser, or none.
LEMMA DefaultsSaved ==
  ASSUME TypeOK, RowsInv, NEW r \in Request, NEW b \in Browsers \cup {None},
         b \in Rows => row[b].owner = r.user, SaveDefault(r, b),
         UNCHANGED <<accounts, row>>
  PROVE  RowsInv'
<1>1. Rows' = Rows /\ \A u \in Users : Owned(u)' = Owned(u) /\ Live(u)' = Live(u)
  BY DEF Rows, Owned, Live
<1>2. DefaultOwned'
  BY <1>1, RegistryAssumption DEF RowsInv, DefaultOwned, SaveDefault, TypeOK, Request, Owned
<1>3. QED
  BY <1>1, <1>2 DEF RowsInv, Limits, NamesDistinct, RowsHaveAccounts

\* A place is taken only where there was room.
LEMMA RowReserved ==
  ASSUME TypeOK, RowsInv, NEW u \in Users, NEW b \in Browsers, NEW n \in Names,
         ReserveBrowser(u, b, n)
  PROVE  RowsInv'
<1> DEFINE r == [owner |-> u, name |-> n, deleting |-> FALSE]
<1>1. /\ b \notin Rows /\ Rows' = Rows \cup {b} /\ row'[b] = r
      /\ \A c \in Rows : row'[c] = row[c]
  BY DEF ReserveBrowser, TypeOK, Rows
<1>2. Owned(u)' = Owned(u) \cup {b} /\ \A v \in Users \ {u} : Owned(v)' = Owned(v)
  BY <1>1 DEF Owned
<1>3. IsFiniteSet(Rows) /\ IsFiniteSet(Owned(u))
  <2>1. Rows \subseteq Browsers /\ Owned(u) \subseteq Rows
    BY DEF TypeOK, Range, Owned
  <2>2. QED
    BY <2>1, RegistryAssumption, FS_Subset
<1>4. /\ Cardinality(Rows') <= Cardinality(Rows) + 1
      /\ Cardinality(Owned(u)') <= Cardinality(Owned(u)) + 1
  <2>1. Cardinality(Rows) \in Nat /\ Cardinality(Owned(u)) \in Nat
    BY <1>3, FS_CardinalityType
  <2>2. ASSUME NEW S, IsFiniteSet(S), Cardinality(S) \in Nat
        PROVE  Cardinality(S \cup {b}) <= Cardinality(S) + 1
    <3>1. Cardinality(S \cup {b}) = IF b \in S THEN Cardinality(S) ELSE Cardinality(S) + 1
      BY <2>2, FS_AddElement
    <3>2. QED
      BY <2>2, <3>1
  <2>3. /\ Cardinality(Rows \cup {b}) <= Cardinality(Rows) + 1
        /\ Cardinality(Owned(u) \cup {b}) <= Cardinality(Owned(u)) + 1
    BY <1>3, <2>1, <2>2
  <2>4. QED
    BY <1>1, <1>2, <2>3
<1>5. Limits'
  <2>1. Cardinality(Rows) \in Nat /\ Cardinality(Owned(u)) \in Nat
    BY <1>3, FS_CardinalityType
  <2>2. Cardinality(Rows') \in Nat /\ Cardinality(Owned(u)') \in Nat
    BY <1>1, <1>2, <1>3, FS_AddElement, FS_CardinalityType
  <2>3. Cardinality(Rows) < MaxTotal /\ Cardinality(Owned(u)) < MaxPerUser
    BY DEF ReserveBrowser, HasRoom
  <2>4. Cardinality(Rows') <= MaxTotal /\ Cardinality(Owned(u)') <= MaxPerUser
    BY <1>4, <2>1, <2>2, <2>3, RegistryAssumption
  <2>5. QED
    BY <1>2, <2>4 DEF RowsInv, Limits
<1>6. NamesDistinct'
  <2> SUFFICES ASSUME NEW v \in Users, NEW c \in Live(v)', NEW d \in Live(v)',
                      row'[c].name = row'[d].name, c # d
               PROVE  FALSE
    BY DEF NamesDistinct
  <2>1. c \in Rows' /\ d \in Rows' /\ row'[c].owner = v /\ row'[d].owner = v
        /\ ~row'[c].deleting /\ ~row'[d].deleting
    BY DEF Live, Owned
  <2>2. Unique(b, r)
    BY DEF ReserveBrowser
  <2>3. CASE c # b /\ d # b
    BY <1>1, <2>1, <2>3 DEF RowsInv, NamesDistinct, Live, Owned
  <2>4. CASE c = b
    BY <1>1, <2>1, <2>2, <2>4 DEF Unique, Clash
  <2>5. CASE d = b
    BY <1>1, <2>1, <2>2, <2>5 DEF Unique, Clash
  <2>6. QED
    BY <2>3, <2>4, <2>5
<1>7. DefaultOwned'
  BY <1>2 DEF RowsInv, DefaultOwned, ReserveBrowser, TypeOK
<1>8. RowsHaveAccounts'
  BY <1>1 DEF RowsInv, RowsHaveAccounts, ReserveBrowser
<1>9. QED
  BY <1>5, <1>6, <1>7, <1>8 DEF RowsInv

\* Rows that go take the defaults that name them along.
LEMMA RowsGone ==
  ASSUME TypeOK, RowsInv, NEW S \in SUBSET Rows, row' = [c \in S |-> row[c]],
         \A u \in Users : default'[u] = None \/ (default'[u] = default[u] /\ default[u] \in S),
         \A c \in S : row[c].owner \in accounts'
  PROVE  RowsInv'
<1>1. Rows' = S /\ \A c \in S : row'[c] = row[c]
  BY DEF Rows
<1>2. \A u \in Users : Owned(u)' = Owned(u) \cap S /\ Live(u)' = Live(u) \cap S
  BY <1>1 DEF Owned, Live
<1>3. Limits'
  <2>1. IsFiniteSet(Rows) /\ \A u \in Users : IsFiniteSet(Owned(u))
    <3>1. Rows \subseteq Browsers /\ \A u \in Users : Owned(u) \subseteq Rows
      BY DEF TypeOK, Range, Owned
    <3>2. IsFiniteSet(Rows)
      BY <3>1, RegistryAssumption, FS_Subset
    <3>3. QED
      BY <3>1, <3>2, FS_Subset
  <2>2. /\ Cardinality(S) <= Cardinality(Rows)
        /\ Cardinality(S) \in Nat /\ Cardinality(Rows) \in Nat
    BY <2>1, FS_Subset, FS_CardinalityType
  <2>3. ASSUME NEW u \in Users
        PROVE  Cardinality(Owned(u)') <= MaxPerUser
    <3>1. Owned(u)' \in SUBSET Owned(u)
      BY <1>2
    <3>2. /\ Cardinality(Owned(u)') <= Cardinality(Owned(u))
          /\ Cardinality(Owned(u)') \in Nat /\ Cardinality(Owned(u)) \in Nat
      BY <2>1, <3>1, FS_Subset, FS_CardinalityType
    <3>3. QED
      BY <3>2, RegistryAssumption DEF RowsInv, Limits
  <2>4. Cardinality(Rows') <= MaxTotal
    BY <1>1, <2>2, RegistryAssumption DEF RowsInv, Limits
  <2>5. QED
    BY <2>3, <2>4 DEF Limits
<1>4. NamesDistinct'
  BY <1>1, <1>2 DEF RowsInv, NamesDistinct, Live, Owned
<1>5. DefaultOwned' /\ RowsHaveAccounts'
  BY <1>1, <1>2 DEF RowsInv, DefaultOwned, RowsHaveAccounts
<1>6. QED
  BY <1>3, <1>4, <1>5 DEF RowsInv

-----------------------------------------------------------------------------
(* What a request relies on, and the whole invariant.                      *)

\* Nothing but the handlers' own steps matters to a request, as long as no row
\* changes its owner and no id is used again.
LEMMA RequestsKept ==
  ASSUME TypeOK, RequestsOwn, Range(born) \subseteq Range(born'), UNCHANGED handler,
         \A c \in Rows' : (c \in Rows /\ row'[c].owner = row[c].owner) \/ c \notin Range(born)
  PROVE  RequestsOwn'
BY DEF RequestsOwn, TypeOK, Request

LEMMA RequestMoves ==
  ASSUME TypeOK, RequestsOwn, NEW h \in Handlers, NEW r \in Request \cup {Idle},
         handler' = [handler EXCEPT ![h] = r], UNCHANGED born,
         \A c \in Rows' : c \in Rows /\ row'[c].owner = row[c].owner,
         r # Idle => /\ r.browser \in Range(born)
                     /\ r.pc # "auth" /\ r.browser \in Rows => row[r.browser].owner = r.user
  PROVE  RequestsOwn'
BY DEF RequestsOwn, TypeOK, Request

LEMMA InitInv == Init => IInv
<1> SUFFICES ASSUME Init PROVE IInv
  OBVIOUS
<1>1. TypeOK
  BY InitTypeOK
<1>2. Rows = {} /\ \A u \in Users : Owned(u) = {} /\ Live(u) = {}
  BY DEF Init, Rows, Owned, Live
<1>3. Capacity
  <2>1. Cardinality({}) = 0
    BY FS_EmptySet
  <2>2. Cardinality(Rows) <= MaxTotal
    BY <1>2, <2>1, RegistryAssumption
  <2>3. ASSUME NEW u \in Users PROVE Cardinality(Owned(u)) <= MaxPerUser
    <3>1. Owned(u) = {}
      BY <1>2
    <3>2. QED
      BY <2>1, <3>1, RegistryAssumption
  <2>4. QED
    BY <2>2, <2>3 DEF Init, Capacity
<1>4. NamesDistinct /\ DefaultOwned /\ RowsHaveAccounts /\ RequestsOwn /\ RuntimeFree
  BY <1>2 DEF Init, NamesDistinct, DefaultOwned, RowsHaveAccounts, RequestsOwn, RuntimeFree
<1>5. QED
  BY <1>1, <1>3, <1>4 DEF IInv

\* The invariant in the form its parts are kept in.
LEMMA Parts ==
  IInv <=> TypeOK /\ RowsInv /\ RequestsOwn /\ RuntimeFree /\ runtimes \subseteq Rows
BY DEF IInv, Capacity, RowsInv, Limits

LEMMA Parts1 ==
  IInv' <=> TypeOK' /\ RowsInv' /\ RequestsOwn' /\ RuntimeFree' /\ runtimes' \subseteq Rows'
BY DEF IInv, Capacity, RowsInv, Limits

\* Steps that touch neither rows nor defaults nor the agent.
LEMMA HandlerOnly ==
  ASSUME IInv, TypeOK', UNCHANGED <<accounts, default, born, row, runtimes, confirming>>,
         RequestsOwn'
  PROVE  IInv'
<1>1. RowsInv'
  BY RowsKept, Parts
<1>2. QED
  BY <1>1, Parts, Parts1 DEF RuntimeFree, Rows

LEMMA ReserveInv ==
  ASSUME IInv, TypeOK', NEW u \in Users, NEW b \in Browsers, NEW n \in Names,
         ReserveBrowser(u, b, n)
  PROVE  IInv'
<1>1. RowsInv'
  BY RowReserved, Parts
<1>2. Range(born') = Range(born) \cup {b} /\ b \notin Range(born)
  BY RangeAppend, Parts DEF ReserveBrowser, TypeOK
<1>3. Rows' = Rows \cup {b} /\ \A c \in Rows : c # b /\ row'[c] = row[c]
  BY <1>2, Parts DEF ReserveBrowser, Rows, TypeOK
<1>4. RequestsOwn'
  BY <1>2, <1>3, RequestsKept, Parts DEF ReserveBrowser
<1>5. QED
  BY <1>1, <1>3, <1>4, Parts, Parts1 DEF ReserveBrowser, RuntimeFree

LEMMA LoadAuthInv ==
  ASSUME IInv, TypeOK', NEW h \in Handlers, NEW u \in Users, NEW b \in Browsers,
         NEW n \in Names, NEW op \in Operations, LoadAuth(h, op, u, b, n)
  PROVE  IInv'
<1> DEFINE r == [op |-> op, pc |-> "auth", user |-> u, browser |-> b, name |-> n,
                 read |-> default[u]]
<1>1. r \in Request
  BY Parts DEF Request, TypeOK
<1>2. RequestsOwn'
  BY <1>1, RequestMoves, Parts DEF LoadAuth, Rows
<1>3. QED
  BY <1>2, HandlerOnly DEF LoadAuth

LEMMA SelectInv ==
  ASSUME IInv, TypeOK', NEW h \in Handlers, NEW u \in Users, NEW s, SelectBrowser(h, u, s)
  PROVE  IInv'
<1> DEFINE b == Resolve(u, s)
           r == [op |-> "default", pc |-> "selected", user |-> u, browser |-> b,
                 name |-> AnyName, read |-> None]
<1>1. b \in Rows /\ row[b].owner = u
  BY DEF SelectBrowser, Live, Owned
<1>2. r \in Request /\ b \in Range(born)
  BY <1>1, AnyNameOK, Parts DEF Request, Operations, TypeOK, Range
<1>3. handler' = [handler EXCEPT ![h] = r] /\ UNCHANGED <<born, row>>
  BY DEF SelectBrowser
<1>4. RequestsOwn'
  BY <1>1, <1>2, <1>3, RequestMoves, Parts DEF Rows
<1>5. QED
  BY <1>4, HandlerOnly DEF SelectBrowser

-----------------------------------------------------------------------------
(* The handlers' own steps.                                                *)

LEMMA ServedOwn ==
  ASSUME IInv, NEW h \in Handlers, handler[h] # Idle
  PROVE  /\ handler[h] \in Request
         /\ handler[h].browser \in Range(born)
         /\ handler[h].pc # "auth" /\ handler[h].browser \in Rows
              => row[handler[h].browser].owner = handler[h].user
BY ServedRequest, Parts DEF RequestsOwn

\* A handler that is done leaves the others what they rely on.
LEMMA AnswerOwn ==
  ASSUME IInv, NEW h \in Handlers, Answer(h), UNCHANGED born,
         \A c \in Rows' : c \in Rows /\ row'[c].owner = row[c].owner
  PROVE  RequestsOwn'
BY RequestMoves, Parts DEF Answer

\* A handler that saves a row, the owner staying what it was.
LEMMA RowStep ==
  ASSUME IInv, TypeOK', NEW b \in Browsers, NEW q \in Row,
         IF b \in Rows THEN q.owner = row[b].owner /\ Update(b, q) ELSE UNCHANGED row,
         Rows' = Rows /\ (\A c \in Rows : row'[c].owner = row[c].owner) => RequestsOwn',
         UNCHANGED <<accounts, default, born, runtimes, confirming>>
  PROVE  IInv'
<1>1. RowsInv'
  BY RowsUpdated, RowsKept, Parts
<1>2. Rows' = Rows /\ \A c \in Rows : row'[c].owner = row[c].owner
  BY Parts DEF Update, Rows, TypeOK
<1>3. QED
  BY <1>1, <1>2, Parts, Parts1 DEF RuntimeFree

LEMMA OperationInv ==
  ASSUME IInv, TypeOK', NEW h \in Handlers, Operation(h) \/ HandlerFails(h)
  PROVE  IInv'
<1> DEFINE r == handler[h]
           b == r.browser
<1>1. CASE ReadBrowser(h)
  <2>1. r # Idle /\ r \in Request /\ b \in Range(born)
    BY <1>1, ServedOwn DEF ReadBrowser
  <2>2. CASE OwnedBrowser(r.user, b)
    <3>1. [r EXCEPT !.pc = "save"] \in Request
      BY <2>1 DEF Request
    <3>2. row[b].owner = r.user
      BY <2>2 DEF OwnedBrowser, Live, Owned
    <3>3. RequestsOwn'
      BY <1>1, <2>1, <2>2, <3>1, <3>2, RequestMoves, Parts DEF ReadBrowser, Rows, Request
    <3>4. QED
      BY <1>1, <3>3, HandlerOnly DEF ReadBrowser
  <2>3. CASE ~OwnedBrowser(r.user, b)
    BY <1>1, <2>3, AnswerOwn, HandlerOnly DEF ReadBrowser, Answer, Rows
  <2>4. QED
    BY <2>2, <2>3
<1>2. CASE ReadAccount(h)
  <2>1. r # Idle /\ r \in Request /\ b \in Range(born) /\ r.pc = "selected"
    BY <1>2, ServedOwn DEF ReadAccount
  <2>2. CASE r.user \in accounts
    <3>1. [r EXCEPT !.pc = "save", !.read = default[r.user]] \in Request
      BY <2>1, Parts DEF Request, TypeOK
    <3>2. RequestsOwn'
      BY <1>2, <2>1, <2>2, <3>1, ServedOwn, RequestMoves, Parts DEF ReadAccount, Rows, Request
    <3>3. QED
      BY <1>2, <3>2, HandlerOnly DEF ReadAccount
  <2>3. CASE r.user \notin accounts
    BY <1>2, <2>3, AnswerOwn, HandlerOnly DEF ReadAccount, Answer, Rows
  <2>4. QED
    BY <2>2, <2>3
<1>3. CASE RenameBrowser(h)
  <2>1. r # Idle /\ r \in Request /\ b \in Browsers
    BY <1>3, ServedOwn DEF RenameBrowser, At, Request
  <2>2. PICK q \in Row : b \in Rows => q = [row[b] EXCEPT !.name = r.name]
    <3>1. CASE b \in Rows
      <4>1. r.name \in Names /\ row[b] \in Row
        BY <2>1, <3>1, Parts DEF TypeOK, Request
      <4>2. [row[b] EXCEPT !.name = r.name] \in Row
        BY <4>1 DEF Row
      <4>3. QED
        BY <4>2
    <3>2. CASE b \notin Rows
      <4>1. [owner |-> r.user, name |-> r.name, deleting |-> TRUE] \in Row
        BY <2>1 DEF Row, Request
      <4>2. QED
        BY <3>2, <4>1
    <3>3. QED
      BY <3>1, <3>2
  <2>3. b \in Rows => q.owner = row[b].owner
    BY <2>2, Parts DEF TypeOK, Row
  <2>4. Rows' = Rows /\ (\A c \in Rows : row'[c].owner = row[c].owner) => RequestsOwn'
    BY <1>3, AnswerOwn DEF RenameBrowser
  <2>5. QED
    BY <1>3, <2>1, <2>2, <2>3, <2>4, RowStep DEF RenameBrowser
<1>4. CASE PowerBrowser(h)
  <2>1. r # Idle /\ r \in Request /\ b \in Browsers
    BY <1>4, ServedOwn DEF PowerBrowser, At, Request
  <2>2. PICK q \in Row : b \in Rows => q = [row[b] EXCEPT !.deleting = FALSE]
    <3>1. CASE b \in Rows
      BY <3>1, Parts DEF TypeOK, Row
    <3>2. CASE b \notin Rows
      <4>1. [owner |-> r.user, name |-> r.name, deleting |-> TRUE] \in Row
        BY <2>1 DEF Row, Request
      <4>2. QED
        BY <3>2, <4>1
    <3>3. QED
      BY <3>1, <3>2
  <2>3. b \in Rows => q.owner = row[b].owner
    BY <2>2, Parts DEF TypeOK, Row
  <2>4. Rows' = Rows /\ (\A c \in Rows : row'[c].owner = row[c].owner) => RequestsOwn'
    BY <1>4, AnswerOwn DEF PowerBrowser
  <2>5. QED
    BY <1>4, <2>1, <2>2, <2>3, <2>4, RowStep DEF PowerBrowser
<1>5. CASE DeleteBrowser(h)
  <2>1. /\ r # Idle /\ r \in Request /\ b \in Browsers /\ r.pc = "save"
        /\ b \in Range(born) /\ (b \in Rows => row[b].owner = r.user)
    BY <1>5, ServedOwn DEF DeleteBrowser, At, Request
  <2>2. PICK q \in Row : q.deleting /\ (b \in Rows => q = [row[b] EXCEPT !.deleting = TRUE])
    <3>1. CASE b \in Rows
      BY <3>1, Parts DEF TypeOK, Row
    <3>2. CASE b \notin Rows
      <4>1. [owner |-> r.user, name |-> r.name, deleting |-> TRUE] \in Row
        BY <2>1 DEF Row, Request
      <4>2. QED
        BY <3>2, <4>1
    <3>3. QED
      BY <3>1, <3>2
  <2>3. b \in Rows => q.owner = row[b].owner /\ Update(b, q)
    BY <1>5, <2>2, Parts DEF TypeOK, Row, DeleteBrowser, Update, Unique
  <2>4. ASSUME Rows' = Rows, \A c \in Rows : row'[c].owner = row[c].owner
        PROVE  RequestsOwn'
    <3>1. [r EXCEPT !.pc = "clear"] \in Request
      BY <2>1 DEF Request
    <3>2. CASE r.read = b
      BY <1>5, <2>1, <2>4, <3>1, <3>2, RequestMoves, Parts DEF DeleteBrowser, Request
    <3>3. CASE r.read # b
      BY <1>5, <2>4, <3>3, AnswerOwn DEF DeleteBrowser, Answer
    <3>4. QED
      BY <3>2, <3>3
  <2>5. QED
    BY <1>5, <2>1, <2>2, <2>3, <2>4, RowStep DEF DeleteBrowser
<1>6. ASSUME NEW d \in Browsers \cup {None}, r # Idle, SaveDefault(r, d),
             d \in Rows => row[d].owner = r.user, Answer(h),
             UNCHANGED <<accounts, born, row, runtimes, confirming>>
      PROVE  IInv'
  <2>1. RowsInv'
    BY <1>6, ServedOwn, DefaultsSaved, Parts
  <2>2. RequestsOwn'
    BY <1>6, AnswerOwn DEF Rows
  <2>3. QED
    BY <1>6, <2>1, <2>2, Parts, Parts1 DEF RuntimeFree, Rows
<1>7. CASE SetDefaultBrowser(h)
  <2>1. r # Idle /\ b \in Browsers /\ (b \in Rows => row[b].owner = r.user)
    BY <1>7, ServedOwn DEF SetDefaultBrowser, At, Request
  <2>2. QED
    BY <1>7, <2>1, <1>6 DEF SetDefaultBrowser
<1>8. CASE ClearDefault(h)
  <2>1. None \notin Rows
    BY RegistryAssumption, Parts DEF TypeOK, Range
  <2>2. QED
    BY <1>8, <2>1, <1>6 DEF ClearDefault
<1>9. CASE HandlerFails(h)
  <2>1. RequestsOwn'
    BY <1>9, AnswerOwn DEF HandlerFails, Rows
  <2>2. QED
    BY <1>9, <2>1, HandlerOnly DEF HandlerFails
<1>10. QED
  BY <1>1, <1>2, <1>3, <1>4, <1>5, <1>7, <1>8, <1>9 DEF Operation

-----------------------------------------------------------------------------
(* Accounts and the agent.                                                 *)

LEMMA RemoveAccountInv ==
  ASSUME IInv, TypeOK', NEW u \in Users, RemoveAccount(u)
  PROVE  IInv'
<1>1. Owned(u) = {} /\ row' = row /\ default' = [default EXCEPT ![u] = None]
  BY Parts DEF RemoveAccount, Removable, Rows, TypeOK
<1>2. RowsInv'
  <2>1. Rows' = Rows /\ \A v \in Users : Owned(v)' = Owned(v) /\ Live(v)' = Live(v)
    BY <1>1 DEF Rows, Owned, Live
  <2>2. RowsHaveAccounts'
    BY <1>1, <2>1, Parts DEF RowsInv, RowsHaveAccounts, RemoveAccount, Owned
  <2>3. DefaultOwned'
    BY <1>1, <2>1, Parts DEF RowsInv, DefaultOwned, TypeOK
  <2>4. QED
    BY <1>1, <2>1, <2>2, <2>3, Parts DEF RowsInv, Limits, NamesDistinct
<1>3. RequestsOwn'
  BY <1>1, RequestsKept, Parts DEF RemoveAccount, Rows
<1>4. QED
  BY <1>1, <1>2, <1>3, Parts, Parts1 DEF RemoveAccount, RuntimeFree, Rows

LEMMA ConfirmInv ==
  ASSUME IInv, TypeOK', ConfirmBrowserDeletion
  PROVE  IInv'
<1> DEFINE b == confirming
           gone == b \in Rows /\ row[b].deleting
<1>1. CASE gone
  <2> DEFINE S == Rows \ {b}
  <2>1. row' = [c \in S |-> row[c]] /\ Rows' = S /\ \A c \in S : row'[c] = row[c]
    BY <1>1 DEF ConfirmBrowserDeletion, Rows
  <2>2. \A u \in Users : default'[u] = None \/ (default'[u] = default[u] /\ default[u] \in S)
    <3> SUFFICES ASSUME NEW u \in Users, default'[u] # None
                 PROVE  default'[u] = default[u] /\ default[u] \in S
      OBVIOUS
    <3>1. default'[u] = default[u] /\ default[u] # b
      BY <1>1 DEF ConfirmBrowserDeletion
    <3>2. default[u] \in Rows
      BY <3>1, Parts DEF RowsInv, DefaultOwned, Owned
    <3>3. QED
      BY <3>1, <3>2
  <2>3. RowsInv'
    <3>1. \A c \in S : row[c].owner \in accounts'
      BY Parts DEF ConfirmBrowserDeletion, RowsInv, RowsHaveAccounts
    <3>2. QED
      BY <2>1, <2>2, <3>1, RowsGone, Parts
  <2>4. RequestsOwn'
    BY <2>1, RequestsKept, Parts DEF ConfirmBrowserDeletion
  <2>5. runtimes' \subseteq Rows' /\ RuntimeFree'
    BY <2>1, RegistryAssumption, Parts DEF ConfirmBrowserDeletion, RuntimeFree, TypeOK
  <2>6. QED
    BY <2>3, <2>4, <2>5, Parts1
<1>2. CASE ~gone
  <2>1. row' = row /\ default' = default
    BY <1>2, Parts DEF ConfirmBrowserDeletion, TypeOK
  <2>2. RowsInv'
    BY <2>1, RowsKept, Parts DEF ConfirmBrowserDeletion
  <2>3. RequestsOwn'
    BY <2>1, RequestsKept, Parts DEF ConfirmBrowserDeletion, Rows
  <2>4. runtimes' \subseteq Rows' /\ RuntimeFree'
    BY <2>1, RegistryAssumption, Parts DEF ConfirmBrowserDeletion, RuntimeFree, TypeOK, Rows
  <2>5. QED
    BY <2>2, <2>3, <2>4, Parts1
<1>3. QED
  BY <1>1, <1>2

LEMMA AgentInv ==
  ASSUME IInv, TypeOK', Agent
  PROVE  IInv'
<1>1. ASSUME UNCHANGED <<accounts, default, born, row, handler>>,
             RuntimeFree', runtimes' \subseteq Rows
      PROVE  IInv'
  <2>1. RowsInv'
    BY <1>1, RowsKept, Parts
  <2>2. RequestsOwn'
    BY <1>1, RequestsKept, Parts DEF Rows
  <2>3. QED
    BY <1>1, <2>1, <2>2, Parts1 DEF Rows
<1>2. CASE Poll
  BY <1>1, <1>2, Parts DEF Poll, RuntimeFree
<1>3. ASSUME NEW b \in Browsers, EnsureRuntime(b)
      PROVE  IInv'
  <2>1. RuntimeFree' /\ runtimes' \subseteq Rows
    BY <1>3, RegistryAssumption, Parts DEF EnsureRuntime, RuntimeFree
  <2>2. QED
    BY <1>1, <1>3, <2>1 DEF EnsureRuntime
<1>4. ASSUME NEW b \in Browsers, EnsureDeleted(b)
      PROVE  IInv'
  <2>1. RuntimeFree' /\ runtimes' \subseteq Rows
    BY <1>4, Parts DEF EnsureDeleted, RuntimeFree
  <2>2. QED
    BY <1>1, <1>4, <2>1 DEF EnsureDeleted
<1>5. CASE ConfirmationLost
  <2>1. RuntimeFree' /\ runtimes' \subseteq Rows
    BY <1>5, RegistryAssumption, Parts DEF ConfirmationLost, RuntimeFree, TypeOK
  <2>2. QED
    BY <1>1, <1>5, <2>1 DEF ConfirmationLost
<1>6. QED
  BY <1>2, <1>3, <1>4, <1>5, ConfirmInv DEF Agent

-----------------------------------------------------------------------------
LEMMA InvStep == IInv /\ [Next]_vars => IInv'
<1> SUFFICES ASSUME IInv, [Next]_vars PROVE IInv'
  OBVIOUS
<1>1. TypeOK'
  BY TypeStep, Parts
<1>2. CASE UNCHANGED vars
  <2>1. RequestsOwn'
    BY <1>2, RequestsKept, Parts DEF vars, Rows
  <2>2. QED
    BY <1>1, <1>2, <2>1, HandlerOnly DEF vars
<1>3. CASE \E u \in Users, b \in Browsers, n \in Names : ReserveBrowser(u, b, n)
  BY <1>1, <1>3, ReserveInv
<1>4. CASE \E h \in Handlers, op \in Operations, u \in Users, b \in Browsers, n \in Names :
             LoadAuth(h, op, u, b, n)
  BY <1>1, <1>4, LoadAuthInv
<1>5. CASE \E h \in Handlers, u \in Users, s \in Browsers \cup Names : SelectBrowser(h, u, s)
  BY <1>1, <1>5, SelectInv
<1>6. CASE \E h \in Handlers : Operation(h) \/ HandlerFails(h)
  BY <1>1, <1>6, OperationInv
<1>7. CASE \E u \in Users : RemoveAccount(u)
  BY <1>1, <1>7, RemoveAccountInv
<1>8. CASE Agent
  BY <1>1, <1>8, AgentInv
<1>9. QED
  BY <1>2, <1>3, <1>4, <1>5, <1>6, <1>7, <1>8 DEF Next

(***************************************************************************)
(* RegistryHolds.  In every reachable state the registry keeps its word:   *)
(* both limits with every runtime counted, one name per live browser and   *)
(* account, defaults that are the account's own, rows with an account.     *)
(***************************************************************************)
THEOREM RegistryHolds == Spec => []IInv
<1>1. Init => IInv
  BY InitInv
<1>2. IInv /\ [Next]_vars => IInv'
  BY InvStep
<1>3. QED
  BY <1>1, <1>2, PTL DEF Spec

(***************************************************************************)
(* CapacityHolds.  "A vaga só volta após a exclusão ser confirmada pelo    *)
(* agente": there are never more runtimes than places.                     *)
(***************************************************************************)
THEOREM CapacityHolds == Spec => []Capacity
<1>1. IInv => Capacity
  BY DEF IInv
<1>2. QED
  BY <1>1, RegistryHolds, PTL

(***************************************************************************)
(* NamesHold.  A browser brought back from its deletion never shares its   *)
(* name with the one that took it.                                         *)
(***************************************************************************)
THEOREM NamesHold == Spec => []NamesDistinct
<1>1. IInv => NamesDistinct
  BY DEF IInv
<1>2. QED
  BY <1>1, RegistryHolds, PTL

(***************************************************************************)
(* DefaultsHold.  However late a default is saved, it is the account's own *)
(* browser.                                                                *)
(***************************************************************************)
THEOREM DefaultsHold == Spec => []DefaultOwned
<1>1. IInv => DefaultOwned
  BY DEF IInv
<1>2. QED
  BY <1>1, RegistryHolds, PTL
=============================================================================
