-------------------------- MODULE BrowserRegistry --------------------------
(***************************************************************************)
(* Who has which browsers: accounts, the two quotas, names, the default    *)
(* browser and the selectors of the central MCP, from app.go,              *)
(* browser_quota.go, access_policy.go and mcp.go of internal/control.      *)
(*                                                                         *)
(* A handler reads the account when its token is loaded, then the row,     *)
(* and saves later, so several are under way at once; only the             *)
(* reservation of a browser and the removal of an account are              *)
(* transactions.  Of the states of a row this module keeps whether it is   *)
(* "deleting": BrowserLifecycle has the others.  app.Save writes the       *)
(* columns that differ from what was read; its check that a related row    *)
(* exists and the save are one step.  The handler that confirms a deletion *)
(* ends with the agent's call: BrowserLifecycle lets handlers be late.     *)
(***************************************************************************)
EXTENDS Integers, Sequences, FiniteSets, SequencesExt

CONSTANTS
  Users, Browsers, Names, Handlers,
  None,             \* no browser: an empty relation
  Fold(_),          \* the name strings.EqualFold makes of a name
  MaxPerUser,       \* NAVEGO_MAX_BROWSERS_PER_USER
  MaxTotal,         \* NAVEGO_MAX_BROWSERS_TOTAL
  MaxRequests       \* bound: requests of users

ASSUME RegistryAssumption ==
  /\ None \notin Browsers
  /\ IsFiniteSet(Browsers)
  /\ Names # {}
  /\ MaxPerUser \in Nat /\ MaxTotal \in Nat /\ MaxRequests \in Nat

VARIABLES
  accounts,   \* users: the accounts there are
  default,    \* users.default_browser, None without one or without an account
  born,       \* browsers: every row ever inserted, oldest first
  row,        \* browsers: the rows there are, by id
  runtimes,   \* agent: browsers of which a container or the profile exists
  handler,    \* the request each handler is serving
  commanded,  \* agent: browsers that its list of commands wants deleted
  confirming, \* agent: the browser whose deletion is being confirmed, or None
  requests    \* requests so far

vars ==
  <<accounts, default, born, row, runtimes, handler, commanded, confirming, requests>>

Rows == DOMAIN row
Owned(u) == {b \in Rows : row[b].owner = u}
Live(u) == {b \in Owned(u) : ~row[b].deleting}

Row == [owner : Users, name : Names, deleting : BOOLEAN]
Idle == [op |-> "idle"]
Operations == {"rename", "default", "power", "delete"}
AnyName == CHOOSE n \in Names : TRUE

Request ==
  [op : Operations, pc : {"auth", "selected", "save", "clear"}, user : Users,
   browser : Browsers, name : Names, read : Browsers \cup {None}]

Init ==
  /\ accounts = Users
  /\ default = [u \in Users |-> None]
  /\ born = << >>
  /\ row = << >>
  /\ runtimes = {}
  /\ handler = [h \in Handlers |-> Idle]
  /\ commanded = {}
  /\ confirming = None
  /\ requests = 0

-----------------------------------------------------------------------------
HasRoom(u) ==
  /\ Cardinality(Owned(u)) < MaxPerUser
  /\ Cardinality(Rows) < MaxTotal

Clash(c, r) == ~row[c].deleting /\ row[c].owner = r.owner /\ row[c].name = r.name

\* Mutant: the index knows names, but not that a row can come back to it.
UniqueAtFirst(b, r) == b \in Rows \/ \A c \in Rows : ~Clash(c, r)

\* idx_browsers_owner_name: would the index take row b with this content?
Unique(b, r) == r.deleting \/ \A c \in Rows \ {b} : ~Clash(c, r)

\* createBrowser, reserveBrowser: the request is one transaction.  The first
\* browser of an account without a default becomes its default.
ReserveBrowser(u, b, n) ==
  LET r == [owner |-> u, name |-> n, deleting |-> FALSE]
  IN  /\ requests < MaxRequests
      /\ u \in accounts
      /\ b \notin Range(born)
      /\ HasRoom(u)
      /\ Unique(b, r)
      /\ requests' = requests + 1
      /\ born' = Append(born, b)
      /\ row' = [c \in Rows \cup {b} |-> IF c = b THEN r ELSE row[c]]
      /\ default' = [default EXCEPT ![u] = IF @ = None THEN b ELSE @]
      /\ UNCHANGED <<accounts, runtimes, handler, commanded, confirming>>

-----------------------------------------------------------------------------
(***************************************************************************)
(* renameBrowser, setDefaultBrowser, powerBrowser and deleteBrowser: the   *)
(* account is read with the token, the row by ownedBrowser, then come the  *)
(* saves.  A report of the agent that read the row before its deletion was *)
(* saved writes what a power request does.                                 *)
(***************************************************************************)
LoadAuth(h, op, u, b, n) ==
  /\ handler[h] = Idle
  /\ requests < MaxRequests
  /\ u \in accounts
  /\ b \in Range(born)
  /\ op = "rename" \/ n = AnyName
  /\ requests' = requests + 1
  /\ handler' = [handler EXCEPT ![h] =
       [op |-> op, pc |-> "auth", user |-> u, browser |-> b, name |-> n,
        read |-> default[u]]]
  /\ UNCHANGED <<accounts, default, born, row, runtimes, commanded, confirming>>

OwnedBrowser(u, b) == b \in Live(u)

ReadBrowser(h) ==
  LET r == handler[h]
  IN  /\ r # Idle /\ r.pc = "auth"
      /\ handler' = [handler EXCEPT ![h] = IF OwnedBrowser(r.user, r.browser)
                                           THEN [r EXCEPT !.pc = "save"] ELSE Idle]
      /\ UNCHANGED <<accounts, default, born, row, runtimes, commanded, confirming, requests>>

\* resolveBrowser with a selector: the oldest browser of the account that has
\* this id, or this name in any case, or None.
Oldest(S) ==
  CHOOSE b \in S : \E i \in DOMAIN born :
    born[i] = b /\ \A j \in 1 .. i - 1 : born[j] \notin S

Resolve(u, selector) ==
  LET meant == {b \in Live(u) : b = selector \/ Fold(row[b].name) = Fold(selector)}
  IN  IF meant = {} THEN None ELSE Oldest(meant)

\* The tool browser_set_default reads the account after it chose the browser.
SelectBrowser(h, u, selector) ==
  LET b == Resolve(u, selector)
  IN  /\ handler[h] = Idle
      /\ requests < MaxRequests
      /\ u \in accounts
      /\ b \in Live(u)
      /\ requests' = requests + 1
      /\ handler' = [handler EXCEPT ![h] =
           [op |-> "default", pc |-> "selected", user |-> u, browser |-> b,
            name |-> AnyName, read |-> None]]
      /\ UNCHANGED <<accounts, default, born, row, runtimes, commanded, confirming>>

ReadAccount(h) ==
  LET r == handler[h]
  IN  /\ r # Idle /\ r.pc = "selected"
      /\ handler' = [handler EXCEPT ![h] =
           IF r.user \in accounts THEN [r EXCEPT !.pc = "save", !.read = default[r.user]]
           ELSE Idle]
      /\ UNCHANGED <<accounts, default, born, row, runtimes, commanded, confirming, requests>>

At(h, op) == handler[h] # Idle /\ handler[h].op = op /\ handler[h].pc = "save"
Answer(h) == handler' = [handler EXCEPT ![h] = Idle]

\* An update of a row, which the index may refuse and which does nothing to a
\* row that is gone.
Update(b, r) == row' = IF b \in Rows /\ Unique(b, r) THEN [row EXCEPT ![b] = r] ELSE row

RenameBrowser(h) ==
  LET b == handler[h].browser
  IN  /\ At(h, "rename")
      /\ IF b \in Rows THEN Update(b, [row[b] EXCEPT !.name = handler[h].name])
         ELSE UNCHANGED row
      /\ Answer(h)
      /\ UNCHANGED <<accounts, default, born, runtimes, commanded, confirming, requests>>

PowerBrowser(h) ==
  LET b == handler[h].browser
  IN  /\ At(h, "power")
      /\ IF b \in Rows THEN Update(b, [row[b] EXCEPT !.deleting = FALSE])
         ELSE UNCHANGED row
      /\ Answer(h)
      /\ UNCHANGED <<accounts, default, born, runtimes, commanded, confirming, requests>>

\* The column of the account, when it differs from what was read.  A relation
\* is saved only to a row there is.
SaveDefault(r, b) ==
  default' = IF r.user \in accounts /\ r.read # b /\ b \in Rows \cup {None}
             THEN [default EXCEPT ![r.user] = b] ELSE default

SetDefaultBrowser(h) ==
  /\ At(h, "default")
  /\ SaveDefault(handler[h], handler[h].browser)
  /\ Answer(h)
  /\ UNCHANGED <<accounts, born, row, runtimes, commanded, confirming, requests>>

DeleteBrowser(h) ==
  LET r == handler[h]
  IN  /\ At(h, "delete")
      /\ row' = IF r.browser \in Rows THEN [row EXCEPT ![r.browser].deleting = TRUE]
                ELSE row
      /\ handler' = [handler EXCEPT ![h] =
           IF r.read = r.browser THEN [r EXCEPT !.pc = "clear"] ELSE Idle]
      /\ UNCHANGED <<accounts, default, born, runtimes, commanded, confirming, requests>>

ClearDefault(h) ==
  /\ handler[h] # Idle /\ handler[h].pc = "clear"
  /\ SaveDefault(handler[h], None)
  /\ Answer(h)
  /\ UNCHANGED <<accounts, born, row, runtimes, commanded, confirming, requests>>

\* Any save may fail, and the control plane may stop: what was saved stays.
HandlerFails(h) ==
  /\ handler[h] # Idle
  /\ Answer(h)
  /\ UNCHANGED <<accounts, default, born, row, runtimes, commanded, confirming, requests>>

-----------------------------------------------------------------------------
\* Mutant: only the browsers the account can still see keep it.
RemovableWithPending(u) == Live(u) = {}

Removable(u) == Owned(u) = {}

\* An account goes in one transaction, and its rows, if any, go with it.
RemoveAccount(u) ==
  /\ u \in accounts
  /\ Removable(u)
  /\ accounts' = accounts \ {u}
  /\ row' = [b \in Rows \ Owned(u) |-> row[b]]
  /\ default' = [default EXCEPT ![u] = None]
  /\ UNCHANGED <<born, runtimes, handler, commanded, confirming, requests>>

(***************************************************************************)
(* The agent, as far as BrowserPromise promises: it makes runtimes of rows *)
(* there are, and confirms a deletion when nothing of the runtime is left. *)
(* Its list may be out of date.  It does nothing else until it is answered *)
(***************************************************************************)
Poll ==
  /\ confirming = None
  /\ commanded' = {b \in Rows : row[b].deleting}
  /\ UNCHANGED <<accounts, default, born, row, runtimes, handler, confirming, requests>>

EnsureRuntime(b) ==
  /\ confirming = None
  /\ b \in Rows \ (runtimes \cup commanded)
  /\ runtimes' = runtimes \cup {b}
  /\ UNCHANGED <<accounts, default, born, row, handler, commanded, confirming, requests>>

EnsureDeleted(b) ==
  /\ confirming = None
  /\ b \in commanded
  /\ commanded' = commanded \ {b}
  /\ runtimes' = runtimes \ {b}
  /\ confirming' = b
  /\ UNCHANGED <<accounts, default, born, row, handler, requests>>

\* Mutant: the row goes without the relations to it.
ConfirmLeavingDefault ==
  LET b == confirming
  IN  /\ confirming # None
      /\ row' = IF b \in Rows /\ row[b].deleting THEN [c \in Rows \ {b} |-> row[c]]
                ELSE row
      /\ confirming' = None
      /\ UNCHANGED <<accounts, default, born, runtimes, handler, commanded, requests>>

\* confirmBrowserDeletion refuses a row that was written since.  Removing a row
\* empties the relations to it.
ConfirmBrowserDeletion ==
  LET b == confirming
      gone == b \in Rows /\ row[b].deleting
  IN  /\ confirming # None
      /\ row' = IF gone THEN [c \in Rows \ {b} |-> row[c]] ELSE row
      /\ default' = [u \in Users |-> IF gone /\ default[u] = b THEN None ELSE default[u]]
      /\ confirming' = None
      /\ UNCHANGED <<accounts, born, runtimes, handler, commanded, requests>>

\* The agent stops, or its call is lost, before the deletion is confirmed.
ConfirmationLost ==
  /\ confirming # None
  /\ confirming' = None
  /\ UNCHANGED <<accounts, default, born, row, runtimes, handler, commanded, requests>>

-----------------------------------------------------------------------------
Operation(h) ==
  \/ ReadBrowser(h)
  \/ ReadAccount(h)
  \/ RenameBrowser(h)
  \/ PowerBrowser(h)
  \/ SetDefaultBrowser(h)
  \/ DeleteBrowser(h)
  \/ ClearDefault(h)

Agent ==
  \/ Poll
  \/ \E b \in Browsers : EnsureRuntime(b)
  \/ \E b \in Browsers : EnsureDeleted(b)
  \/ ConfirmBrowserDeletion
  \/ ConfirmationLost

Next ==
  \/ \E u \in Users, b \in Browsers, n \in Names : ReserveBrowser(u, b, n)
  \/ \E h \in Handlers, op \in Operations, u \in Users, b \in Browsers, n \in Names :
       LoadAuth(h, op, u, b, n)
  \/ \E h \in Handlers, u \in Users, s \in Browsers \cup Names : SelectBrowser(h, u, s)
  \/ \E h \in Handlers : Operation(h) \/ HandlerFails(h)
  \/ \E u \in Users : RemoveAccount(u)
  \/ Agent

Spec == Init /\ [][Next]_vars

\* Handlers end, and the agent polls for ever; a call of it is not lost every
\* time.  Users owe nothing.
FairSpec ==
  /\ Spec
  /\ \A h \in Handlers : WF_vars(Operation(h))
  /\ SF_vars(Poll)
  /\ \A b \in Browsers : SF_vars(EnsureDeleted(b))
  /\ SF_vars(ConfirmBrowserDeletion)

-----------------------------------------------------------------------------
TypeOK ==
  /\ accounts \subseteq Users
  /\ default \in [Users -> Browsers \cup {None}]
  /\ born \in Seq(Browsers)
  /\ Rows \subseteq Range(born) /\ row \in [Rows -> Row]
  /\ runtimes \subseteq Browsers
  /\ handler \in [Handlers -> Request \cup {Idle}]
  /\ commanded \subseteq Browsers
  /\ confirming \in Browsers \cup {None}
  /\ requests \in 0 .. MaxRequests

(***************************************************************************)
(* Capacity.  "A vaga só volta após a exclusão ser confirmada pelo         *)
(* agente": every runtime there is has its row, and the rows keep both     *)
(* limits, whatever deletions are pending and whichever accounts are       *)
(* removed.                                                                *)
(***************************************************************************)
Capacity ==
  /\ runtimes \subseteq Rows
  /\ Cardinality(Rows) <= MaxTotal
  /\ \A u \in Users : Cardinality(Owned(u)) <= MaxPerUser

\* NamesDistinct.  No two live browsers of an account have the same name, also
\* when a late save brings one back from its deletion after its name was taken.
NamesDistinct ==
  \A u \in Users : \A b, c \in Live(u) : row[b].name = row[c].name => b = c

\* DefaultOwned.  The default of an account is a browser that it owns, although
\* the row was read long before the default is saved.
DefaultOwned == \A u \in Users : default[u] # None => default[u] \in Owned(u)

\* RowsHaveAccounts.  A browser's account stays for as long as its row, so that
\* what is pending for it has somebody to account to.
RowsHaveAccounts == \A b \in Rows : row[b].owner \in accounts

(***************************************************************************)
(* RequestsOwn: a request that was past ownedBrowser is about a browser of *)
(* its own account, if that is still there; its id is not used again.      *)
(***************************************************************************)
RequestsOwn ==
  \A h \in Handlers : LET r == handler[h] IN
    r # Idle =>
      /\ r.browser \in Range(born)
      /\ r.pc # "auth" /\ r.browser \in Rows => row[r.browser].owner = r.user

\* RuntimeFree: while its deletion is confirmed, a browser has no runtime.
RuntimeFree == confirming \notin runtimes

IInv ==
  /\ TypeOK
  /\ Capacity /\ NamesDistinct /\ DefaultOwned /\ RowsHaveAccounts
  /\ RequestsOwn /\ RuntimeFree

\* DefaultLetGo.  A default that cannot be used, because its deletion was saved
\* and the default was not or was saved late, does not stay for good: then the
\* account would have no default and no new browser would become it.
DefaultLetGo ==
  \A u \in Users :
    default[u] # None /\ default[u] \notin Live(u)
      ~> default[u] = None \/ default[u] \in Live(u)
=============================================================================
