----------------------------- MODULE OAuthTokens -----------------------------
(***************************************************************************)
(* The OAuth server of the control plane (internal/control/oauth.go): codes *)
(* that an owner grants to a client, exchanged for a pair of an access and *)
(* a refresh token, which rotates.  Every handler reads rows, decides, and *)
(* saves one row at a time, without a transaction, while other handlers do *)
(* the same, rows expire, accounts are removed or lose their trust, saves  *)
(* fail, answers are lost and the process restarts.                        *)
(* A token is named by the pair it belongs to; its secret, scopes and      *)
(* resource are left out.  Redirect URI and PKCE challenge stand for the   *)
(* client that started the authorization, so a client is asked for its     *)
(* identifier and for the verifier only it has.                            *)
(***************************************************************************)
EXTENDS FiniteSets

CONSTANTS
  Account,
  Client,   \* clients that may register
  Code,     \* authorization codes: one row of oauth_grants each
  Pair,     \* pairs of tokens: a row of oauth_access_tokens and one of
            \* oauth_refresh_tokens; an identifier is used once
  Slot,     \* requests handled at a time
  None

ASSUME NoneAssumption ==
  None \notin Account \cup Client \cup Code \cup Pair \cup (Account \X Client)
ASSUME SourceAssumption == Code \cap Pair = {}

VARIABLES
  accounts,   \* rows of users
  trusted,    \* accounts that accessPolicy.allowsUser accepts
  clients,    \* registered clients
  grant,      \* the row of each code
  pair,       \* the two rows of each pair
  req,        \* the handlers
  doubted,    \* history: accounts that lost their trust or were removed
  hurt        \* history: codes whose tokens met a fault, expiry or revocation,
              \* and pairs that two faults or the end of the process left half

vars == <<accounts, trusted, clients, grant, pair, req, doubted, hurt>>

\* A row: not written yet, of use, or not any more (used, revoked, expired or
\* deleted).
Row == {"none", "live", "dead"}

Source == Code \cup Pair

Grant == [row : Row, owner : Account \cup {None}, client : Client \cup {None}]

\* src, root: history: the code or the refresh token that was exchanged for
\* the pair, and the code it all began with; holder: who was answered with it.
Tokens ==
  [access : Row, refresh : Row,
   owner : Account \cup {None}, client : Client \cup {None},
   src : Source \cup {None}, root : Code \cup {None}, holder : Client \cup {None}]

Place == {"free", "granting", "spending", "issuing", "saving", "pairing",
          "revoking", "calling", "serving"}

\* What a handler read: by is the client that sends the request, part the
\* token that a revocation found.
Request ==
  [at : Place, owner : Account \cup {None}, client : Client \cup {None},
   by : Client \cup {None}, src : Source \cup {None}, root : Code \cup {None},
   pair : Pair \cup {None}, part : {"access", "refresh"}]

NoGrant == [row |-> "none", owner |-> None, client |-> None]
NoTokens == [access |-> "none", refresh |-> "none", owner |-> None, client |-> None,
             src |-> None, root |-> None, holder |-> None]
Idle == [at |-> "free", owner |-> None, client |-> None, by |-> None, src |-> None,
         root |-> None, pair |-> None, part |-> "access"]

Init ==
  /\ accounts = Account
  /\ trusted \in SUBSET Account
  /\ clients = {}
  /\ grant = [c \in Code |-> NoGrant]
  /\ pair = [p \in Pair |-> NoTokens]
  /\ req = [s \in Slot |-> Idle]
  /\ doubted = Account \ trusted
  /\ hurt = {}

-----------------------------------------------------------------------------
At(s, place) == req[s].at = place
Allowed(o) == o \in accounts /\ o \in trusted
Deleted(row) == IF row = "live" THEN "dead" ELSE row
Moves(s, place) == req' = [req EXCEPT ![s].at = place]
Ends(s) == req' = [req EXCEPT ![s] = Idle]
Hurts(s) == hurt' = hurt \cup {req[s].root}

RegisterClient(k) ==
  /\ k \notin clients
  /\ clients' = clients \cup {k}
  /\ UNCHANGED <<accounts, trusted, grant, pair, req, doubted, hurt>>

\* approveAuthorization: the request of a registered client, approved with the
\* password of an account that is allowed.
ApproveAuthorization(s, o, k) ==
  /\ At(s, "free")
  /\ k \in clients
  /\ Allowed(o)
  /\ req' = [req EXCEPT ![s] = [Idle EXCEPT !.at = "granting", !.owner = o, !.client = k]]
  /\ UNCHANGED <<accounts, trusted, clients, grant, pair, doubted, hurt>>

\* The code is saved; the relation to its owner must hold then.
SaveGrant(s, c) ==
  /\ At(s, "granting")
  /\ req[s].owner \in accounts
  /\ grant[c].row = "none"
  /\ grant' = [grant EXCEPT ![c] =
       [row |-> "live", owner |-> req[s].owner, client |-> req[s].client]]
  /\ Ends(s)
  /\ UNCHANGED <<accounts, trusted, clients, pair, doubted, hurt>>

-----------------------------------------------------------------------------
\* Mutant: a code is good until it expires, whoever used it.
CodeAcceptedAgain(c, k, by) ==
  k \in clients /\ grant[c].row # "none" /\ grant[c].client = k /\ by = k

\* exchangeAuthorizationCode, until the row is saved: the client that is
\* named, the state of the row, and the verifier of the client that sends it.
CodeAccepted(c, k, by) ==
  /\ k \in clients
  /\ grant[c].row = "live"
  /\ grant[c].client = k
  /\ by = grant[c].client

ExchangeCode(s, c, k, by) ==
  /\ At(s, "free")
  /\ CodeAccepted(c, k, by)
  /\ req' = [req EXCEPT ![s] = [Idle EXCEPT
       !.at = "spending", !.owner = grant[c].owner, !.client = k, !.by = by,
       !.src = c, !.root = c]]
  /\ UNCHANGED <<accounts, trusted, clients, grant, pair, doubted, hurt>>

\* Mutant: a revoked token is refused only when it expired.
RefreshAcceptedDead(p, k) == pair[p].refresh # "none" /\ pair[p].client = k

\* exchangeRefreshToken, until the row is saved; whoever holds the token may
\* send it.
RefreshAccepted(p, k) == pair[p].refresh = "live" /\ pair[p].client = k

\* Mutant: the old token is revoked before the client is compared.
ExchangeRefreshRevoking(s, p, k) ==
  /\ At(s, "free")
  /\ pair[p].holder # None
  /\ pair[p].refresh = "live"
  /\ IF pair[p].client = k
     THEN /\ req' = [req EXCEPT ![s] = [Idle EXCEPT
               !.at = "spending", !.owner = pair[p].owner, !.client = k,
               !.by = pair[p].holder, !.src = p, !.root = pair[p].root]]
          /\ UNCHANGED pair
     ELSE pair' = [pair EXCEPT ![p].refresh = "dead"] /\ UNCHANGED req
  /\ UNCHANGED <<accounts, trusted, clients, grant, doubted, hurt>>

ExchangeRefresh(s, p, k) ==
  /\ At(s, "free")
  /\ pair[p].holder # None
  /\ RefreshAccepted(p, k)
  /\ req' = [req EXCEPT ![s] = [Idle EXCEPT
       !.at = "spending", !.owner = pair[p].owner, !.client = k,
       !.by = pair[p].holder, !.src = p, !.root = pair[p].root]]
  /\ UNCHANGED <<accounts, trusted, clients, grant, pair, doubted, hurt>>

\* used_at or revoked_at is saved, whatever the row says by now.
Spend(s) ==
  /\ At(s, "spending")
  /\ IF req[s].src \in Code
     THEN grant' = [grant EXCEPT ![req[s].src].row = "dead"] /\ UNCHANGED pair
     ELSE pair' = [pair EXCEPT ![req[s].src].refresh = "dead"] /\ UNCHANGED grant
  /\ Moves(s, "issuing")
  /\ UNCHANGED <<accounts, trusted, clients, doubted, hurt>>

\* issueTokens: the account is read again.
CheckOwner(s) ==
  /\ At(s, "issuing")
  /\ IF Allowed(req[s].owner) THEN Moves(s, "saving") ELSE Ends(s)
  /\ UNCHANGED <<accounts, trusted, clients, grant, pair, doubted, hurt>>

SaveAccess(s, p) ==
  /\ At(s, "saving")
  /\ req[s].owner \in accounts
  /\ pair[p].access = "none"
  /\ pair' = [pair EXCEPT ![p] = [NoTokens EXCEPT
       !.access = "live", !.owner = req[s].owner, !.client = req[s].client,
       !.src = req[s].src, !.root = req[s].root]]
  /\ req' = [req EXCEPT ![s].at = "pairing", ![s].pair = p]
  /\ UNCHANGED <<accounts, trusted, clients, grant, doubted, hurt>>

\* The refresh token is saved and the answer goes out; it may be lost.
SaveRefresh(s) ==
  /\ At(s, "pairing")
  /\ req[s].owner \in accounts
  /\ \/ /\ pair' = [pair EXCEPT ![req[s].pair].refresh = "live",
                                ![req[s].pair].holder = req[s].by]
        /\ UNCHANGED hurt
     \/ /\ pair' = [pair EXCEPT ![req[s].pair].refresh = "live"]
        /\ Hurts(s)
  /\ Ends(s)
  /\ UNCHANGED <<accounts, trusted, clients, grant, doubted>>

\* Mutant: the access token is left to expire.
RefreshFailsLeaving(s) ==
  /\ At(s, "pairing")
  /\ Hurts(s)
  /\ Ends(s)
  /\ UNCHANGED <<accounts, trusted, clients, grant, pair, doubted>>

\* It is not saved: the access token is deleted, unless that fails, too.
RefreshFails(s) ==
  /\ At(s, "pairing")
  /\ \/ /\ pair' = [pair EXCEPT ![req[s].pair].access = "dead"]
        /\ Hurts(s)
     \/ /\ UNCHANGED pair
        /\ hurt' = hurt \cup {req[s].root, req[s].pair}
  /\ Ends(s)
  /\ UNCHANGED <<accounts, trusted, clients, grant, doubted>>

\* Any other read or save fails: the handler answers with an error.
HandlerFails(s) ==
  /\ req[s].at \in {"granting", "spending", "issuing", "saving", "calling"}
  /\ IF req[s].at \in {"issuing", "saving"} THEN Hurts(s) ELSE UNCHANGED hurt
  /\ Ends(s)
  /\ UNCHANGED <<accounts, trusted, clients, grant, pair, doubted>>

-----------------------------------------------------------------------------
\* revokeToken: the token is looked for among the access tokens, then among
\* the refresh tokens; the client is compared when the request names one.
Revoke(s, p, part, named) ==
  /\ At(s, "free")
  /\ pair[p].holder # None
  /\ named \in {None, pair[p].client}
  /\ req' = [req EXCEPT ![s] = [Idle EXCEPT
       !.at = "revoking", !.root = pair[p].root, !.pair = p, !.part = part]]
  /\ UNCHANGED <<accounts, trusted, clients, grant, pair, doubted, hurt>>

\* revoked_at is saved or not: the answer is 204 and the audit says success.
SaveRevocation(s) ==
  /\ At(s, "revoking")
  /\ \/ pair' = [pair EXCEPT ![req[s].pair] =
            IF req[s].part = "access" THEN [@ EXCEPT !.access = "dead"]
                                      ELSE [@ EXCEPT !.refresh = "dead"]]
     \/ UNCHANGED pair
  /\ IF req[s].part = "refresh" THEN Hurts(s) ELSE UNCHANGED hurt
  /\ Ends(s)
  /\ UNCHANGED <<accounts, trusted, clients, grant, doubted>>

\* verifyToken: the row, and then the account.
VerifyToken(s, p) ==
  /\ At(s, "free")
  /\ pair[p].holder # None
  /\ pair[p].access = "live"
  /\ req' = [req EXCEPT ![s] = [Idle EXCEPT
       !.at = "calling", !.owner = pair[p].owner, !.client = pair[p].client, !.pair = p]]
  /\ UNCHANGED <<accounts, trusted, clients, grant, pair, doubted, hurt>>

\* Mutant: a token says enough of its account.
VerifyOwnerUnread(s) ==
  /\ At(s, "calling")
  /\ Moves(s, "serving")
  /\ UNCHANGED <<accounts, trusted, clients, grant, pair, doubted, hurt>>

VerifyOwner(s) ==
  /\ At(s, "calling")
  /\ IF Allowed(req[s].owner) THEN Moves(s, "serving") ELSE Ends(s)
  /\ UNCHANGED <<accounts, trusted, clients, grant, pair, doubted, hurt>>

\* The call itself is the central MCP's.
Answer(s) ==
  /\ At(s, "serving")
  /\ Ends(s)
  /\ UNCHANGED <<accounts, trusted, clients, grant, pair, doubted, hurt>>

-----------------------------------------------------------------------------
\* A row reaches its expires_at.
ExpireCode(c) ==
  /\ grant[c].row = "live"
  /\ grant' = [grant EXCEPT ![c].row = "dead"]
  /\ hurt' = hurt \cup {c}
  /\ UNCHANGED <<accounts, trusted, clients, pair, req, doubted>>

ExpireAccess(p) ==
  /\ pair[p].access = "live"
  /\ pair' = [pair EXCEPT ![p].access = "dead"]
  /\ UNCHANGED <<accounts, trusted, clients, grant, req, doubted, hurt>>

ExpireRefresh(p) ==
  /\ pair[p].refresh = "live"
  /\ pair' = [pair EXCEPT ![p].refresh = "dead"]
  /\ hurt' = hurt \cup {pair[p].root}
  /\ UNCHANGED <<accounts, trusted, clients, grant, req, doubted>>

\* Mutant: refresh tokens do not go with their account.
RemoveAccountKeeping(o) ==
  /\ o \in accounts
  /\ accounts' = accounts \ {o}
  /\ doubted' = doubted \cup {o}
  /\ grant' = [c \in Code |-> IF grant[c].owner # o THEN grant[c]
       ELSE [grant[c] EXCEPT !.row = Deleted(@)]]
  /\ pair' = [p \in Pair |-> IF pair[p].owner # o THEN pair[p]
       ELSE [pair[p] EXCEPT !.access = Deleted(@)]]
  /\ UNCHANGED <<trusted, clients, req, hurt>>

\* The rows of an account are deleted with it (CascadeDelete).
RemoveAccount(o) ==
  /\ o \in accounts
  /\ accounts' = accounts \ {o}
  /\ doubted' = doubted \cup {o}
  /\ grant' = [c \in Code |-> IF grant[c].owner # o THEN grant[c]
       ELSE [grant[c] EXCEPT !.row = Deleted(@)]]
  /\ pair' = [p \in Pair |-> IF pair[p].owner # o THEN pair[p]
       ELSE [pair[p] EXCEPT !.access = Deleted(@), !.refresh = Deleted(@)]]
  /\ UNCHANGED <<trusted, clients, req, hurt>>

\* verified or the e-mail of an account changes, or NAVEGO_ALLOWED_EMAILS.
Judge(o) ==
  /\ o \in accounts
  /\ IF o \in trusted
     THEN trusted' = trusted \ {o} /\ doubted' = doubted \cup {o}
     ELSE trusted' = trusted \cup {o} /\ UNCHANGED doubted
  /\ UNCHANGED <<accounts, clients, grant, pair, req, hurt>>

\* The process restarts: what its handlers had begun stays as it is.
Restart ==
  /\ hurt' = hurt \cup {req[s].root : s \in {t \in Slot :
       req[t].at \in {"issuing", "saving", "pairing"}}}
                  \cup {req[s].pair : s \in {t \in Slot : At(t, "pairing")}}
  /\ req' = [s \in Slot |-> Idle]
  /\ UNCHANGED <<accounts, trusted, clients, grant, pair, doubted>>

Handler(s) ==
  \/ \E o \in Account, k \in Client : ApproveAuthorization(s, o, k)
  \/ \E c \in Code : SaveGrant(s, c)
  \/ \E c \in Code, k, by \in Client : ExchangeCode(s, c, k, by)
  \/ \E p \in Pair, k \in Client : ExchangeRefresh(s, p, k)
  \/ Spend(s)
  \/ CheckOwner(s)
  \/ \E p \in Pair : SaveAccess(s, p) \/ VerifyToken(s, p)
  \/ SaveRefresh(s)
  \/ RefreshFails(s)
  \/ HandlerFails(s)
  \/ \E p \in Pair, part \in {"access", "refresh"}, k \in Client \cup {None} :
       Revoke(s, p, part, k)
  \/ SaveRevocation(s)
  \/ VerifyOwner(s)
  \/ Answer(s)

Next ==
  \/ \E s \in Slot : Handler(s)
  \/ \E k \in Client : RegisterClient(k)
  \/ \E c \in Code : ExpireCode(c)
  \/ \E p \in Pair : ExpireAccess(p) \/ ExpireRefresh(p)
  \/ \E o \in Account : RemoveAccount(o) \/ Judge(o)
  \/ Restart

Spec == Init /\ [][Next]_vars

-----------------------------------------------------------------------------
TypeOK ==
  /\ accounts \subseteq Account
  /\ trusted \subseteq Account
  /\ clients \subseteq Client
  /\ grant \in [Code -> Grant]
  /\ pair \in [Pair -> Tokens]
  /\ req \in [Slot -> Request]
  /\ doubted \subseteq Account
  /\ hurt \subseteq Source

Used(p) == pair[p].access # "none"
Exchanging(s) == req[s].at \in {"spending", "issuing", "saving", "pairing"}
Consumed(s) == req[s].at \in {"issuing", "saving", "pairing"}

\* Whatever a handler read or saved leads back to a code, with its owner and
\* its client.
Approved(c, o, k) == grant[c].row # "none" /\ grant[c].owner = o /\ grant[c].client = k

GrantInv == \A c \in Code :
  grant[c].row # "none" => grant[c].owner \in Account /\ grant[c].client \in Client

PairOk(p) ==
  /\ pair[p].refresh # "none" \/ pair[p].holder # None => Used(p)
  /\ pair[p].holder # None => pair[p].refresh # "none"
  /\ Used(p) =>
       /\ pair[p].root \in Code
       /\ Approved(pair[p].root, pair[p].owner, pair[p].client)
       /\ pair[p].holder \in {None, pair[p].client}
       /\ grant[pair[p].root].row = "dead"

PairInv == \A p \in Pair : PairOk(p)

RequestOk(s) ==
  /\ At(s, "granting") => req[s].owner \in Account /\ req[s].client \in Client
  /\ Exchanging(s) =>
       /\ req[s].root \in Code
       /\ Approved(req[s].root, req[s].owner, req[s].client)
       /\ req[s].by = req[s].client
       /\ req[s].src \in Source
       /\ req[s].src \in Code => req[s].src = req[s].root
       /\ req[s].src \in Pair => /\ Used(req[s].src)
                                 /\ pair[req[s].src].refresh # "none"
                                 /\ pair[req[s].src].root = req[s].root
  /\ Consumed(s) =>
       /\ req[s].src \in Code => grant[req[s].src].row = "dead"
       /\ req[s].src \in Pair => pair[req[s].src].refresh = "dead"
  /\ At(s, "pairing") =>
       /\ req[s].pair \in Pair
       /\ Used(req[s].pair)
       /\ pair[req[s].pair].refresh = "none"
       /\ pair[req[s].pair].holder = None
       /\ pair[req[s].pair].owner = req[s].owner
       /\ pair[req[s].pair].client = req[s].client
       /\ pair[req[s].pair].root = req[s].root
       /\ pair[req[s].pair].src = req[s].src
  /\ At(s, "revoking") =>
       /\ req[s].pair \in Pair
       /\ pair[req[s].pair].refresh # "none"
       /\ pair[req[s].pair].root = req[s].root
  /\ req[s].at \in {"calling", "serving"} =>
       /\ req[s].pair \in Pair
       /\ pair[req[s].pair].holder # None
       /\ pair[req[s].pair].owner = req[s].owner
       /\ pair[req[s].pair].client = req[s].client

RequestInv == \A s \in Slot : RequestOk(s)

ApartInv == \A s, t \in Slot :
  At(s, "pairing") /\ At(t, "pairing") /\ s # t => req[s].pair # req[t].pair

DoubtInv == Account \ (accounts \cap trusted) \subseteq doubted

IInv == TypeOK /\ GrantInv /\ PairInv /\ RequestInv /\ ApartInv /\ DoubtInv

\* An account that is removed leaves nothing of use behind, although codes and
\* tokens are saved by handlers that read the account before.
RemovedHasNothing ==
  /\ \A c \in Code : grant[c].row = "live" => grant[c].owner \in accounts
  /\ \A p \in Pair : "live" \in {pair[p].access, pair[p].refresh} =>
       pair[p].owner \in accounts

\* An access token without its refresh token is being issued just now: when
\* the second save fails the first row goes again, whatever became meanwhile of
\* the account, the code and the exchanges that overlap.  Only a second fault,
\* of that very deletion, or the end of the process leaves half a pair.
WholePairs == \A p \in Pair :
  pair[p].access = "live" /\ pair[p].refresh = "none" =>
    \/ \E s \in Slot : At(s, "pairing") /\ req[s].pair = p
    \/ p \in hurt

\* A client is never stranded by what others do: once its code was used it has
\* a refresh token of use or an exchange under way, unless an answer was lost,
\* a save failed, a token expired or was revoked, or the account lost its
\* trust.  Overlapping exchanges do not take its last token away.
Stands(c) ==
  \/ \E p \in Pair : /\ pair[p].root = c
                     /\ pair[p].refresh = "live"
                     /\ pair[p].holder = grant[c].client
  \/ \E s \in Slot : Consumed(s) /\ req[s].root = c

NotStranded == \A c \in Code \ hurt :
  grant[c].row = "dead" /\ grant[c].owner \notin doubted => Stands(c)

\* A code or refresh token that was spent yields nothing once the exchanges
\* that had read it before are over: exchanges that overlap may both be
\* answered, and no later one is.
Spent(x) == IF x \in Code THEN grant[x].row = "dead" ELSE pair[x].refresh = "dead"
Drained(x) == Spent(x) /\ \A s \in Slot : Exchanging(s) => req[s].src # x
Yield(x) == {p \in Pair : Used(p) /\ pair[p].src = x}

SpentForGood ==
  [][\A x \in Source : Drained(x) => Drained(x)' /\ Yield(x)' = Yield(x)]_vars

\* What began with one code is over for good when no token of it can be
\* exchanged and no exchange is under way: expiry and revocation are final.
Over(c) ==
  /\ grant[c].row = "dead"
  /\ \A p \in Pair : Used(p) /\ pair[p].root = c => pair[p].refresh = "dead"
  /\ \A s \in Slot : Exchanging(s) => req[s].root # c

FamilyEnds == [][\A c \in Code : Over(c) => Over(c)']_vars

\* The server keeps the promise of TokenPromise.
Promise == INSTANCE TokenPromise WITH
  approved <- {<<grant[c].owner, grant[c].client>> :
                 c \in {d \in Code : grant[d].row # "none"}},
  entitled <- {<<pair[p].owner, pair[p].holder>> :
                 p \in {q \in Pair : pair[q].holder # None}},
  serving <- [s \in Slot |->
                IF At(s, "serving") THEN <<req[s].owner, req[s].client>> ELSE None]

ImplementsPromise == Promise!Spec
=============================================================================
