-------------------------- MODULE OAuthTokensProofs --------------------------
(***************************************************************************)
(* Proofs about OAuthTokens, for any number of accounts, clients, codes,   *)
(* tokens and requests: types and the inductive invariant, what RowsGrow   *)
(* and Flow say of every step, and from these the properties that the run  *)
(* oauth checks and the refinement of TokenPromise.                        *)
(***************************************************************************)
EXTENDS OAuthTokens, TLAPS

LEMMA RowsTyped ==
  /\ NoGrant \in Grant
  /\ NoTokens \in Tokens
  /\ Idle \in Request
BY DEF NoGrant, NoTokens, Idle, Grant, Tokens, Request, Row, Place

LEMMA InitTypeOK == Init => TypeOK
BY RowsTyped DEF Init, TypeOK

\* A handler's place changes, or a pair's rows do: the types stay.
LEMMA MovesTyped ==
  ASSUME TypeOK, NEW s \in Slot, NEW place \in Place, Moves(s, place)
  PROVE  req' \in [Slot -> Request]
<1>1. [req[s] EXCEPT !.at = place] \in Request
  BY DEF TypeOK, Request
<1>2. QED
  BY <1>1 DEF Moves, TypeOK

LEMMA EndsTyped ==
  ASSUME TypeOK, NEW s \in Slot, Ends(s)
  PROVE  req' \in [Slot -> Request]
BY RowsTyped DEF Ends, TypeOK

LEMMA RowTyped ==
  ASSUME NEW t \in Tokens, NEW a \in Row, NEW r \in Row
  PROVE  /\ [t EXCEPT !.access = a] \in Tokens
         /\ [t EXCEPT !.refresh = r] \in Tokens
         /\ [t EXCEPT !.access = a, !.refresh = r] \in Tokens
BY DEF Tokens

LEMMA NextTypeOK == IInv /\ [Next]_vars => TypeOK'
<1> SUFFICES ASSUME IInv, [Next]_vars PROVE TypeOK'
  OBVIOUS
<1> TypeOK
  BY DEF IInv
<1>0. CASE UNCHANGED vars
  BY <1>0 DEF TypeOK, vars
<1>1. ASSUME NEW k \in Client, RegisterClient(k) PROVE TypeOK'
  BY <1>1 DEF RegisterClient, TypeOK
<1>2. ASSUME NEW s \in Slot, NEW o \in Account, NEW k \in Client, ApproveAuthorization(s, o, k) PROVE TypeOK'
  <2>1. [Idle EXCEPT !.at = "granting", !.owner = o, !.client = k] \in Request
    BY RowsTyped DEF Request, Place
  <2>2. req' \in [Slot -> Request]
    BY <1>2, <2>1 DEF ApproveAuthorization, TypeOK
  <2>3. QED
    BY <1>2, <2>2 DEF ApproveAuthorization, TypeOK
<1>3. ASSUME NEW s \in Slot, NEW c \in Code, SaveGrant(s, c) PROVE TypeOK'
  <2>1. [row |-> "live", owner |-> req[s].owner, client |-> req[s].client] \in Grant
    BY DEF TypeOK, Request, Grant, Row
  <2>2. grant' \in [Code -> Grant]
    BY <1>3, <2>1 DEF SaveGrant, TypeOK
  <2>3. QED
    BY <1>3, <2>2, EndsTyped DEF SaveGrant, TypeOK
<1>4. ASSUME NEW s \in Slot, NEW c \in Code, NEW k \in Client, NEW by \in Client, ExchangeCode(s, c, k, by) PROVE TypeOK'
  <2>1. [Idle EXCEPT !.at = "spending", !.owner = grant[c].owner, !.client = k,
                     !.by = by, !.src = c, !.root = c] \in Request
    BY RowsTyped DEF Request, Place, Source, TypeOK, Grant
  <2>2. req' \in [Slot -> Request]
    BY <1>4, <2>1 DEF ExchangeCode, TypeOK
  <2>3. QED
    BY <1>4, <2>2 DEF ExchangeCode, TypeOK
<1>5. ASSUME NEW s \in Slot, NEW p \in Pair, NEW k \in Client, ExchangeRefresh(s, p, k) PROVE TypeOK'
  <2>1. [Idle EXCEPT !.at = "spending", !.owner = pair[p].owner, !.client = k,
                     !.by = pair[p].holder, !.src = p, !.root = pair[p].root] \in Request
    BY RowsTyped DEF Request, Place, Source, TypeOK, Tokens
  <2>2. req' \in [Slot -> Request]
    BY <1>5, <2>1 DEF ExchangeRefresh, TypeOK
  <2>3. QED
    BY <1>5, <2>2 DEF ExchangeRefresh, TypeOK
<1>6. ASSUME NEW s \in Slot, Spend(s) PROVE TypeOK'
  <2>1. req' \in [Slot -> Request]
    BY <1>6, MovesTyped DEF Spend, Place
  <2>2. ASSUME NEW c \in Code PROVE [grant[c] EXCEPT !.row = "dead"] \in Grant
    BY DEF TypeOK, Grant, Row
  <2>3. grant' \in [Code -> Grant]
    BY <1>6, <2>2 DEF Spend, TypeOK
  <2>4. ASSUME NEW p \in Pair PROVE [pair[p] EXCEPT !.refresh = "dead"] \in Tokens
    BY RowTyped DEF TypeOK, Row
  <2>5. pair' \in [Pair -> Tokens]
    BY <1>6, <2>4 DEF Spend, TypeOK
  <2>6. QED
    BY <1>6, <2>1, <2>3, <2>5 DEF Spend, TypeOK
<1>7. ASSUME NEW s \in Slot, CheckOwner(s) PROVE TypeOK'
  <2>1. req' \in [Slot -> Request]
    BY <1>7, MovesTyped, EndsTyped DEF CheckOwner, Place
  <2>2. QED
    BY <1>7, <2>1 DEF CheckOwner, TypeOK
<1>8. ASSUME NEW s \in Slot, NEW p \in Pair, SaveAccess(s, p) PROVE TypeOK'
  <2>1. [NoTokens EXCEPT !.access = "live", !.owner = req[s].owner,
           !.client = req[s].client, !.src = req[s].src, !.root = req[s].root] \in Tokens
    BY RowsTyped DEF TypeOK, Request, Tokens, Row
  <2>2. pair' \in [Pair -> Tokens]
    BY <1>8, <2>1 DEF SaveAccess, TypeOK
  <2>3. [req[s] EXCEPT !.at = "pairing", !.pair = p] \in Request
    BY DEF TypeOK, Request, Place
  <2>4. req' = [req EXCEPT ![s] = [req[s] EXCEPT !.at = "pairing", !.pair = p]]
    BY <1>8 DEF SaveAccess
  <2>5. req' \in [Slot -> Request]
    BY <2>3, <2>4 DEF TypeOK
  <2>6. QED
    BY <1>8, <2>2, <2>5 DEF SaveAccess, TypeOK
<1>9. ASSUME NEW s \in Slot, SaveRefresh(s) PROVE TypeOK'
  <2>1. req[s].root \in Code /\ req[s].pair \in Pair /\ req[s].by \in Client \cup {None}
    BY <1>9 DEF SaveRefresh, IInv, RequestInv, RequestOk, At, Exchanging, TypeOK, Request
  <2> DEFINE t == pair[req[s].pair]
  <2>2. t \in Tokens /\ "live" \in Row
    BY <2>1 DEF TypeOK, Row
  <2>3. [t EXCEPT !.refresh = "live"] \in Tokens
    BY <2>2, RowTyped
  <2>4. [t EXCEPT !.refresh = "live", !.holder = req[s].by] \in Tokens
    BY <2>1, <2>2 DEF Tokens
  <2>5. \/ pair' = [pair EXCEPT ![req[s].pair] = [t EXCEPT !.refresh = "live"]]
        \/ pair' = [pair EXCEPT ![req[s].pair] =
                       [t EXCEPT !.refresh = "live", !.holder = req[s].by]]
    BY <1>9, <2>1 DEF SaveRefresh, TypeOK
  <2>6. pair' \in [Pair -> Tokens]
    BY <2>1, <2>3, <2>4, <2>5 DEF TypeOK
  <2>7. hurt' \subseteq Source
    BY <1>9, <2>1 DEF SaveRefresh, Hurts, TypeOK, Source
  <2>8. QED
    BY <1>9, <2>6, <2>7, EndsTyped DEF SaveRefresh, TypeOK
<1>10. ASSUME NEW s \in Slot, RefreshFails(s) PROVE TypeOK'
  <2>1. req[s].root \in Code /\ req[s].pair \in Pair
    BY <1>10 DEF RefreshFails, IInv, RequestInv, RequestOk, At, Exchanging
  <2>2. ASSUME NEW p \in Pair PROVE [pair[p] EXCEPT !.access = "dead"] \in Tokens
    BY RowTyped DEF TypeOK, Row
  <2>3. pair' \in [Pair -> Tokens]
    BY <1>10, <2>2 DEF RefreshFails, TypeOK
  <2>4. hurt' \subseteq Source
    BY <1>10, <2>1 DEF RefreshFails, Hurts, TypeOK, Source
  <2>5. QED
    BY <1>10, <2>1, <2>3, <2>4, EndsTyped DEF RefreshFails, TypeOK
<1>11. ASSUME NEW s \in Slot, HandlerFails(s) PROVE TypeOK'
  <2>1. hurt' \subseteq Source
    BY <1>11 DEF HandlerFails, IInv, RequestInv, RequestOk, At, Exchanging, Hurts, TypeOK, Source
  <2>2. QED
    BY <1>11, <2>1, EndsTyped DEF HandlerFails, TypeOK
<1>12. ASSUME NEW s \in Slot, NEW p \in Pair, NEW part \in {"access", "refresh"}, NEW k \in Client \cup {None}, Revoke(s, p, part, k) PROVE TypeOK'
  BY <1>12, RowsTyped DEF Revoke, TypeOK, Idle, Request, Place, Tokens
<1>13. ASSUME NEW s \in Slot, SaveRevocation(s) PROVE TypeOK'
  <2>1. req[s].pair \in Pair /\ req[s].root \in Code
    BY <1>13 DEF SaveRevocation, IInv, RequestInv, RequestOk, PairInv, PairOk, At, Used
  <2>2. ASSUME NEW p \in Pair
        PROVE  /\ [pair[p] EXCEPT !.access = "dead"] \in Tokens
               /\ [pair[p] EXCEPT !.refresh = "dead"] \in Tokens
    BY RowTyped DEF TypeOK, Row
  <2>3. pair' \in [Pair -> Tokens]
    BY <1>13, <2>1, <2>2 DEF SaveRevocation, TypeOK
  <2>4. QED
    BY <1>13, <2>1, <2>3, EndsTyped DEF SaveRevocation, Hurts, TypeOK, Source
<1>14. ASSUME NEW s \in Slot, NEW p \in Pair, VerifyToken(s, p) PROVE TypeOK'
  BY <1>14, RowsTyped DEF VerifyToken, TypeOK, Idle, Request, Place, Tokens
<1>15. ASSUME NEW s \in Slot, VerifyOwner(s) PROVE TypeOK'
  <2>1. req' \in [Slot -> Request]
    BY <1>15, MovesTyped, EndsTyped DEF VerifyOwner, Place
  <2>2. QED
    BY <1>15, <2>1 DEF VerifyOwner, TypeOK
<1>16. ASSUME NEW s \in Slot, Answer(s) PROVE TypeOK'
  BY <1>16, EndsTyped DEF Answer, TypeOK
<1>17. ASSUME NEW c \in Code, ExpireCode(c) PROVE TypeOK'
  BY <1>17 DEF ExpireCode, TypeOK, Grant, Row, Source
<1>18. ASSUME NEW p \in Pair, ExpireAccess(p) PROVE TypeOK'
  BY <1>18 DEF ExpireAccess, TypeOK, Tokens, Row
<1>19. ASSUME NEW p \in Pair, ExpireRefresh(p) PROVE TypeOK'
  <2>1. pair[p].root \in Code
    BY <1>19 DEF ExpireRefresh, IInv, PairInv, PairOk
  <2>2. [pair[p] EXCEPT !.refresh = "dead"] \in Tokens
    BY RowTyped DEF TypeOK, Row
  <2>3. QED
    BY <1>19, <2>1, <2>2 DEF ExpireRefresh, TypeOK, Source
<1>20. ASSUME NEW o \in Account, RemoveAccount(o) PROVE TypeOK'
  <2>1. ASSUME NEW row \in Row PROVE Deleted(row) \in Row
    BY DEF Deleted, Row
  <2>2. ASSUME NEW c \in Code PROVE [grant[c] EXCEPT !.row = Deleted(@)] \in Grant
    BY <2>1 DEF TypeOK, Grant
  <2>3. ASSUME NEW p \in Pair
        PROVE  [pair[p] EXCEPT !.access = Deleted(@), !.refresh = Deleted(@)] \in Tokens
    BY <2>1 DEF TypeOK, Tokens
  <2>4. grant' \in [Code -> Grant] /\ pair' \in [Pair -> Tokens]
    BY <1>20, <2>2, <2>3 DEF RemoveAccount, TypeOK
  <2>5. QED
    BY <1>20, <2>4 DEF RemoveAccount, TypeOK
<1>21. ASSUME NEW o \in Account, Judge(o) PROVE TypeOK'
  BY <1>21 DEF Judge, TypeOK
<1>22. ASSUME Restart PROVE TypeOK'
  <2>1. hurt' \subseteq Source
    BY <1>22 DEF Restart, IInv, RequestInv, RequestOk, Exchanging, TypeOK, Source
  <2>2. QED
    BY <1>22, <2>1, RowsTyped DEF Restart, TypeOK
<1>23. QED
  BY <1>0, <1>1, <1>2, <1>3, <1>4, <1>5, <1>6, <1>7, <1>8, <1>9, <1>10, <1>11, <1>12, <1>13, <1>14, <1>15, <1>16, <1>17, <1>18, <1>19, <1>20, <1>21, <1>22 DEF Next, Handler

-----------------------------------------------------------------------------
\* What no step takes back: a row that was written keeps its names, and what
\* is dead stays dead.
RowsGrow ==
  /\ \A c \in Code : grant[c].row # "none" =>
       /\ grant'[c].row # "none"
       /\ grant'[c].owner = grant[c].owner
       /\ grant'[c].client = grant[c].client
       /\ grant[c].row = "dead" => grant'[c].row = "dead"
  /\ \A p \in Pair : Used(p) =>
       /\ pair'[p].access # "none"
       /\ pair'[p].owner = pair[p].owner
       /\ pair'[p].client = pair[p].client
       /\ pair'[p].src = pair[p].src
       /\ pair'[p].root = pair[p].root
       /\ pair[p].refresh # "none" => pair'[p].refresh # "none"
       /\ pair[p].refresh = "dead" => pair'[p].refresh = "dead"
       /\ pair[p].holder # None => pair'[p].holder # None

\* A handler that does not move keeps what it rests on.
LEMMA HandlerStays ==
  ASSUME IInv, RowsGrow, NEW t \in Slot, req'[t] = req[t],
         At(t, "pairing") => /\ pair'[req[t].pair].refresh = "none"
                             /\ pair'[req[t].pair].holder = None
  PROVE  RequestOk(t)'
<1>1. RequestOk(t)
  BY DEF IInv, RequestInv
<1>2. PairInv
  BY DEF IInv
<1>3. At(t, "granting") => req[t].owner \in Account /\ req[t].client \in Client
  BY <1>1 DEF RequestOk
<1>4. Exchanging(t) =>
       /\ req[t].root \in Code
       /\ Approved(req[t].root, req[t].owner, req[t].client)'
       /\ req[t].by = req[t].client
       /\ req[t].src \in Source
       /\ req[t].src \in Code => req[t].src = req[t].root
       /\ req[t].src \in Pair => /\ Used(req[t].src)'
                                 /\ pair'[req[t].src].refresh # "none"
                                 /\ pair'[req[t].src].root = req[t].root
  BY <1>1 DEF RequestOk, RowsGrow, Approved, Used
<1>5. Consumed(t) =>
       /\ req[t].src \in Code => grant'[req[t].src].row = "dead"
       /\ req[t].src \in Pair => pair'[req[t].src].refresh = "dead"
  BY <1>1 DEF RequestOk, RowsGrow, Consumed, Exchanging
<1>6. At(t, "pairing") =>
       /\ req[t].pair \in Pair
       /\ Used(req[t].pair)'
       /\ pair'[req[t].pair].owner = req[t].owner
       /\ pair'[req[t].pair].client = req[t].client
       /\ pair'[req[t].pair].root = req[t].root
       /\ pair'[req[t].pair].src = req[t].src
  BY <1>1 DEF RequestOk, RowsGrow, Used
<1>7. At(t, "revoking") =>
       /\ req[t].pair \in Pair
       /\ pair'[req[t].pair].refresh # "none"
       /\ pair'[req[t].pair].root = req[t].root
  BY <1>1, <1>2 DEF RequestOk, RowsGrow, PairInv, PairOk
<1>8. req[t].at \in {"calling", "serving"} =>
       /\ req[t].pair \in Pair
       /\ pair'[req[t].pair].holder # None
       /\ pair'[req[t].pair].owner = req[t].owner
       /\ pair'[req[t].pair].client = req[t].client
  BY <1>1, <1>2 DEF RequestOk, RowsGrow, PairInv, PairOk
<1>9. QED
  BY <1>3, <1>4, <1>5, <1>6, <1>7, <1>8 DEF RequestOk, At, Exchanging, Consumed, Approved, Used

LEMMA HandlerIdle ==
  ASSUME NEW t \in Slot, req'[t].at = "free"
  PROVE  RequestOk(t)'
BY DEF RequestOk, At, Exchanging, Consumed

\* A pair that is as it was keeps what it rests on.
LEMMA PairStays ==
  ASSUME IInv, RowsGrow, NEW p \in Pair, pair'[p] = pair[p]
  PROVE  PairOk(p)'
BY DEF IInv, PairInv, PairOk, RowsGrow, Approved, Used

LEMMA RowsUnchanged ==
  ASSUME UNCHANGED <<grant, pair>>
  PROVE  RowsGrow
BY DEF RowsGrow, Used

\* Two pairs are never completed by the same handlers.
LEMMA ApartStays ==
  ASSUME IInv, \A t \in Slot : req'[t].at = "pairing" => req'[t] = req[t]
  PROVE  ApartInv'
BY DEF IInv, ApartInv, At

Rest == GrantInv /\ PairInv /\ RequestInv /\ ApartInv /\ DoubtInv

\* A step that only moves one handler, not to "pairing".
LEMMA MoveKeeps ==
  ASSUME IInv, NEW s \in Slot, UNCHANGED <<accounts, trusted, grant, pair, doubted>>,
         \A t \in Slot : t # s => req'[t] = req[t],
         req'[s].at # "pairing", RequestOk(s)'
  PROVE  Rest' /\ RowsGrow
<1>1. RowsGrow
  BY RowsUnchanged
<1>2. \A p \in Pair : PairOk(p)'
  BY <1>1, PairStays
<1>3. \A t \in Slot : At(t, "pairing") => /\ pair'[req[t].pair].refresh = "none"
                                         /\ pair'[req[t].pair].holder = None
  BY DEF IInv, RequestInv, RequestOk
<1>4. \A t \in Slot : RequestOk(t)'
  BY <1>1, <1>3, HandlerStays
<1>5. ApartInv'
  BY ApartStays
<1>6. GrantInv' /\ DoubtInv'
  BY DEF IInv, GrantInv, DoubtInv
<1>7. QED
  BY <1>1, <1>2, <1>4, <1>5, <1>6 DEF Rest, PairInv, RequestInv

LEMMA RegisterClientKeeps ==
  ASSUME IInv, NEW k \in Client, RegisterClient(k)
  PROVE  Rest' /\ RowsGrow
<1>1. UNCHANGED <<accounts, trusted, grant, pair, req, doubted>>
  BY DEF RegisterClient
<1>2. QED
  BY <1>1, RowsUnchanged DEF IInv, Rest, GrantInv, PairInv, PairOk, RequestInv, RequestOk, ApartInv, DoubtInv,
    At, Exchanging, Consumed, Used, Approved

LEMMA ApproveAuthorizationKeeps ==
  ASSUME IInv, NEW s \in Slot, NEW o \in Account, NEW k \in Client, ApproveAuthorization(s, o, k)
  PROVE  Rest' /\ RowsGrow
<1>1. UNCHANGED <<accounts, trusted, grant, pair, doubted>>
  BY DEF ApproveAuthorization
<1>2. /\ \A t \in Slot : t # s => req'[t] = req[t]
      /\ req'[s].at = "granting" /\ req'[s].owner = o /\ req'[s].client = k
  BY DEF ApproveAuthorization, IInv, TypeOK, Idle
<1>3. RequestOk(s)'
  BY <1>1, <1>2 DEF RequestOk, At, Exchanging, Consumed
<1>4. QED
  BY <1>1, <1>2, <1>3, MoveKeeps

LEMMA ExchangeCodeKeeps ==
  ASSUME IInv, NEW s \in Slot, NEW c \in Code, NEW k \in Client, NEW by \in Client, ExchangeCode(s, c, k, by)
  PROVE  Rest' /\ RowsGrow
<1>1. UNCHANGED <<accounts, trusted, grant, pair, doubted>>
  BY DEF ExchangeCode
<1>2. /\ \A t \in Slot : t # s => req'[t] = req[t]
      /\ req'[s].at = "spending" /\ req'[s].owner = grant[c].owner /\ req'[s].client = k
      /\ req'[s].by = by /\ req'[s].src = c /\ req'[s].root = c
  BY DEF ExchangeCode, IInv, TypeOK, Idle
<1>3. RequestOk(s)'
  BY <1>1, <1>2, SourceAssumption DEF ExchangeCode, CodeAccepted, RequestOk, At, Exchanging, Consumed, Approved, Source
<1>4. QED
  BY <1>1, <1>2, <1>3, MoveKeeps

LEMMA ExchangeRefreshKeeps ==
  ASSUME IInv, NEW s \in Slot, NEW p \in Pair, NEW k \in Client, ExchangeRefresh(s, p, k)
  PROVE  Rest' /\ RowsGrow
<1>1. UNCHANGED <<accounts, trusted, grant, pair, doubted>>
  BY DEF ExchangeRefresh
<1>2. /\ \A t \in Slot : t # s => req'[t] = req[t]
      /\ req'[s].at = "spending" /\ req'[s].owner = pair[p].owner /\ req'[s].client = k
      /\ req'[s].by = pair[p].holder /\ req'[s].src = p /\ req'[s].root = pair[p].root
  BY DEF ExchangeRefresh, IInv, TypeOK, Idle
<1>3. RequestOk(s)'
  BY <1>1, <1>2, SourceAssumption DEF ExchangeRefresh, RefreshAccepted, IInv, PairInv, PairOk,
       RequestOk, At, Exchanging, Consumed, Approved, Used, Source
<1>4. QED
  BY <1>1, <1>2, <1>3, MoveKeeps

LEMMA RevokeKeeps ==
  ASSUME IInv, NEW s \in Slot, NEW p \in Pair, NEW part \in {"access", "refresh"}, NEW k \in Client \cup {None}, Revoke(s, p, part, k)
  PROVE  Rest' /\ RowsGrow
<1>1. UNCHANGED <<accounts, trusted, grant, pair, doubted>>
  BY DEF Revoke
<1>2. /\ \A t \in Slot : t # s => req'[t] = req[t]
      /\ req'[s].at = "revoking" /\ req'[s].pair = p /\ req'[s].root = pair[p].root
  BY DEF Revoke, IInv, TypeOK, Idle
<1>3. RequestOk(s)'
  BY <1>1, <1>2 DEF Revoke, IInv, PairInv, PairOk, RequestOk, At, Exchanging, Consumed
<1>4. QED
  BY <1>1, <1>2, <1>3, MoveKeeps

LEMMA VerifyTokenKeeps ==
  ASSUME IInv, NEW s \in Slot, NEW p \in Pair, VerifyToken(s, p)
  PROVE  Rest' /\ RowsGrow
<1>1. UNCHANGED <<accounts, trusted, grant, pair, doubted>>
  BY DEF VerifyToken
<1>2. /\ \A t \in Slot : t # s => req'[t] = req[t]
      /\ req'[s].at = "calling" /\ req'[s].pair = p
      /\ req'[s].owner = pair[p].owner /\ req'[s].client = pair[p].client
  BY DEF VerifyToken, IInv, TypeOK, Idle
<1>3. RequestOk(s)'
  BY <1>1, <1>2 DEF VerifyToken, RequestOk, At, Exchanging, Consumed
<1>4. QED
  BY <1>1, <1>2, <1>3, MoveKeeps

LEMMA AnswerKeeps ==
  ASSUME IInv, NEW s \in Slot, Answer(s)
  PROVE  Rest' /\ RowsGrow
<1>1. UNCHANGED <<accounts, trusted, grant, pair, doubted>>
  BY DEF Answer
<1>2. /\ \A t \in Slot : t # s => req'[t] = req[t]
      /\ req'[s].at = "free"
  BY DEF Answer, Ends, IInv, TypeOK, Idle
<1>3. RequestOk(s)'
  BY <1>2, HandlerIdle
<1>4. QED
  BY <1>1, <1>2, <1>3, MoveKeeps

LEMMA HandlerFailsKeeps ==
  ASSUME IInv, NEW s \in Slot, HandlerFails(s)
  PROVE  Rest' /\ RowsGrow
<1>1. UNCHANGED <<accounts, trusted, grant, pair, doubted>>
  BY DEF HandlerFails
<1>2. /\ \A t \in Slot : t # s => req'[t] = req[t]
      /\ req'[s].at = "free"
  BY DEF HandlerFails, Ends, IInv, TypeOK, Idle
<1>3. RequestOk(s)'
  BY <1>2, HandlerIdle
<1>4. QED
  BY <1>1, <1>2, <1>3, MoveKeeps

LEMMA CheckOwnerKeeps ==
  ASSUME IInv, NEW s \in Slot, CheckOwner(s)
  PROVE  Rest' /\ RowsGrow
<1>1. UNCHANGED <<accounts, trusted, grant, pair, doubted>>
  BY DEF CheckOwner
<1>2. /\ \A t \in Slot : t # s => req'[t] = req[t]
      /\ \/ req'[s].at = "free"
         \/ At(s, "issuing") /\ req'[s] = [req[s] EXCEPT !.at = "saving"]
      /\ req'[s].at # "pairing"
  BY DEF CheckOwner, Ends, Moves, IInv, TypeOK, Idle, Request
<1>3. RequestOk(s)'
  <2>1. CASE req'[s].at = "free"
    BY <2>1, HandlerIdle
  <2>2. ASSUME At(s, "issuing"), req'[s] = [req[s] EXCEPT !.at = "saving"] PROVE RequestOk(s)'
    <3>1. RequestOk(s) /\ req[s] \in Request
      BY DEF IInv, RequestInv, TypeOK
    <3>2. /\ req'[s].at = "saving" /\ req'[s].owner = req[s].owner /\ req'[s].client = req[s].client
          /\ req'[s].by = req[s].by /\ req'[s].src = req[s].src /\ req'[s].root = req[s].root
      BY <2>2, <3>1 DEF Request
    <3>3. QED
      BY <1>1, <2>2, <3>1, <3>2 DEF RequestOk, At, Exchanging, Consumed, Approved, Used
  <2>3. QED
    BY <1>2, <2>1, <2>2
<1>4. QED
  BY <1>1, <1>2, <1>3, MoveKeeps

LEMMA VerifyOwnerKeeps ==
  ASSUME IInv, NEW s \in Slot, VerifyOwner(s)
  PROVE  Rest' /\ RowsGrow
<1>1. UNCHANGED <<accounts, trusted, grant, pair, doubted>>
  BY DEF VerifyOwner
<1>2. /\ \A t \in Slot : t # s => req'[t] = req[t]
      /\ \/ req'[s].at = "free"
         \/ At(s, "calling") /\ req'[s] = [req[s] EXCEPT !.at = "serving"]
      /\ req'[s].at # "pairing"
  BY DEF VerifyOwner, Ends, Moves, IInv, TypeOK, Idle, Request
<1>3. RequestOk(s)'
  <2>1. CASE req'[s].at = "free"
    BY <2>1, HandlerIdle
  <2>2. ASSUME At(s, "calling"), req'[s] = [req[s] EXCEPT !.at = "serving"] PROVE RequestOk(s)'
    <3>1. RequestOk(s) /\ req[s] \in Request
      BY DEF IInv, RequestInv, TypeOK
    <3>2. /\ req'[s].at = "serving" /\ req'[s].owner = req[s].owner
          /\ req'[s].client = req[s].client /\ req'[s].pair = req[s].pair
      BY <2>2, <3>1 DEF Request
    <3>3. QED
      BY <1>1, <2>2, <3>1, <3>2 DEF RequestOk, At, Exchanging, Consumed
  <2>3. QED
    BY <1>2, <2>1, <2>2
<1>4. QED
  BY <1>1, <1>2, <1>3, MoveKeeps


\* A step of one handler that changes rows, not to "pairing".
LEMMA StepKeeps ==
  ASSUME IInv, RowsGrow, NEW s \in Slot,
         \A t \in Slot : t # s => req'[t] = req[t],
         req'[s].at # "pairing", RequestOk(s)',
         \A t \in Slot : t # s /\ At(t, "pairing") =>
           pair'[req[t].pair].refresh = "none" /\ pair'[req[t].pair].holder = None,
         \A p \in Pair : pair'[p] = pair[p] \/ PairOk(p)',
         GrantInv', UNCHANGED <<accounts, trusted, doubted>>
  PROVE  Rest'
<1>1. \A p \in Pair : PairOk(p)'
  BY PairStays
<1>2. \A t \in Slot : RequestOk(t)'
  BY HandlerStays
<1>3. ApartInv'
  BY ApartStays
<1>4. DoubtInv'
  BY DEF IInv, DoubtInv
<1>5. QED
  BY <1>1, <1>2, <1>3, <1>4 DEF Rest, PairInv, RequestInv

\* A step of no handler.
LEMMA RowsKeep ==
  ASSUME IInv, RowsGrow, UNCHANGED req,
         \A t \in Slot : At(t, "pairing") =>
           pair'[req[t].pair].refresh = "none" /\ pair'[req[t].pair].holder = None,
         \A p \in Pair : pair'[p] = pair[p] \/ PairOk(p)',
         GrantInv', DoubtInv'
  PROVE  Rest'
<1>1. \A p \in Pair : PairOk(p)'
  BY PairStays
<1>2. \A t \in Slot : RequestOk(t)'
  BY HandlerStays
<1>3. ApartInv'
  BY ApartStays
<1>4. QED
  BY <1>1, <1>2, <1>3 DEF Rest, PairInv, RequestInv

LEMMA SaveGrantKeeps ==
  ASSUME IInv, NEW s \in Slot, NEW c \in Code, SaveGrant(s, c)
  PROVE  Rest' /\ RowsGrow
<1>1. UNCHANGED <<accounts, trusted, pair, doubted>> /\ grant[c].row = "none"
  BY DEF SaveGrant
<1>2. /\ \A d \in Code : d # c => grant'[d] = grant[d]
      /\ grant'[c] = [row |-> "live", owner |-> req[s].owner, client |-> req[s].client]
  BY DEF SaveGrant, IInv, TypeOK
<1>3. /\ \A t \in Slot : t # s => req'[t] = req[t]
      /\ req'[s].at = "free"
  BY DEF SaveGrant, Ends, IInv, TypeOK, Idle
<1>4. RowsGrow
  BY <1>1, <1>2 DEF RowsGrow, Used
<1>5. GrantInv'
  <2>1. req[s].owner \in Account /\ req[s].client \in Client
    BY DEF SaveGrant, IInv, RequestInv, RequestOk
  <2>2. QED
    BY <1>2, <2>1 DEF IInv, GrantInv
<1>6. \A t \in Slot : At(t, "pairing") =>
        pair'[req[t].pair].refresh = "none" /\ pair'[req[t].pair].holder = None
  BY <1>1 DEF IInv, RequestInv, RequestOk
<1>7. RequestOk(s)'
  BY <1>3, HandlerIdle
<1>8. QED
  BY <1>1, <1>3, <1>4, <1>5, <1>6, <1>7, StepKeeps

LEMMA SpendKeeps ==
  ASSUME IInv, NEW s \in Slot, Spend(s)
  PROVE  Rest' /\ RowsGrow
<1> DEFINE x == req[s].src
<1>1. UNCHANGED <<accounts, trusted, doubted>>
  BY DEF Spend
<1>2. /\ RequestOk(s) /\ At(s, "spending") /\ x \in Source /\ req[s] \in Request
  BY DEF Spend, IInv, RequestInv, RequestOk, TypeOK, At, Exchanging
<1>3. /\ \A t \in Slot : t # s => req'[t] = req[t]
      /\ req'[s] = [req[s] EXCEPT !.at = "issuing"]
  BY DEF Spend, Moves, IInv, TypeOK
<1>4. /\ \A c \in Code : IF c = x
                          THEN /\ grant'[c].row = "dead"
                               /\ grant'[c].owner = grant[c].owner
                               /\ grant'[c].client = grant[c].client
                          ELSE grant'[c] = grant[c]
      /\ \A p \in Pair : IF p = x THEN pair'[p] = [pair[p] EXCEPT !.refresh = "dead"]
                                   ELSE pair'[p] = pair[p]
  BY SourceAssumption DEF Spend, IInv, TypeOK, Grant
<1>5. ASSUME NEW p \in Pair, p = x
      PROVE  /\ Used(p) /\ pair'[p].refresh = "dead" /\ pair[p].refresh # "none"
             /\ pair'[p].access = pair[p].access /\ pair'[p].owner = pair[p].owner
             /\ pair'[p].client = pair[p].client /\ pair'[p].src = pair[p].src
             /\ pair'[p].root = pair[p].root /\ pair'[p].holder = pair[p].holder
  <2>1. Used(p) /\ pair[p].refresh # "none"
    BY <1>2, <1>5 DEF RequestOk, At, Exchanging
  <2>2. pair[p] \in Tokens /\ pair'[p] = [pair[p] EXCEPT !.refresh = "dead"]
    BY <1>4, <1>5 DEF IInv, TypeOK
  <2>3. QED
    BY <2>1, <2>2 DEF Tokens
<1>6. RowsGrow
  <2>1. ASSUME NEW p \in Pair, Used(p), p # x PROVE pair'[p] = pair[p]
    BY <1>4, <2>1
  <2>2. QED
    BY <1>4, <1>5, <2>1 DEF RowsGrow, Used
<1>7. GrantInv'
  BY <1>2, <1>4 DEF IInv, GrantInv, RequestOk, At, Exchanging, Approved
<1>8. \A p \in Pair : pair'[p] = pair[p] \/ PairOk(p)'
  <2>1. ASSUME NEW p \in Pair, p = x PROVE PairOk(p)'
    BY <1>5, <1>6, <2>1 DEF IInv, PairInv, PairOk, RowsGrow, Approved, Used
  <2>2. QED
    BY <1>4, <2>1
<1>9. \A t \in Slot : t # s /\ At(t, "pairing") =>
        pair'[req[t].pair].refresh = "none" /\ pair'[req[t].pair].holder = None
  <2>1. ASSUME NEW t \in Slot, At(t, "pairing") 
        PROVE  /\ req[t].pair \in Pair /\ req[t].pair # x
               /\ pair[req[t].pair].refresh = "none" /\ pair[req[t].pair].holder = None
    BY <1>5, <2>1 DEF IInv, RequestInv, RequestOk
  <2>2. QED
    BY <1>4, <2>1
<1>10. /\ req'[s].at = "issuing" /\ req'[s].owner = req[s].owner
       /\ req'[s].client = req[s].client /\ req'[s].by = req[s].by
       /\ req'[s].src = req[s].src /\ req'[s].root = req[s].root
  BY <1>2, <1>3 DEF Request
<1>11. RequestOk(s)'
  BY <1>2, <1>4, <1>5, <1>6, <1>10
    DEF RequestOk, At, Exchanging, Consumed, Approved, RowsGrow, Used
<1>12. QED
  BY <1>1, <1>3, <1>6, <1>7, <1>8, <1>9, <1>10, <1>11, StepKeeps


LEMMA SaveAccessKeeps ==
  ASSUME IInv, NEW s \in Slot, NEW p \in Pair, SaveAccess(s, p)
  PROVE  Rest' /\ RowsGrow
<1>1. UNCHANGED <<accounts, trusted, grant, doubted>> /\ At(s, "saving") /\ ~Used(p)
  BY DEF SaveAccess, Used
<1>2. RequestOk(s) /\ PairOk(p) /\ req[s] \in Request
  BY DEF IInv, RequestInv, PairInv, TypeOK
<1>3. /\ \A q \in Pair : q # p => pair'[q] = pair[q]
      /\ pair'[p].access = "live" /\ pair'[p].refresh = "none" /\ pair'[p].holder = None
      /\ pair'[p].owner = req[s].owner /\ pair'[p].client = req[s].client
      /\ pair'[p].src = req[s].src /\ pair'[p].root = req[s].root
  BY DEF SaveAccess, IInv, TypeOK, NoTokens
<1>4. req' = [req EXCEPT ![s] = [req[s] EXCEPT !.at = "pairing", !.pair = p]]
  BY DEF SaveAccess
<1>5. /\ \A t \in Slot : t # s => req'[t] = req[t]
      /\ req'[s] = [req[s] EXCEPT !.at = "pairing", !.pair = p]
  BY <1>4 DEF IInv, TypeOK
<1>6. /\ req'[s].at = "pairing" /\ req'[s].pair = p /\ req'[s].owner = req[s].owner
      /\ req'[s].client = req[s].client /\ req'[s].by = req[s].by
      /\ req'[s].src = req[s].src /\ req'[s].root = req[s].root
  BY <1>2, <1>5 DEF Request
<1>7. RowsGrow
  BY <1>1, <1>3 DEF RowsGrow, Used
<1>8. ASSUME NEW t \in Slot, At(t, "pairing")
      PROVE  /\ req[t].pair \in Pair /\ req[t].pair # p
             /\ pair'[req[t].pair].refresh = "none" /\ pair'[req[t].pair].holder = None
  <2>1. /\ req[t].pair \in Pair /\ Used(req[t].pair)
        /\ pair[req[t].pair].refresh = "none" /\ pair[req[t].pair].holder = None
    BY <1>8 DEF IInv, RequestInv, RequestOk
  <2>2. QED
    BY <1>1, <1>3, <2>1
<1>9. ASSUME NEW t \in Slot PROVE RequestOk(t)'
  <2>1. CASE t # s
    BY <1>5, <1>7, <1>8, <2>1, HandlerStays
  <2>2. CASE t = s
    BY <1>1, <1>2, <1>3, <1>6, <1>7, <2>2
      DEF RequestOk, At, Exchanging, Consumed, Approved, RowsGrow, Used
  <2>3. QED
    BY <2>1, <2>2
<1>10. ASSUME NEW q \in Pair PROVE PairOk(q)'
  <2>1. CASE q # p
    BY <1>3, <1>7, <2>1, PairStays
  <2>2. CASE q = p
    <3>1. /\ req[s].root \in Code /\ Approved(req[s].root, req[s].owner, req[s].client)
          /\ req[s].src \in Source
      BY <1>1, <1>2 DEF RequestOk, At, Exchanging
    <3>2. grant[req[s].root].row = "dead"
      <4>1. CASE req[s].src \in Code
        BY <1>1, <1>2, <4>1 DEF RequestOk, At, Exchanging, Consumed
      <4>2. CASE req[s].src \in Pair
        BY <1>1, <1>2, <4>2 DEF RequestOk, At, Exchanging, IInv, PairInv, PairOk
      <4>3. QED
        BY <3>1, <4>1, <4>2 DEF Source
    <3>3. QED
      BY <1>1, <1>3, <2>2, <3>1, <3>2 DEF PairOk, Used, Approved
  <2>3. QED
    BY <2>1, <2>2
<1>11. ApartInv'
  <2>1. ASSUME NEW t \in Slot, NEW u \in Slot, t # u, At(t, "pairing")', At(u, "pairing")'
        PROVE  req'[t].pair # req'[u].pair
    <3>1. CASE t = s
      BY <1>5, <1>6, <1>8, <2>1, <3>1 DEF At
    <3>2. CASE u = s
      BY <1>5, <1>6, <1>8, <2>1, <3>2 DEF At
    <3>3. CASE t # s /\ u # s
      BY <1>5, <2>1, <3>3 DEF IInv, ApartInv, At
    <3>4. QED
      BY <3>1, <3>2, <3>3
  <2>2. QED
    BY <2>1 DEF ApartInv
<1>12. GrantInv' /\ DoubtInv'
  BY <1>1 DEF IInv, GrantInv, DoubtInv
<1>13. QED
  BY <1>7, <1>9, <1>10, <1>11, <1>12 DEF Rest, RequestInv, PairInv

LEMMA SaveRefreshKeeps ==
  ASSUME IInv, NEW s \in Slot, SaveRefresh(s)
  PROVE  Rest' /\ RowsGrow
<1>1. UNCHANGED <<accounts, trusted, grant, doubted>> /\ At(s, "pairing")
  BY DEF SaveRefresh
<1> PICK p \in Pair : p = req[s].pair
  BY <1>1 DEF IInv, RequestInv, RequestOk
<1>2. RequestOk(s) /\ Used(p) /\ pair[p].refresh = "none" /\ pair[p].holder = None
  BY <1>1 DEF IInv, RequestInv, RequestOk
<1>3. PairOk(p) /\ pair[p] \in Tokens
  BY <1>2 DEF IInv, PairInv, TypeOK
<1>4. /\ \A t \in Slot : t # s => req'[t] = req[t]
      /\ req'[s].at = "free"
  BY DEF SaveRefresh, Ends, IInv, TypeOK, Idle
<1>5. \A q \in Pair : q # p => pair'[q] = pair[q]
  BY DEF SaveRefresh, IInv, TypeOK
<1>6. /\ pair'[p].access = pair[p].access /\ pair'[p].owner = pair[p].owner
      /\ pair'[p].client = pair[p].client /\ pair'[p].src = pair[p].src
      /\ pair'[p].root = pair[p].root /\ pair'[p].refresh = "live"
      /\ pair'[p].holder \in {None, req[s].by}
  <2>1. \/ pair'[p] = [pair[p] EXCEPT !.refresh = "live"]
        \/ pair'[p] = [pair[p] EXCEPT !.refresh = "live", !.holder = req[s].by]
    BY <1>2 DEF SaveRefresh, IInv, TypeOK
  <2>2. QED
    BY <1>2, <1>3, <2>1 DEF Tokens
<1>7. RowsGrow
  BY <1>1, <1>2, <1>5, <1>6 DEF RowsGrow, Used
<1>8. PairOk(p)'
  <2>1. req[s].by = pair[p].client
    BY <1>1, <1>2 DEF RequestOk, At, Exchanging
  <2>2. QED
    BY <1>1, <1>2, <1>3, <1>6, <2>1 DEF PairOk, Used, Approved
<1>9. \A t \in Slot : t # s /\ At(t, "pairing") =>
        pair'[req[t].pair].refresh = "none" /\ pair'[req[t].pair].holder = None
  <2>1. ASSUME NEW t \in Slot, t # s, At(t, "pairing")
        PROVE  /\ req[t].pair \in Pair /\ req[t].pair # p
               /\ pair[req[t].pair].refresh = "none" /\ pair[req[t].pair].holder = None
    BY <1>1, <2>1 DEF IInv, RequestInv, RequestOk, ApartInv
  <2>2. QED
    BY <1>5, <2>1
<1>10. RequestOk(s)'
  BY <1>4, HandlerIdle
<1>11. GrantInv'
  BY <1>1 DEF IInv, GrantInv
<1>12. QED
  BY <1>1, <1>4, <1>5, <1>7, <1>8, <1>9, <1>10, <1>11, StepKeeps

LEMMA RefreshFailsKeeps ==
  ASSUME IInv, NEW s \in Slot, RefreshFails(s)
  PROVE  Rest' /\ RowsGrow
<1>1. UNCHANGED <<accounts, trusted, grant, doubted>> /\ At(s, "pairing")
  BY DEF RefreshFails
<1> PICK p \in Pair : p = req[s].pair
  BY <1>1 DEF IInv, RequestInv, RequestOk
<1>2. RequestOk(s) /\ Used(p) /\ PairOk(p) /\ pair[p] \in Tokens
  BY <1>1 DEF IInv, RequestInv, RequestOk, PairInv, PairOk, TypeOK
<1>3. /\ \A t \in Slot : t # s => req'[t] = req[t]
      /\ req'[s].at = "free"
  BY DEF RefreshFails, Ends, IInv, TypeOK, Idle
<1>4. \A q \in Pair : q # p => pair'[q] = pair[q]
  BY DEF RefreshFails, IInv, TypeOK
<1>5. pair'[p] \in {pair[p], [pair[p] EXCEPT !.access = "dead"]}
  BY <1>2 DEF RefreshFails, IInv, TypeOK
<1>6. /\ pair'[p].access # "none" /\ pair'[p].owner = pair[p].owner
      /\ pair'[p].client = pair[p].client /\ pair'[p].src = pair[p].src
      /\ pair'[p].root = pair[p].root /\ pair'[p].holder = pair[p].holder
      /\ pair[p].refresh # "none" => pair'[p].refresh # "none"
      /\ pair[p].refresh = "dead" => pair'[p].refresh = "dead"
      /\ pair[p].refresh = "none" => pair'[p].refresh = "none"
  BY <1>1, <1>2, <1>5 DEF Tokens, Used, RequestOk
<1>7. RowsGrow
  BY <1>1, <1>2, <1>4, <1>6 DEF RowsGrow, Used
<1>8. PairOk(p)'
  BY <1>1, <1>2, <1>6 DEF PairOk, Used, Approved
<1>9. \A t \in Slot : At(t, "pairing") =>
        pair'[req[t].pair].refresh = "none" /\ pair'[req[t].pair].holder = None
  <2>1. ASSUME NEW t \in Slot, At(t, "pairing")
        PROVE  /\ req[t].pair \in Pair
               /\ pair[req[t].pair].refresh = "none" /\ pair[req[t].pair].holder = None
    BY <2>1 DEF IInv, RequestInv, RequestOk
  <2>2. QED
    BY <1>4, <1>6, <2>1
<1>10. RequestOk(s)'
  BY <1>3, HandlerIdle
<1>11. GrantInv'
  BY <1>1 DEF IInv, GrantInv
<1>12. QED
  BY <1>1, <1>3, <1>4, <1>7, <1>8, <1>9, <1>10, <1>11, StepKeeps

LEMMA SaveRevocationKeeps ==
  ASSUME IInv, NEW s \in Slot, SaveRevocation(s)
  PROVE  Rest' /\ RowsGrow
<1>1. UNCHANGED <<accounts, trusted, grant, doubted>> /\ At(s, "revoking")
  BY DEF SaveRevocation
<1> PICK p \in Pair : p = req[s].pair
  BY <1>1 DEF IInv, RequestInv, RequestOk
<1>2. RequestOk(s) /\ Used(p) /\ PairOk(p) /\ pair[p] \in Tokens
  BY <1>1 DEF IInv, RequestInv, RequestOk, PairInv, PairOk, TypeOK
<1>3. /\ \A t \in Slot : t # s => req'[t] = req[t]
      /\ req'[s].at = "free"
  BY DEF SaveRevocation, Ends, IInv, TypeOK, Idle
<1>4. \A q \in Pair : q # p => pair'[q] = pair[q]
  BY DEF SaveRevocation, IInv, TypeOK
<1>5. pair'[p] \in {pair[p], [pair[p] EXCEPT !.access = "dead"],
                   [pair[p] EXCEPT !.refresh = "dead"]}
  BY <1>2 DEF SaveRevocation, IInv, TypeOK
<1>6. /\ pair'[p].access # "none" /\ pair'[p].owner = pair[p].owner
      /\ pair'[p].client = pair[p].client /\ pair'[p].src = pair[p].src
      /\ pair'[p].root = pair[p].root /\ pair'[p].holder = pair[p].holder
      /\ pair[p].refresh # "none" => pair'[p].refresh # "none"
      /\ pair[p].refresh = "dead" => pair'[p].refresh = "dead"
      /\ pair[p].refresh = "none" => pair'[p].refresh = "none"
  BY <1>1, <1>2, <1>5 DEF Tokens, Used, RequestOk
<1>7. RowsGrow
  BY <1>1, <1>2, <1>4, <1>6 DEF RowsGrow, Used
<1>8. PairOk(p)'
  BY <1>1, <1>2, <1>6 DEF PairOk, Used, Approved
<1>9. \A t \in Slot : At(t, "pairing") =>
        pair'[req[t].pair].refresh = "none" /\ pair'[req[t].pair].holder = None
  <2>1. ASSUME NEW t \in Slot, At(t, "pairing")
        PROVE  /\ req[t].pair \in Pair
               /\ pair[req[t].pair].refresh = "none" /\ pair[req[t].pair].holder = None
    BY <2>1 DEF IInv, RequestInv, RequestOk
  <2>2. QED
    BY <1>4, <1>6, <2>1
<1>10. RequestOk(s)'
  BY <1>3, HandlerIdle
<1>11. GrantInv'
  BY <1>1 DEF IInv, GrantInv
<1>12. QED
  BY <1>1, <1>3, <1>4, <1>7, <1>8, <1>9, <1>10, <1>11, StepKeeps

LEMMA ExpireAccessKeeps ==
  ASSUME IInv, NEW p \in Pair, ExpireAccess(p)
  PROVE  Rest' /\ RowsGrow
<1>1. UNCHANGED <<accounts, trusted, grant, doubted, req>> /\ Used(p)
  BY DEF ExpireAccess, Used
<1>2. PairOk(p) /\ pair[p] \in Tokens
  BY DEF IInv, PairInv, TypeOK
<1>3. \A q \in Pair : q # p => pair'[q] = pair[q]
  BY DEF ExpireAccess, IInv, TypeOK
<1>4. pair'[p] = [pair[p] EXCEPT !.access = "dead"]
  BY DEF ExpireAccess, IInv, TypeOK
<1>5. /\ pair'[p].access # "none" /\ pair'[p].owner = pair[p].owner
      /\ pair'[p].client = pair[p].client /\ pair'[p].src = pair[p].src
      /\ pair'[p].root = pair[p].root /\ pair'[p].holder = pair[p].holder
      /\ pair[p].refresh # "none" => pair'[p].refresh # "none"
      /\ pair[p].refresh = "dead" => pair'[p].refresh = "dead"
      /\ pair[p].refresh = "none" => pair'[p].refresh = "none"
  BY <1>1, <1>2, <1>4 DEF ExpireAccess, Tokens, Used
<1>6. RowsGrow
  BY <1>1, <1>3, <1>5 DEF RowsGrow, Used
<1>7. PairOk(p)'
  BY <1>1, <1>2, <1>5 DEF PairOk, Used, Approved
<1>8. \A t \in Slot : At(t, "pairing") =>
        pair'[req[t].pair].refresh = "none" /\ pair'[req[t].pair].holder = None
  <2>1. ASSUME NEW t \in Slot, At(t, "pairing")
        PROVE  /\ req[t].pair \in Pair
               /\ pair[req[t].pair].refresh = "none" /\ pair[req[t].pair].holder = None
    BY <2>1 DEF IInv, RequestInv, RequestOk
  <2>2. QED
    BY <1>3, <1>5, <2>1
<1>9. GrantInv' /\ DoubtInv'
  BY <1>1 DEF IInv, GrantInv, DoubtInv
<1>10. QED
  BY <1>1, <1>3, <1>6, <1>7, <1>8, <1>9, RowsKeep

LEMMA ExpireRefreshKeeps ==
  ASSUME IInv, NEW p \in Pair, ExpireRefresh(p)
  PROVE  Rest' /\ RowsGrow
<1>1. UNCHANGED <<accounts, trusted, grant, doubted, req>> /\ Used(p)
  BY DEF ExpireRefresh, IInv, PairInv, PairOk
<1>2. PairOk(p) /\ pair[p] \in Tokens
  BY DEF IInv, PairInv, TypeOK
<1>3. \A q \in Pair : q # p => pair'[q] = pair[q]
  BY DEF ExpireRefresh, IInv, TypeOK
<1>4. pair'[p] = [pair[p] EXCEPT !.refresh = "dead"]
  BY DEF ExpireRefresh, IInv, TypeOK
<1>5. /\ pair'[p].access # "none" /\ pair'[p].owner = pair[p].owner
      /\ pair'[p].client = pair[p].client /\ pair'[p].src = pair[p].src
      /\ pair'[p].root = pair[p].root /\ pair'[p].holder = pair[p].holder
      /\ pair[p].refresh # "none" => pair'[p].refresh # "none"
      /\ pair[p].refresh = "dead" => pair'[p].refresh = "dead"
      /\ pair[p].refresh = "none" => pair'[p].refresh = "none"
  BY <1>1, <1>2, <1>4 DEF ExpireRefresh, Tokens, Used
<1>6. RowsGrow
  BY <1>1, <1>3, <1>5 DEF RowsGrow, Used
<1>7. PairOk(p)'
  BY <1>1, <1>2, <1>5 DEF PairOk, Used, Approved
<1>8. \A t \in Slot : At(t, "pairing") =>
        pair'[req[t].pair].refresh = "none" /\ pair'[req[t].pair].holder = None
  <2>1. ASSUME NEW t \in Slot, At(t, "pairing")
        PROVE  /\ req[t].pair \in Pair
               /\ pair[req[t].pair].refresh = "none" /\ pair[req[t].pair].holder = None
    BY <2>1 DEF IInv, RequestInv, RequestOk
  <2>2. QED
    BY <1>3, <1>5, <2>1
<1>9. GrantInv' /\ DoubtInv'
  BY <1>1 DEF IInv, GrantInv, DoubtInv
<1>10. QED
  BY <1>1, <1>3, <1>6, <1>7, <1>8, <1>9, RowsKeep

LEMMA ExpireCodeKeeps ==
  ASSUME IInv, NEW c \in Code, ExpireCode(c)
  PROVE  Rest' /\ RowsGrow
<1>1. UNCHANGED <<accounts, trusted, pair, doubted, req>> /\ grant[c].row = "live"
  BY DEF ExpireCode
<1>2. /\ \A d \in Code : d # c => grant'[d] = grant[d]
      /\ grant'[c].row = "dead" /\ grant'[c].owner = grant[c].owner
      /\ grant'[c].client = grant[c].client
  BY DEF ExpireCode, IInv, TypeOK, Grant
<1>3. RowsGrow
  BY <1>1, <1>2 DEF RowsGrow, Used
<1>4. GrantInv' /\ DoubtInv'
  BY <1>1, <1>2 DEF IInv, GrantInv, DoubtInv
<1>5. \A t \in Slot : At(t, "pairing") =>
        pair'[req[t].pair].refresh = "none" /\ pair'[req[t].pair].holder = None
  BY <1>1 DEF IInv, RequestInv, RequestOk
<1>6. QED
  BY <1>1, <1>3, <1>4, <1>5, RowsKeep

LEMMA RemoveAccountKeeps ==
  ASSUME IInv, NEW o \in Account, RemoveAccount(o)
  PROVE  Rest' /\ RowsGrow
<1>1. UNCHANGED <<trusted, req>>
  BY DEF RemoveAccount
<1>2. ASSUME NEW c \in Code
      PROVE  /\ grant'[c].owner = grant[c].owner /\ grant'[c].client = grant[c].client
             /\ grant[c].row # "none" <=> grant'[c].row # "none"
             /\ grant[c].row = "dead" => grant'[c].row = "dead"
  <2>1. grant[c] \in Grant
    BY DEF IInv, TypeOK
  <2>2. grant'[c] \in {grant[c], [grant[c] EXCEPT !.row = Deleted(@)]}
    BY DEF RemoveAccount
  <2>3. QED
    BY <2>1, <2>2 DEF Grant, Deleted
<1>3. ASSUME NEW p \in Pair
      PROVE  /\ pair'[p].owner = pair[p].owner /\ pair'[p].client = pair[p].client
             /\ pair'[p].src = pair[p].src /\ pair'[p].root = pair[p].root
             /\ pair'[p].holder = pair[p].holder
             /\ pair[p].access # "none" <=> pair'[p].access # "none"
             /\ pair[p].refresh # "none" <=> pair'[p].refresh # "none"
             /\ pair[p].refresh = "dead" => pair'[p].refresh = "dead"
  <2>1. pair[p] \in Tokens
    BY DEF IInv, TypeOK
  <2>2. pair'[p] \in {pair[p], [pair[p] EXCEPT !.access = Deleted(@), !.refresh = Deleted(@)]}
    BY DEF RemoveAccount
  <2>3. QED
    BY <2>1, <2>2 DEF Tokens, Deleted
<1>4. RowsGrow
  BY <1>2, <1>3 DEF RowsGrow, Used
<1>5. GrantInv'
  BY <1>2 DEF IInv, GrantInv
<1>6. DoubtInv'
  BY <1>1 DEF RemoveAccount, IInv, DoubtInv
<1>7. ASSUME NEW p \in Pair PROVE PairOk(p)'
  BY <1>2, <1>3, <1>4 DEF IInv, PairInv, PairOk, RowsGrow, Used, Approved
<1>8. \A t \in Slot : At(t, "pairing") =>
        pair'[req[t].pair].refresh = "none" /\ pair'[req[t].pair].holder = None
  BY <1>3 DEF IInv, RequestInv, RequestOk
<1>9. QED
  BY <1>1, <1>4, <1>5, <1>6, <1>7, <1>8, RowsKeep

LEMMA JudgeKeeps ==
  ASSUME IInv, NEW o \in Account, Judge(o)
  PROVE  Rest' /\ RowsGrow
<1>1. UNCHANGED <<accounts, grant, pair, req>>
  BY DEF Judge
<1>2. DoubtInv'
  BY DEF Judge, IInv, DoubtInv
<1>3. QED
  BY <1>1, <1>2, RowsUnchanged DEF IInv, Rest, GrantInv, PairInv, PairOk, RequestInv, RequestOk, ApartInv,
    At, Exchanging, Consumed, Used, Approved

LEMMA RestartKeeps ==
  ASSUME IInv, Restart
  PROVE  Rest' /\ RowsGrow
<1>1. UNCHANGED <<accounts, trusted, grant, pair, doubted>>
  BY DEF Restart
<1>2. \A t \in Slot : req'[t].at = "free"
  BY DEF Restart, Idle
<1>3. GrantInv' /\ DoubtInv'
  BY <1>1 DEF IInv, GrantInv, DoubtInv
<1>4. \A p \in Pair : PairOk(p)'
  BY <1>1, RowsUnchanged, PairStays
<1>5. \A t \in Slot : RequestOk(t)'
  BY <1>2, HandlerIdle
<1>6. ApartInv'
  BY <1>2 DEF ApartInv, At
<1>7. QED
  BY <1>1, <1>3, <1>4, <1>5, <1>6, RowsUnchanged DEF Rest, PairInv, RequestInv

LEMMA InvInit == Init => IInv
<1> SUFFICES ASSUME Init PROVE IInv
  OBVIOUS
<1>1. TypeOK
  BY InitTypeOK
<1>2. GrantInv /\ PairInv /\ RequestInv /\ ApartInv /\ DoubtInv
  BY DEF Init, NoGrant, NoTokens, Idle, GrantInv, PairInv, PairOk, RequestInv, RequestOk,
    ApartInv, DoubtInv, At, Exchanging, Consumed, Used
<1>3. QED
  BY <1>1, <1>2 DEF IInv

LEMMA NextKeeps ==
  ASSUME IInv, Next
  PROVE  Rest' /\ RowsGrow
<1>1. ASSUME NEW k \in Client, RegisterClient(k) PROVE Rest' /\ RowsGrow
  BY <1>1, RegisterClientKeeps
<1>2. ASSUME NEW s \in Slot, NEW o \in Account, NEW k \in Client, ApproveAuthorization(s, o, k) PROVE Rest' /\ RowsGrow
  BY <1>2, ApproveAuthorizationKeeps
<1>3. ASSUME NEW s \in Slot, NEW c \in Code, SaveGrant(s, c) PROVE Rest' /\ RowsGrow
  BY <1>3, SaveGrantKeeps
<1>4. ASSUME NEW s \in Slot, NEW c \in Code, NEW k \in Client, NEW by \in Client, ExchangeCode(s, c, k, by) PROVE Rest' /\ RowsGrow
  BY <1>4, ExchangeCodeKeeps
<1>5. ASSUME NEW s \in Slot, NEW p \in Pair, NEW k \in Client, ExchangeRefresh(s, p, k) PROVE Rest' /\ RowsGrow
  BY <1>5, ExchangeRefreshKeeps
<1>6. ASSUME NEW s \in Slot, Spend(s) PROVE Rest' /\ RowsGrow
  BY <1>6, SpendKeeps
<1>7. ASSUME NEW s \in Slot, CheckOwner(s) PROVE Rest' /\ RowsGrow
  BY <1>7, CheckOwnerKeeps
<1>8. ASSUME NEW s \in Slot, NEW p \in Pair, SaveAccess(s, p) PROVE Rest' /\ RowsGrow
  BY <1>8, SaveAccessKeeps
<1>9. ASSUME NEW s \in Slot, SaveRefresh(s) PROVE Rest' /\ RowsGrow
  BY <1>9, SaveRefreshKeeps
<1>10. ASSUME NEW s \in Slot, RefreshFails(s) PROVE Rest' /\ RowsGrow
  BY <1>10, RefreshFailsKeeps
<1>11. ASSUME NEW s \in Slot, HandlerFails(s) PROVE Rest' /\ RowsGrow
  BY <1>11, HandlerFailsKeeps
<1>12. ASSUME NEW s \in Slot, NEW p \in Pair, NEW part \in {"access", "refresh"}, NEW k \in Client \cup {None}, Revoke(s, p, part, k) PROVE Rest' /\ RowsGrow
  BY <1>12, RevokeKeeps
<1>13. ASSUME NEW s \in Slot, SaveRevocation(s) PROVE Rest' /\ RowsGrow
  BY <1>13, SaveRevocationKeeps
<1>14. ASSUME NEW s \in Slot, NEW p \in Pair, VerifyToken(s, p) PROVE Rest' /\ RowsGrow
  BY <1>14, VerifyTokenKeeps
<1>15. ASSUME NEW s \in Slot, VerifyOwner(s) PROVE Rest' /\ RowsGrow
  BY <1>15, VerifyOwnerKeeps
<1>16. ASSUME NEW s \in Slot, Answer(s) PROVE Rest' /\ RowsGrow
  BY <1>16, AnswerKeeps
<1>17. ASSUME NEW c \in Code, ExpireCode(c) PROVE Rest' /\ RowsGrow
  BY <1>17, ExpireCodeKeeps
<1>18. ASSUME NEW p \in Pair, ExpireAccess(p) PROVE Rest' /\ RowsGrow
  BY <1>18, ExpireAccessKeeps
<1>19. ASSUME NEW p \in Pair, ExpireRefresh(p) PROVE Rest' /\ RowsGrow
  BY <1>19, ExpireRefreshKeeps
<1>20. ASSUME NEW o \in Account, RemoveAccount(o) PROVE Rest' /\ RowsGrow
  BY <1>20, RemoveAccountKeeps
<1>21. ASSUME NEW o \in Account, Judge(o) PROVE Rest' /\ RowsGrow
  BY <1>21, JudgeKeeps
<1>22. CASE Restart
  BY <1>22, RestartKeeps
<1>23. QED
  BY <1>1, <1>2, <1>3, <1>4, <1>5, <1>6, <1>7, <1>8, <1>9, <1>10, <1>11, <1>12, <1>13, <1>14, <1>15, <1>16, <1>17, <1>18, <1>19, <1>20, <1>21, <1>22 DEF Next, Handler

LEMMA InvNext == IInv /\ [Next]_vars => IInv'
<1> SUFFICES ASSUME IInv, [Next]_vars PROVE IInv'
  OBVIOUS
<1>1. TypeOK'
  BY NextTypeOK
<1>2. CASE UNCHANGED vars
  BY <1>2 DEF vars, IInv, TypeOK, GrantInv, PairInv, PairOk, RequestInv, RequestOk, ApartInv,
    DoubtInv, At, Exchanging, Consumed, Used, Approved
<1>3. CASE Next
  BY <1>1, <1>3, NextKeeps DEF Rest, IInv
<1>4. QED
  BY <1>2, <1>3

\* Codes, tokens and handlers keep their types, and each leads back to what an
\* owner approved, for any number of accounts, clients, codes and requests.
THEOREM InvariantHolds == Spec => []IInv
BY InvInit, InvNext, PTL DEF Spec

-----------------------------------------------------------------------------
\* Where an exchange and where a pair comes from: of a code or a refresh token
\* that is not spent, and of an exchange.
Flow ==
  /\ \A t \in Slot : Exchanging(t)' =>
       \/ Exchanging(t) /\ req'[t].src = req[t].src /\ req'[t].root = req[t].root
       \/ \E c \in Code : req'[t].src = c /\ req'[t].root = c /\ grant[c].row = "live"
       \/ \E p \in Pair : /\ req'[t].src = p /\ req'[t].root = pair[p].root
                          /\ Used(p) /\ pair[p].refresh = "live"
  /\ \A p \in Pair : Used(p)' =>
       \/ Used(p)
       \/ \E t \in Slot : /\ Exchanging(t) /\ pair'[p].src = req[t].src
                          /\ pair'[p].root = req[t].root

LEMMA NextFlows ==
  ASSUME IInv, Next
  PROVE  Flow
<1>1. ASSUME NEW k \in Client, RegisterClient(k) PROVE Flow
  BY <1>1 DEF RegisterClient, Flow, Exchanging, Used
<1>2. ASSUME NEW s \in Slot, NEW o \in Account, NEW k \in Client, ApproveAuthorization(s, o, k) PROVE Flow
  BY <1>2 DEF ApproveAuthorization, IInv, TypeOK, Flow, Exchanging, Used, Idle, Moves, Ends, Tokens, Request, At
<1>3. ASSUME NEW s \in Slot, NEW c \in Code, SaveGrant(s, c) PROVE Flow
  BY <1>3 DEF SaveGrant, IInv, TypeOK, Flow, Exchanging, Used, Idle, Moves, Ends, Tokens, Request, At
<1>4. ASSUME NEW s \in Slot, NEW c \in Code, NEW k \in Client, NEW by \in Client, ExchangeCode(s, c, k, by) PROVE Flow
  BY <1>4 DEF ExchangeCode, CodeAccepted, IInv, TypeOK, Flow, Exchanging, Used, Idle, Moves, Ends, Tokens, Request, At
<1>5. ASSUME NEW s \in Slot, NEW p \in Pair, NEW k \in Client, ExchangeRefresh(s, p, k) PROVE Flow
  <2>1. Used(p) /\ pair[p].refresh = "live"
    BY <1>5 DEF ExchangeRefresh, RefreshAccepted, IInv, PairInv, PairOk
  <2>2. QED
    BY <1>5, <2>1 DEF ExchangeRefresh, IInv, TypeOK, Flow, Exchanging, Used, Idle
<1>6. ASSUME NEW s \in Slot, Spend(s) PROVE Flow
  <2>1. Exchanging(s) /\ \A t \in Slot : (req'[t].src = req[t].src /\ req'[t].root = req[t].root) \/ req'[t].at = "free"
    BY <1>6 DEF Spend, Moves, Ends, IInv, TypeOK, Request, Exchanging, At, Idle
  <2>2. \A t \in Slot : t # s => req'[t] = req[t]
    BY <1>6 DEF Spend, Moves, Ends, IInv, TypeOK
  <2>3. \A p \in Pair : Used(p)' => Used(p)
    BY <1>6 DEF Spend, IInv, TypeOK, Tokens, Used
  <2>4. QED
    BY <2>1, <2>2, <2>3 DEF Flow, Exchanging
<1>7. ASSUME NEW s \in Slot, CheckOwner(s) PROVE Flow
  <2>1. Exchanging(s) /\ \A t \in Slot : (req'[t].src = req[t].src /\ req'[t].root = req[t].root) \/ req'[t].at = "free"
    BY <1>7 DEF CheckOwner, Moves, Ends, IInv, TypeOK, Request, Exchanging, At, Idle
  <2>2. \A t \in Slot : t # s => req'[t] = req[t]
    BY <1>7 DEF CheckOwner, Moves, Ends, IInv, TypeOK
  <2>3. \A p \in Pair : Used(p)' => Used(p)
    BY <1>7 DEF CheckOwner, IInv, TypeOK, Tokens, Used
  <2>4. QED
    BY <2>1, <2>2, <2>3 DEF Flow, Exchanging
<1>8. ASSUME NEW s \in Slot, NEW p \in Pair, SaveAccess(s, p) PROVE Flow
  <2>1. Exchanging(s) /\ pair'[p].src = req[s].src /\ pair'[p].root = req[s].root
    BY <1>8 DEF SaveAccess, IInv, TypeOK, Exchanging, At
  <2>2. \A q \in Pair : q # p => pair'[q] = pair[q]
    BY <1>8 DEF SaveAccess, IInv, TypeOK
  <2>3. /\ \A t \in Slot : t # s => req'[t] = req[t]
        /\ req'[s].src = req[s].src /\ req'[s].root = req[s].root
    <3>1. req[s] \in Request /\ req' = [req EXCEPT ![s] = [req[s] EXCEPT !.at = "pairing", !.pair = p]]
      BY <1>8 DEF SaveAccess, IInv, TypeOK
    <3>2. QED
      BY <3>1 DEF IInv, TypeOK, Request
  <2>4. QED
    BY <2>1, <2>2, <2>3 DEF Flow, Exchanging, Used
<1>9. ASSUME NEW s \in Slot, SaveRefresh(s) PROVE Flow
  <2>1. /\ \A t \in Slot : t # s => req'[t] = req[t]
        /\ req'[s].at = "free"
    BY <1>9 DEF SaveRefresh, Ends, IInv, TypeOK, Idle
  <2>2. ASSUME NEW p \in Pair, Used(p)' PROVE Used(p)
    <3>1. PairOk(p) /\ RequestOk(s) /\ pair[p] \in Tokens
      BY DEF IInv, RequestInv, PairInv, TypeOK
    <3>2. QED
      BY <1>9, <2>2, <3>1 DEF SaveRefresh, IInv, TypeOK, Tokens, Used, RequestOk, PairOk
  <2>3. QED
    BY <2>1, <2>2 DEF Flow, Exchanging
<1>10. ASSUME NEW s \in Slot, RefreshFails(s) PROVE Flow
  <2>1. /\ \A t \in Slot : t # s => req'[t] = req[t]
        /\ req'[s].at = "free"
    BY <1>10 DEF RefreshFails, Ends, IInv, TypeOK, Idle
  <2>2. ASSUME NEW p \in Pair, Used(p)' PROVE Used(p)
    <3>1. PairOk(p) /\ RequestOk(s) /\ pair[p] \in Tokens
      BY DEF IInv, RequestInv, PairInv, TypeOK
    <3>2. QED
      BY <1>10, <2>2, <3>1 DEF RefreshFails, IInv, TypeOK, Tokens, Used, RequestOk, PairOk
  <2>3. QED
    BY <2>1, <2>2 DEF Flow, Exchanging
<1>11. ASSUME NEW s \in Slot, HandlerFails(s) PROVE Flow
  BY <1>11 DEF HandlerFails, IInv, TypeOK, Flow, Exchanging, Used, Idle, Moves, Ends, Tokens, Request, At
<1>12. ASSUME NEW s \in Slot, NEW p \in Pair, NEW part \in {"access", "refresh"}, NEW k \in Client \cup {None}, Revoke(s, p, part, k) PROVE Flow
  BY <1>12 DEF Revoke, IInv, TypeOK, Flow, Exchanging, Used, Idle, Moves, Ends, Tokens, Request, At
<1>13. ASSUME NEW s \in Slot, SaveRevocation(s) PROVE Flow
  <2>1. /\ \A t \in Slot : t # s => req'[t] = req[t]
        /\ req'[s].at = "free"
    BY <1>13 DEF SaveRevocation, Ends, IInv, TypeOK, Idle
  <2>2. ASSUME NEW p \in Pair, Used(p)' PROVE Used(p)
    <3>1. PairOk(p) /\ RequestOk(s) /\ pair[p] \in Tokens
      BY DEF IInv, RequestInv, PairInv, TypeOK
    <3>2. QED
      BY <1>13, <2>2, <3>1 DEF SaveRevocation, IInv, TypeOK, Tokens, Used, RequestOk, PairOk
  <2>3. QED
    BY <2>1, <2>2 DEF Flow, Exchanging
<1>14. ASSUME NEW s \in Slot, NEW p \in Pair, VerifyToken(s, p) PROVE Flow
  BY <1>14 DEF VerifyToken, IInv, TypeOK, Flow, Exchanging, Used, Idle, Moves, Ends, Tokens, Request, At
<1>15. ASSUME NEW s \in Slot, VerifyOwner(s) PROVE Flow
  BY <1>15 DEF VerifyOwner, IInv, TypeOK, Flow, Exchanging, Used, Idle, Moves, Ends, Tokens, Request, At
<1>16. ASSUME NEW s \in Slot, Answer(s) PROVE Flow
  BY <1>16 DEF Answer, IInv, TypeOK, Flow, Exchanging, Used, Idle, Moves, Ends, Tokens, Request, At
<1>17. ASSUME NEW c \in Code, ExpireCode(c) PROVE Flow
  BY <1>17 DEF ExpireCode, Flow, Exchanging, Used
<1>18. ASSUME NEW p \in Pair, ExpireAccess(p) PROVE Flow
  BY <1>18 DEF ExpireAccess, IInv, TypeOK, Flow, Exchanging, Used, Idle, Moves, Ends, Tokens, Request, At
<1>19. ASSUME NEW p \in Pair, ExpireRefresh(p) PROVE Flow
  BY <1>19 DEF ExpireRefresh, IInv, TypeOK, Flow, Exchanging, Used, Idle, Moves, Ends, Tokens, Request, At
<1>20. ASSUME NEW o \in Account, RemoveAccount(o) PROVE Flow
  <2>1. ASSUME NEW p \in Pair, Used(p)' PROVE Used(p)
    <3>1. pair[p] \in Tokens
      BY DEF IInv, TypeOK
    <3>2. pair'[p] \in {pair[p], [pair[p] EXCEPT !.access = Deleted(@), !.refresh = Deleted(@)]}
      BY <1>20 DEF RemoveAccount
    <3>3. QED
      BY <2>1, <3>1, <3>2 DEF Tokens, Deleted, Used
  <2>2. QED
    BY <1>20, <2>1 DEF RemoveAccount, Flow, Exchanging
<1>21. ASSUME NEW o \in Account, Judge(o) PROVE Flow
  BY <1>21 DEF Judge, Flow, Exchanging, Used
<1>22. CASE Restart
  BY <1>22 DEF Restart, IInv, TypeOK, Flow, Exchanging, Used, Idle, Moves, Ends, Tokens, Request, At
<1>23. QED
  BY <1>1, <1>2, <1>3, <1>4, <1>5, <1>6, <1>7, <1>8, <1>9, <1>10, <1>11, <1>12, <1>13, <1>14, <1>15, <1>16, <1>17, <1>18, <1>19, <1>20, <1>21, <1>22 DEF Next, Handler

\* What is dead stays dead.
LEMMA SpentStays ==
  ASSUME IInv, RowsGrow, NEW x \in Source, Spent(x)
  PROVE  Spent(x)'
<1>1. CASE x \in Code
  BY <1>1 DEF Spent, RowsGrow
<1>2. CASE x \in Pair
  BY <1>2, SourceAssumption DEF Spent, RowsGrow, IInv, PairInv, PairOk
<1>3. QED
  BY <1>1, <1>2 DEF Source

\* A code or refresh token that was spent (exchangeAuthorizationCode,
\* exchangeRefreshToken) yields nothing once the exchanges that had read it
\* before are over.
THEOREM SpentHolds == Spec => SpentForGood
<1>1. ASSUME IInv, [Next]_vars, NEW x \in Source, Drained(x)
      PROVE  Drained(x)' /\ Yield(x)' = Yield(x)
  <2>1. CASE UNCHANGED vars
    BY <1>1, <2>1 DEF vars, Drained, Spent, Exchanging, Yield, Used
  <2>2. CASE Next
    <3>1. RowsGrow /\ Flow
      BY <1>1, <2>2, NextKeeps, NextFlows
    <3>2. Spent(x)'
      BY <1>1, <3>1, SpentStays DEF Drained
    <3>3. ASSUME NEW t \in Slot, Exchanging(t)' PROVE req'[t].src # x
      BY <1>1, <3>1, <3>3, SourceAssumption DEF Flow, Drained, Spent
    <3>4. ASSUME NEW p \in Pair
          PROVE  Used(p)' /\ pair'[p].src = x <=> Used(p) /\ pair[p].src = x
      BY <1>1, <3>1 DEF Flow, RowsGrow, Drained, Used
    <3>5. QED
      BY <3>2, <3>3, <3>4 DEF Drained, Yield
  <2>3. QED
    BY <1>1, <2>1, <2>2
<1>2. IInv /\ [Next]_vars => [\A x \in Source : Drained(x) => Drained(x)' /\ Yield(x)' = Yield(x)]_vars
  BY <1>1
<1>3. QED
  BY <1>2, InvariantHolds, PTL DEF Spec, SpentForGood

\* Of a code whose tokens are all spent, expired or revoked nothing comes any
\* more.
THEOREM FamiliesEnd == Spec => FamilyEnds
<1>1. ASSUME IInv, [Next]_vars, NEW c \in Code, Over(c)
      PROVE  Over(c)'
  <2>1. CASE UNCHANGED vars
    BY <1>1, <2>1 DEF vars, Over, Exchanging, Used
  <2>2. CASE Next
    <3>1. RowsGrow /\ Flow
      BY <1>1, <2>2, NextKeeps, NextFlows
    <3>2. grant'[c].row = "dead"
      BY <1>1, <3>1 DEF RowsGrow, Over
    <3>3. ASSUME NEW p \in Pair, Used(p)', pair'[p].root = c PROVE pair'[p].refresh = "dead"
      BY <1>1, <3>1, <3>3 DEF Flow, RowsGrow, Over
    <3>4. ASSUME NEW t \in Slot, Exchanging(t)' PROVE req'[t].root # c
      BY <1>1, <3>1, <3>4 DEF Flow, Over
    <3>5. QED
      BY <3>2, <3>3, <3>4 DEF Over
  <2>3. QED
    BY <1>1, <2>1, <2>2
<1>2. IInv /\ [Next]_vars => [\A c \in Code : Over(c) => Over(c)']_vars
  BY <1>1
<1>3. QED
  BY <1>2, InvariantHolds, PTL DEF Spec, FamilyEnds

-----------------------------------------------------------------------------
LEMMA RowsStill ==
  ASSUME RemovedHasNothing, UNCHANGED <<accounts, grant, pair>>
  PROVE  RemovedHasNothing'
BY DEF RemovedHasNothing

LEMMA RemovedNext ==
  ASSUME IInv, RemovedHasNothing, Next
  PROVE  RemovedHasNothing'
<1>1. ASSUME NEW k \in Client, RegisterClient(k) PROVE RemovedHasNothing'
  BY <1>1, RowsStill DEF RegisterClient
<1>2. ASSUME NEW s \in Slot, NEW o \in Account, NEW k \in Client, ApproveAuthorization(s, o, k) PROVE RemovedHasNothing'
  BY <1>2, RowsStill DEF ApproveAuthorization
<1>3. ASSUME NEW s \in Slot, NEW c \in Code, SaveGrant(s, c) PROVE RemovedHasNothing'
  <2>1. UNCHANGED <<accounts, pair>> /\ \A d \in Code : d # c => grant'[d] = grant[d]
    BY <1>3 DEF SaveGrant, IInv, TypeOK
  <2>2. grant'[c].owner \in accounts
    BY <1>3 DEF SaveGrant, IInv, TypeOK
  <2>3. QED
    BY <2>1, <2>2 DEF RemovedHasNothing
<1>4. ASSUME NEW s \in Slot, NEW c \in Code, NEW k \in Client, NEW by \in Client, ExchangeCode(s, c, k, by) PROVE RemovedHasNothing'
  BY <1>4, RowsStill DEF ExchangeCode
<1>5. ASSUME NEW s \in Slot, NEW p \in Pair, NEW k \in Client, ExchangeRefresh(s, p, k) PROVE RemovedHasNothing'
  BY <1>5, RowsStill DEF ExchangeRefresh
<1>6. ASSUME NEW s \in Slot, Spend(s) PROVE RemovedHasNothing'
  <2>1. \A c \in Code : grant'[c].row = "live" => grant'[c] = grant[c]
    BY <1>6 DEF Spend, IInv, TypeOK, Grant
  <2>2. \A p \in Pair : /\ pair'[p].owner = pair[p].owner
                        /\ pair'[p].access = pair[p].access
                        /\ pair'[p].refresh = "live" => pair[p].refresh = "live"
    BY <1>6 DEF Spend, IInv, TypeOK, Tokens
  <2>3. QED
    BY <1>6, <2>1, <2>2 DEF Spend, RemovedHasNothing
<1>7. ASSUME NEW s \in Slot, CheckOwner(s) PROVE RemovedHasNothing'
  BY <1>7, RowsStill DEF CheckOwner
<1>8. ASSUME NEW s \in Slot, NEW p \in Pair, SaveAccess(s, p) PROVE RemovedHasNothing'
  <2>1. UNCHANGED <<accounts, grant>> /\ \A q \in Pair : q # p => pair'[q] = pair[q]
    BY <1>8 DEF SaveAccess, IInv, TypeOK
  <2>2. pair'[p].owner \in accounts
    BY <1>8 DEF SaveAccess, IInv, TypeOK, NoTokens
  <2>3. QED
    BY <2>1, <2>2 DEF RemovedHasNothing
<1>9. ASSUME NEW s \in Slot, SaveRefresh(s) PROVE RemovedHasNothing'
  <2>1. /\ req[s].pair \in Pair /\ pair[req[s].pair].owner = req[s].owner
        /\ req[s].owner \in accounts
    BY <1>9 DEF SaveRefresh, IInv, RequestInv, RequestOk
  <2>2. UNCHANGED <<accounts, grant>>
        /\ \A q \in Pair : q # req[s].pair => pair'[q] = pair[q]
    BY <1>9 DEF SaveRefresh, IInv, TypeOK
  <2>3. pair'[req[s].pair].owner \in accounts
    <3>1. pair[req[s].pair] \in Tokens
      BY <2>1 DEF IInv, TypeOK
    <3>2. QED
      BY <1>9, <2>1, <3>1 DEF SaveRefresh, IInv, TypeOK, Tokens
  <2>4. QED
    BY <2>2, <2>3 DEF RemovedHasNothing
<1>10. ASSUME NEW s \in Slot, RefreshFails(s) PROVE RemovedHasNothing'
  BY <1>10 DEF RefreshFails, IInv, TypeOK, Tokens, RemovedHasNothing
<1>11. ASSUME NEW s \in Slot, HandlerFails(s) PROVE RemovedHasNothing'
  BY <1>11, RowsStill DEF HandlerFails
<1>12. ASSUME NEW s \in Slot, NEW p \in Pair, NEW part \in {"access", "refresh"}, NEW k \in Client \cup {None},
             Revoke(s, p, part, k) PROVE RemovedHasNothing'
  BY <1>12, RowsStill DEF Revoke
<1>13. ASSUME NEW s \in Slot, SaveRevocation(s) PROVE RemovedHasNothing'
  <2>1. \A p \in Pair : /\ pair'[p].owner = pair[p].owner
                        /\ pair'[p].access = "live" => pair[p].access = "live"
                        /\ pair'[p].refresh = "live" => pair[p].refresh = "live"
    BY <1>13 DEF SaveRevocation, IInv, TypeOK, Tokens
  <2>2. QED
    BY <1>13, <2>1 DEF SaveRevocation, RemovedHasNothing
<1>14. ASSUME NEW s \in Slot, NEW p \in Pair, VerifyToken(s, p) PROVE RemovedHasNothing'
  BY <1>14, RowsStill DEF VerifyToken
<1>15. ASSUME NEW s \in Slot, VerifyOwner(s) PROVE RemovedHasNothing'
  BY <1>15, RowsStill DEF VerifyOwner
<1>16. ASSUME NEW s \in Slot, Answer(s) PROVE RemovedHasNothing'
  BY <1>16, RowsStill DEF Answer
<1>17. ASSUME NEW c \in Code, ExpireCode(c) PROVE RemovedHasNothing'
  BY <1>17 DEF ExpireCode, IInv, TypeOK, Grant, RemovedHasNothing
<1>18. ASSUME NEW p \in Pair, ExpireAccess(p) PROVE RemovedHasNothing'
  BY <1>18 DEF ExpireAccess, IInv, TypeOK, Tokens, RemovedHasNothing
<1>19. ASSUME NEW p \in Pair, ExpireRefresh(p) PROVE RemovedHasNothing'
  BY <1>19 DEF ExpireRefresh, IInv, TypeOK, Tokens, RemovedHasNothing
<1>20. ASSUME NEW o \in Account, RemoveAccount(o) PROVE RemovedHasNothing'
  <2>1. \A c \in Code : grant'[c].row = "live" =>
          grant[c].row = "live" /\ grant'[c].owner = grant[c].owner /\ grant[c].owner # o
    BY <1>20 DEF RemoveAccount, IInv, TypeOK, Grant, Deleted
  <2>2. ASSUME NEW p \in Pair, "live" \in {pair'[p].access, pair'[p].refresh}
        PROVE  pair'[p] = pair[p] /\ pair[p].owner # o
    <3>1. pair[p] \in Tokens
      BY DEF IInv, TypeOK
    <3>2. pair'[p] = IF pair[p].owner # o THEN pair[p]
             ELSE [pair[p] EXCEPT !.access = Deleted(@), !.refresh = Deleted(@)]
      BY <1>20 DEF RemoveAccount
    <3>3. QED
      BY <2>2, <3>1, <3>2 DEF Tokens, Deleted
  <2>3. accounts' = accounts \ {o}
    BY <1>20 DEF RemoveAccount
  <2>4. QED
    BY <2>1, <2>2, <2>3 DEF RemovedHasNothing
<1>21. ASSUME NEW o \in Account, Judge(o) PROVE RemovedHasNothing'
  BY <1>21, RowsStill DEF Judge
<1>22. CASE Restart
  BY <1>22, RowsStill DEF Restart
<1>23. QED
  BY <1>1, <1>2, <1>3, <1>4, <1>5, <1>6, <1>7, <1>8, <1>9, <1>10, <1>11, <1>12, <1>13, <1>14, <1>15, <1>16, <1>17, <1>18, <1>19, <1>20, <1>21, <1>22 DEF Next, Handler

\* An account that is removed (the cascade of the schema) leaves no code and no
\* token of use, although handlers read it before they save theirs.
THEOREM RemovedHolds == Spec => []RemovedHasNothing
<1>1. Init => RemovedHasNothing
  BY DEF Init, NoGrant, NoTokens, RemovedHasNothing
<1>2. IInv /\ RemovedHasNothing /\ [Next]_vars => RemovedHasNothing'
  <2> SUFFICES ASSUME IInv, RemovedHasNothing, [Next]_vars PROVE RemovedHasNothing'
    OBVIOUS
  <2>1. CASE UNCHANGED vars
    BY <2>1, RowsStill DEF vars
  <2>2. CASE Next
    BY <2>2, RemovedNext
  <2>3. QED
    BY <2>1, <2>2
<1>3. QED
  BY <1>1, <1>2, InvariantHolds, PTL DEF Spec

-----------------------------------------------------------------------------
\* No step but SaveAccess makes a pair without its refresh token.
KeepsLoose(p) ==
  pair'[p].access = "live" /\ pair'[p].refresh = "none" =>
    pair[p].access = "live" /\ pair[p].refresh = "none"

LEMMA WholeStays ==
  ASSUME WholePairs, \A p \in Pair : KeepsLoose(p), hurt \subseteq hurt',
         \A t \in Slot : At(t, "pairing") => req'[t] = req[t]
  PROVE  WholePairs'
BY DEF WholePairs, KeepsLoose, At

LEMMA WholeNext ==
  ASSUME IInv, WholePairs, Next
  PROVE  WholePairs'
<1>1. ASSUME NEW k \in Client, RegisterClient(k) PROVE WholePairs'
  BY <1>1, WholeStays DEF RegisterClient, KeepsLoose
<1>2. ASSUME NEW s \in Slot, NEW o \in Account, NEW k \in Client, ApproveAuthorization(s, o, k) PROVE WholePairs'
  <2>1. UNCHANGED pair /\ UNCHANGED hurt
    BY <1>2 DEF ApproveAuthorization
  <2>2. \A t \in Slot : At(t, "pairing") => req'[t] = req[t]
    BY <1>2 DEF ApproveAuthorization, At, Moves, Ends, IInv, TypeOK
  <2>3. QED
    BY <2>1, <2>2, WholeStays DEF KeepsLoose
<1>3. ASSUME NEW s \in Slot, NEW c \in Code, SaveGrant(s, c) PROVE WholePairs'
  <2>1. UNCHANGED pair /\ UNCHANGED hurt
    BY <1>3 DEF SaveGrant
  <2>2. \A t \in Slot : At(t, "pairing") => req'[t] = req[t]
    BY <1>3 DEF SaveGrant, At, Moves, Ends, IInv, TypeOK
  <2>3. QED
    BY <2>1, <2>2, WholeStays DEF KeepsLoose
<1>4. ASSUME NEW s \in Slot, NEW c \in Code, NEW k \in Client, NEW by \in Client, ExchangeCode(s, c, k, by) PROVE WholePairs'
  <2>1. UNCHANGED pair /\ UNCHANGED hurt
    BY <1>4 DEF ExchangeCode
  <2>2. \A t \in Slot : At(t, "pairing") => req'[t] = req[t]
    BY <1>4 DEF ExchangeCode, At, Moves, Ends, IInv, TypeOK
  <2>3. QED
    BY <2>1, <2>2, WholeStays DEF KeepsLoose
<1>5. ASSUME NEW s \in Slot, NEW p \in Pair, NEW k \in Client, ExchangeRefresh(s, p, k) PROVE WholePairs'
  <2>1. UNCHANGED pair /\ UNCHANGED hurt
    BY <1>5 DEF ExchangeRefresh
  <2>2. \A t \in Slot : At(t, "pairing") => req'[t] = req[t]
    BY <1>5 DEF ExchangeRefresh, At, Moves, Ends, IInv, TypeOK
  <2>3. QED
    BY <2>1, <2>2, WholeStays DEF KeepsLoose
<1>6. ASSUME NEW s \in Slot, Spend(s) PROVE WholePairs'
  <2>1. hurt \subseteq hurt'
    BY <1>6 DEF Spend
  <2>2. \A q \in Pair : KeepsLoose(q)
    BY <1>6 DEF Spend, KeepsLoose, IInv, TypeOK, Tokens
  <2>3. \A t \in Slot : At(t, "pairing") => req'[t] = req[t]
    BY <1>6 DEF Spend, At, Moves, IInv, TypeOK
  <2>4. QED
    BY <2>1, <2>2, <2>3, WholeStays
<1>7. ASSUME NEW s \in Slot, CheckOwner(s) PROVE WholePairs'
  <2>1. UNCHANGED pair /\ UNCHANGED hurt
    BY <1>7 DEF CheckOwner
  <2>2. \A t \in Slot : At(t, "pairing") => req'[t] = req[t]
    BY <1>7 DEF CheckOwner, At, Moves, Ends, IInv, TypeOK
  <2>3. QED
    BY <2>1, <2>2, WholeStays DEF KeepsLoose
<1>8. ASSUME NEW s \in Slot, NEW p \in Pair, SaveAccess(s, p) PROVE WholePairs'
  <2>1. At(s, "pairing")' /\ req'[s].pair = p
    <3>1. req[s] \in Request /\ req' = [req EXCEPT ![s] = [req[s] EXCEPT !.at = "pairing", !.pair = p]]
      BY <1>8 DEF SaveAccess, IInv, TypeOK
    <3>2. QED
      BY <3>1 DEF At, IInv, TypeOK, Request
  <2>2. \A q \in Pair : q # p => pair'[q] = pair[q]
    BY <1>8 DEF SaveAccess, IInv, TypeOK
  <2>3. UNCHANGED hurt /\ \A t \in Slot : At(t, "pairing") => req'[t] = req[t]
    BY <1>8 DEF SaveAccess, At, IInv, TypeOK
  <2>4. QED
    BY <2>1, <2>2, <2>3 DEF WholePairs, At
<1>9. ASSUME NEW s \in Slot, SaveRefresh(s) PROVE WholePairs'
  <2>1. req[s].pair \in Pair /\ pair[req[s].pair] \in Tokens /\ pair[req[s].pair].root = req[s].root
        /\ req[s].by \in Client
    BY <1>9 DEF SaveRefresh, IInv, RequestInv, RequestOk, PairInv, PairOk, GrantInv, Approved, TypeOK, At, Exchanging
  <2>2. \A q \in Pair : q # req[s].pair => pair'[q] = pair[q]
    BY <1>9 DEF SaveRefresh, IInv, TypeOK
  <2>3. hurt \subseteq hurt' /\ \A t \in Slot : t # s => req'[t] = req[t]
    BY <1>9 DEF SaveRefresh, Ends, Hurts, IInv, TypeOK
  <2>4. pair'[req[s].pair].refresh = "live"
    BY <1>9, <2>1 DEF SaveRefresh, IInv, TypeOK, Tokens
  <2>5. QED
    BY <2>2, <2>3, <2>4 DEF WholePairs, At
<1>10. ASSUME NEW s \in Slot, RefreshFails(s) PROVE WholePairs'
  <2>1. req[s].pair \in Pair /\ pair[req[s].pair] \in Tokens /\ pair[req[s].pair].root = req[s].root
    BY <1>10 DEF RefreshFails, IInv, RequestInv, RequestOk, TypeOK
  <2>2. \A q \in Pair : q # req[s].pair => pair'[q] = pair[q]
    BY <1>10 DEF RefreshFails, IInv, TypeOK
  <2>3. hurt \subseteq hurt' /\ \A t \in Slot : t # s => req'[t] = req[t]
    BY <1>10 DEF RefreshFails, Ends, Hurts, IInv, TypeOK
  <2>4. pair'[req[s].pair].access = "dead" \/ req[s].pair \in hurt'
    BY <1>10, <2>1 DEF RefreshFails, IInv, TypeOK, Tokens
  <2>5. QED
    BY <2>2, <2>3, <2>4 DEF WholePairs, At
<1>11. ASSUME NEW s \in Slot, HandlerFails(s) PROVE WholePairs'
  <2>1. UNCHANGED pair /\ hurt \subseteq hurt'
    BY <1>11 DEF HandlerFails, Hurts
  <2>2. \A t \in Slot : At(t, "pairing") => req'[t] = req[t]
    BY <1>11 DEF HandlerFails, At, Ends, IInv, TypeOK
  <2>3. QED
    BY <2>1, <2>2, WholeStays DEF KeepsLoose
<1>12. ASSUME NEW s \in Slot, NEW p \in Pair, NEW part \in {"access", "refresh"}, NEW k \in Client \cup {None},
             Revoke(s, p, part, k) PROVE WholePairs'
  <2>1. UNCHANGED pair /\ UNCHANGED hurt
    BY <1>12 DEF Revoke
  <2>2. \A t \in Slot : At(t, "pairing") => req'[t] = req[t]
    BY <1>12 DEF Revoke, At, Moves, Ends, IInv, TypeOK
  <2>3. QED
    BY <2>1, <2>2, WholeStays DEF KeepsLoose
<1>13. ASSUME NEW s \in Slot, SaveRevocation(s) PROVE WholePairs'
  <2>1. hurt \subseteq hurt'
    BY <1>13 DEF SaveRevocation, Hurts
  <2>2. \A q \in Pair : KeepsLoose(q)
    BY <1>13 DEF SaveRevocation, KeepsLoose, IInv, TypeOK, Tokens
  <2>3. \A t \in Slot : At(t, "pairing") => req'[t] = req[t]
    BY <1>13 DEF SaveRevocation, At, Ends, IInv, TypeOK
  <2>4. QED
    BY <2>1, <2>2, <2>3, WholeStays
<1>14. ASSUME NEW s \in Slot, NEW p \in Pair, VerifyToken(s, p) PROVE WholePairs'
  <2>1. UNCHANGED pair /\ UNCHANGED hurt
    BY <1>14 DEF VerifyToken
  <2>2. \A t \in Slot : At(t, "pairing") => req'[t] = req[t]
    BY <1>14 DEF VerifyToken, At, Moves, Ends, IInv, TypeOK
  <2>3. QED
    BY <2>1, <2>2, WholeStays DEF KeepsLoose
<1>15. ASSUME NEW s \in Slot, VerifyOwner(s) PROVE WholePairs'
  <2>1. UNCHANGED pair /\ UNCHANGED hurt
    BY <1>15 DEF VerifyOwner
  <2>2. \A t \in Slot : At(t, "pairing") => req'[t] = req[t]
    BY <1>15 DEF VerifyOwner, At, Moves, Ends, IInv, TypeOK
  <2>3. QED
    BY <2>1, <2>2, WholeStays DEF KeepsLoose
<1>16. ASSUME NEW s \in Slot, Answer(s) PROVE WholePairs'
  <2>1. UNCHANGED pair /\ UNCHANGED hurt
    BY <1>16 DEF Answer
  <2>2. \A t \in Slot : At(t, "pairing") => req'[t] = req[t]
    BY <1>16 DEF Answer, At, Moves, Ends, IInv, TypeOK
  <2>3. QED
    BY <2>1, <2>2, WholeStays DEF KeepsLoose
<1>17. ASSUME NEW c \in Code, ExpireCode(c) PROVE WholePairs'
  BY <1>17, WholeStays DEF ExpireCode, KeepsLoose
<1>18. ASSUME NEW p \in Pair, ExpireAccess(p) PROVE WholePairs'
  <2>1. UNCHANGED req /\ hurt \subseteq hurt'
    BY <1>18 DEF ExpireAccess
  <2>2. \A q \in Pair : KeepsLoose(q)
    BY <1>18 DEF ExpireAccess, KeepsLoose, IInv, TypeOK, Tokens
  <2>3. QED
    BY <2>1, <2>2, WholeStays
<1>19. ASSUME NEW p \in Pair, ExpireRefresh(p) PROVE WholePairs'
  <2>1. UNCHANGED req /\ hurt \subseteq hurt'
    BY <1>19 DEF ExpireRefresh
  <2>2. \A q \in Pair : KeepsLoose(q)
    BY <1>19 DEF ExpireRefresh, KeepsLoose, IInv, TypeOK, Tokens
  <2>3. QED
    BY <2>1, <2>2, WholeStays
<1>20. ASSUME NEW o \in Account, RemoveAccount(o) PROVE WholePairs'
  <2>1. UNCHANGED req /\ hurt \subseteq hurt'
    BY <1>20 DEF RemoveAccount
  <2>2. ASSUME NEW q \in Pair PROVE KeepsLoose(q)
    <3>1. pair[q] \in Tokens
      BY DEF IInv, TypeOK
    <3>2. pair'[q] \in {pair[q], [pair[q] EXCEPT !.access = Deleted(@), !.refresh = Deleted(@)]}
      BY <1>20 DEF RemoveAccount
    <3>3. QED
      BY <3>1, <3>2 DEF Tokens, Deleted, KeepsLoose
  <2>3. QED
    BY <2>1, <2>2, WholeStays
<1>21. ASSUME NEW o \in Account, Judge(o) PROVE WholePairs'
  BY <1>21, WholeStays DEF Judge, KeepsLoose
<1>22. CASE Restart
  <2>1. UNCHANGED pair
    BY <1>22 DEF Restart
  <2>2. ASSUME NEW p \in Pair, pair[p].access = "live", pair[p].refresh = "none"
        PROVE  p \in hurt'
    <3>1. CASE p \in hurt
      BY <1>22, <3>1 DEF Restart
    <3>2. ASSUME NEW t \in Slot, At(t, "pairing"), req[t].pair = p PROVE p \in hurt'
      BY <1>22, <3>2 DEF Restart
    <3>3. QED
      BY <2>2, <3>1, <3>2 DEF WholePairs
  <2>3. QED
    BY <2>1, <2>2 DEF WholePairs
<1>23. QED
  BY <1>1, <1>2, <1>3, <1>4, <1>5, <1>6, <1>7, <1>8, <1>9, <1>10, <1>11, <1>12, <1>13, <1>14, <1>15, <1>16, <1>17, <1>18, <1>19, <1>20, <1>21, <1>22 DEF Next, Handler

\* An access token is left without its refresh token only by a deletion that
\* failed after the second save had failed, or by the end of the process
\* (issueTokens).
THEOREM WholeHolds == Spec => []WholePairs
<1>1. Init => WholePairs
  BY DEF Init, NoTokens, WholePairs
<1>2. IInv /\ WholePairs /\ [Next]_vars => WholePairs'
  <2> SUFFICES ASSUME IInv, WholePairs, [Next]_vars PROVE WholePairs'
    OBVIOUS
  <2>1. CASE UNCHANGED vars
    BY <2>1 DEF vars, WholePairs, At
  <2>2. CASE Next
    BY <2>2, WholeNext
  <2>3. QED
    BY <2>1, <2>2
<1>3. QED
  BY <1>1, <1>2, InvariantHolds, PTL DEF Spec

-----------------------------------------------------------------------------
\* What a client of code c stands on is not taken away.
Steady(c) ==
  /\ grant'[c].row = "dead" => grant[c].row = "dead"
  /\ grant'[c].owner = grant[c].owner /\ grant'[c].client = grant[c].client
  /\ \A p \in Pair :
       pair[p].root = c /\ pair[p].refresh = "live" /\ pair[p].holder = grant[c].client =>
         pair'[p].root = c /\ pair'[p].refresh = "live" /\ pair'[p].holder = grant[c].client
  /\ \A t \in Slot : Consumed(t) /\ req[t].root = c => Consumed(t)' /\ req'[t].root = c

LEMMA StrandStays ==
  ASSUME NotStranded, hurt \subseteq hurt', doubted \subseteq doubted',
         \A c \in Code : grant'[c].row = "dead" =>
           c \in hurt' \/ grant'[c].owner \in doubted' \/ Stands(c)' \/ Steady(c)
  PROVE  NotStranded'
<1> SUFFICES ASSUME NEW c \in Code, c \notin hurt', grant'[c].row = "dead",
                    grant'[c].owner \notin doubted'
             PROVE  Stands(c)'
  BY DEF NotStranded
<1>1. CASE Steady(c)
  <2>1. Stands(c)
    BY <1>1 DEF Steady, NotStranded
  <2>2. CASE \E p \in Pair : /\ pair[p].root = c /\ pair[p].refresh = "live"
                             /\ pair[p].holder = grant[c].client
    BY <1>1, <2>2 DEF Steady, Stands
  <2>3. CASE \E s \in Slot : Consumed(s) /\ req[s].root = c
    BY <1>1, <2>3 DEF Steady, Stands, Consumed
  <2>4. QED
    BY <2>1, <2>2, <2>3 DEF Stands
<1>2. QED
  BY <1>1

LEMMA StrandNext ==
  ASSUME IInv, NotStranded, Next
  PROVE  NotStranded'
<1>1. ASSUME NEW k \in Client, RegisterClient(k) PROVE NotStranded'
  BY <1>1, StrandStays DEF RegisterClient, Steady, Consumed
<1>2. ASSUME NEW s \in Slot, NEW o \in Account, NEW k \in Client, ApproveAuthorization(s, o, k) PROVE NotStranded'
  <2>1. UNCHANGED <<grant, pair, hurt, doubted>>
    BY <1>2 DEF ApproveAuthorization
  <2>2. \A t \in Slot : Consumed(t) => req'[t] = req[t]
    BY <1>2 DEF ApproveAuthorization, At, Consumed, Ends, Moves, IInv, TypeOK
  <2>3. \A d \in Code : Steady(d)
    BY <2>1, <2>2 DEF Steady, Consumed
  <2>4. QED
    BY <2>1, <2>3, StrandStays
<1>3. ASSUME NEW s \in Slot, NEW c \in Code, SaveGrant(s, c) PROVE NotStranded'
  <2>1. \A t \in Slot : Consumed(t) => req'[t] = req[t]
    BY <1>3 DEF SaveGrant, At, Consumed, Ends, IInv, TypeOK
  <2>2. \A d \in Code : d # c => grant'[d] = grant[d]
    BY <1>3 DEF SaveGrant, IInv, TypeOK
  <2>3. grant'[c].row = "live"
    BY <1>3 DEF SaveGrant, IInv, TypeOK
  <2>4. UNCHANGED <<pair, hurt, doubted>>
    BY <1>3 DEF SaveGrant
  <2>5. ASSUME NEW d \in Code, grant'[d].row = "dead" PROVE Steady(d)
    BY <2>1, <2>2, <2>3, <2>4, <2>5 DEF Steady, Consumed
  <2>6. QED
    BY <2>4, <2>5, StrandStays
<1>4. ASSUME NEW s \in Slot, NEW c \in Code, NEW k \in Client, NEW by \in Client, ExchangeCode(s, c, k, by) PROVE NotStranded'
  <2>1. UNCHANGED <<grant, pair, hurt, doubted>>
    BY <1>4 DEF ExchangeCode
  <2>2. \A t \in Slot : Consumed(t) => req'[t] = req[t]
    BY <1>4 DEF ExchangeCode, At, Consumed, Ends, Moves, IInv, TypeOK
  <2>3. \A d \in Code : Steady(d)
    BY <2>1, <2>2 DEF Steady, Consumed
  <2>4. QED
    BY <2>1, <2>3, StrandStays
<1>5. ASSUME NEW s \in Slot, NEW p \in Pair, NEW k \in Client, ExchangeRefresh(s, p, k) PROVE NotStranded'
  <2>1. UNCHANGED <<grant, pair, hurt, doubted>>
    BY <1>5 DEF ExchangeRefresh
  <2>2. \A t \in Slot : Consumed(t) => req'[t] = req[t]
    BY <1>5 DEF ExchangeRefresh, At, Consumed, Ends, Moves, IInv, TypeOK
  <2>3. \A d \in Code : Steady(d)
    BY <2>1, <2>2 DEF Steady, Consumed
  <2>4. QED
    BY <2>1, <2>3, StrandStays
<1>6. ASSUME NEW s \in Slot, Spend(s) PROVE NotStranded'
  <2>1. /\ Exchanging(s) /\ req[s] \in Request /\ req[s].src \in Source
        /\ req[s].src \in Pair => pair[req[s].src].root = req[s].root
        /\ req[s].src \in Code => req[s].src = req[s].root
    BY <1>6 DEF Spend, At, Exchanging, IInv, RequestInv, RequestOk, TypeOK
  <2>2. Consumed(s)' /\ req'[s].root = req[s].root
    BY <1>6, <2>1 DEF Spend, Moves, Consumed, IInv, TypeOK, Request
  <2>3. ASSUME NEW c \in Code, c = req[s].root PROVE Stands(c)'
    BY <2>2, <2>3 DEF Stands, Consumed
  <2>4. \A t \in Slot : Consumed(t) => Consumed(t)' /\ req'[t].root = req[t].root
    BY <1>6, <2>2 DEF Spend, Moves, Consumed, IInv, TypeOK
  <2>5. \A c \in Code : c # req[s].root => grant'[c] = grant[c]
    BY <1>6, <2>1 DEF Spend, IInv, TypeOK
  <2>6. \A p \in Pair : pair[p].root # req[s].root => pair'[p] = pair[p]
    BY <1>6, <2>1, SourceAssumption DEF Spend, Source, IInv, TypeOK
  <2>7. \A c \in Code : c # req[s].root => Steady(c)
    BY <2>4, <2>5, <2>6 DEF Steady, Consumed
  <2>8. QED
    BY <1>6, <2>3, <2>7, StrandStays DEF Spend
<1>7. ASSUME NEW s \in Slot, CheckOwner(s) PROVE NotStranded'
  <2>1. UNCHANGED <<grant, pair, hurt, doubted>>
    BY <1>7 DEF CheckOwner
  <2>2. \A t \in Slot : t # s => req'[t] = req[t]
    BY <1>7 DEF CheckOwner, Moves, Ends, IInv, TypeOK
  <2>3. CASE Allowed(req[s].owner)
    <3>1. Consumed(s)' /\ req'[s].root = req[s].root
      BY <1>7, <2>3 DEF CheckOwner, Moves, Consumed, IInv, TypeOK, Request
    <3>2. \A c \in Code : Steady(c)
      BY <2>1, <2>2, <3>1 DEF Steady, Consumed
    <3>3. QED
      BY <2>1, <3>2, StrandStays
  <2>4. CASE ~Allowed(req[s].owner)
    <3>1. grant[req[s].root].owner = req[s].owner /\ req[s].owner \in Account
      BY <1>7 DEF CheckOwner, At, Exchanging, Approved, IInv, RequestInv, RequestOk, GrantInv
    <3>2. req[s].owner \in doubted
      BY <2>4, <3>1 DEF Allowed, IInv, DoubtInv
    <3>3. \A c \in Code : c # req[s].root => Steady(c)
      BY <2>1, <2>2 DEF Steady, Consumed
    <3>4. QED
      BY <2>1, <3>1, <3>2, <3>3, StrandStays
  <2>5. QED
    BY <2>3, <2>4
<1>8. ASSUME NEW s \in Slot, NEW p \in Pair, SaveAccess(s, p) PROVE NotStranded'
  <2>1. Consumed(s)' /\ req'[s].root = req[s].root
    <3>1. req[s] \in Request
          /\ req' = [req EXCEPT ![s] = [req[s] EXCEPT !.at = "pairing", !.pair = p]]
      BY <1>8 DEF SaveAccess, IInv, TypeOK
    <3>2. QED
      BY <3>1 DEF Consumed, IInv, TypeOK, Request
  <2>2. \A t \in Slot : t # s => req'[t] = req[t]
    BY <1>8 DEF SaveAccess, IInv, TypeOK
  <2>3. /\ \A q \in Pair : q # p => pair'[q] = pair[q]
        /\ pair[p].refresh = "none"
    BY <1>8 DEF SaveAccess, IInv, TypeOK, PairInv, PairOk, Used
  <2>4. UNCHANGED <<grant, hurt, doubted>>
    BY <1>8 DEF SaveAccess
  <2>5. \A c \in Code : Steady(c)
    BY <2>1, <2>2, <2>3, <2>4 DEF Steady, Consumed
  <2>6. QED
    BY <2>4, <2>5, StrandStays
<1>9. ASSUME NEW s \in Slot, SaveRefresh(s) PROVE NotStranded'
  <2>1. /\ RequestOk(s) /\ Exchanging(s) /\ pair[req[s].pair] \in Tokens
        /\ pair[req[s].pair].root = req[s].root
        /\ req[s].pair \in Pair
        /\ pair[req[s].pair].refresh = "none"
        /\ req[s].by = grant[req[s].root].client
    BY <1>9 DEF SaveRefresh, At, Exchanging, Approved, IInv, RequestInv, RequestOk, TypeOK
  <2>2. /\ \A t \in Slot : t # s => req'[t] = req[t]
        /\ \A q \in Pair : q # req[s].pair => pair'[q] = pair[q]
        /\ UNCHANGED <<grant, doubted>> /\ hurt \subseteq hurt'
    BY <1>9 DEF SaveRefresh, Ends, Hurts, IInv, TypeOK
  <2>3. \/ req[s].root \in hurt'
        \/ pair'[req[s].pair] = [pair[req[s].pair] EXCEPT !.refresh = "live", !.holder = req[s].by]
    BY <1>9, <2>1 DEF SaveRefresh, Hurts, IInv, TypeOK
  <2>4. ASSUME NEW c \in Code, c = req[s].root PROVE c \in hurt' \/ Stands(c)'
    <3>1. CASE req[s].root \in hurt'
      BY <2>4, <3>1
    <3>2. CASE pair'[req[s].pair] = [pair[req[s].pair] EXCEPT !.refresh = "live", !.holder = req[s].by]
      <4>1. PICK p \in Pair : p = req[s].pair
        BY <2>1
      <4>2. /\ pair'[p].root = c /\ pair'[p].refresh = "live"
            /\ pair'[p].holder = grant'[c].client
        BY <2>1, <2>2, <2>4, <3>2, <4>1 DEF Tokens
      <4>3. QED
        BY <4>2 DEF Stands
    <3>3. QED
      BY <2>3, <3>1, <3>2
  <2>5. \A c \in Code : c # req[s].root => Steady(c)
    BY <2>1, <2>2 DEF Steady, Consumed
  <2>6. QED
    BY <2>2, <2>4, <2>5, StrandStays
<1>10. ASSUME NEW s \in Slot, RefreshFails(s) PROVE NotStranded'
  <2>1. /\ \A t \in Slot : t # s => req'[t] = req[t]
        /\ UNCHANGED <<grant, doubted>> /\ hurt \subseteq hurt' /\ req[s].root \in hurt'
    BY <1>10 DEF RefreshFails, Ends, Hurts, IInv, TypeOK
  <2>2. \A p \in Pair : /\ pair'[p].root = pair[p].root
                        /\ pair'[p].refresh = pair[p].refresh
                        /\ pair'[p].holder = pair[p].holder
    BY <1>10 DEF RefreshFails, IInv, TypeOK, Tokens
  <2>3. \A c \in Code : c # req[s].root => Steady(c)
    BY <2>1, <2>2 DEF Steady, Consumed
  <2>4. QED
    BY <2>1, <2>3, StrandStays
<1>11. ASSUME NEW s \in Slot, HandlerFails(s) PROVE NotStranded'
  <2>1. /\ \A t \in Slot : t # s => req'[t] = req[t]
        /\ UNCHANGED <<grant, pair, doubted>> /\ hurt \subseteq hurt'
        /\ Consumed(s) => req[s].root \in hurt'
    BY <1>11 DEF HandlerFails, Ends, Hurts, Consumed, IInv, TypeOK
  <2>2. \A c \in Code : c \in hurt' \/ Steady(c)
    BY <2>1 DEF Steady, Consumed
  <2>3. QED
    BY <2>1, <2>2, StrandStays
<1>12. ASSUME NEW s \in Slot, NEW p \in Pair, NEW part \in {"access", "refresh"}, NEW k \in Client \cup {None},
             Revoke(s, p, part, k) PROVE NotStranded'
  <2>1. UNCHANGED <<grant, pair, hurt, doubted>>
    BY <1>12 DEF Revoke
  <2>2. \A t \in Slot : Consumed(t) => req'[t] = req[t]
    BY <1>12 DEF Revoke, At, Consumed, Ends, Moves, IInv, TypeOK
  <2>3. \A d \in Code : Steady(d)
    BY <2>1, <2>2 DEF Steady, Consumed
  <2>4. QED
    BY <2>1, <2>3, StrandStays
<1>13. ASSUME NEW s \in Slot, SaveRevocation(s) PROVE NotStranded'
  <2>1. /\ \A t \in Slot : t # s => req'[t] = req[t]
        /\ ~Consumed(s)
        /\ UNCHANGED <<grant, doubted>> /\ hurt \subseteq hurt'
        /\ req[s].part = "refresh" => req[s].root \in hurt'
    BY <1>13 DEF SaveRevocation, At, Ends, Hurts, Consumed, IInv, TypeOK
  <2>2. req[s].pair \in Pair /\ pair[req[s].pair].root = req[s].root
    BY <1>13 DEF SaveRevocation, IInv, RequestInv, RequestOk
  <2>3. ASSUME NEW p \in Pair
        PROVE  /\ pair'[p].root = pair[p].root
               /\ pair'[p].holder = pair[p].holder
               /\ \/ pair'[p].refresh = pair[p].refresh
                  \/ p = req[s].pair /\ req[s].part = "refresh"
    <3>1. pair[p] \in Tokens /\ req[s].part \in {"access", "refresh"}
      BY DEF IInv, TypeOK, Request
    <3>2. \/ pair'[p] = pair[p]
          \/ p = req[s].pair /\ pair'[p] = IF req[s].part = "access"
               THEN [pair[p] EXCEPT !.access = "dead"] ELSE [pair[p] EXCEPT !.refresh = "dead"]
      BY <1>13, <2>2 DEF SaveRevocation, IInv, TypeOK
    <3>3. QED
      BY <3>1, <3>2 DEF Tokens
  <2>4. \A c \in Code : c \in hurt' \/ Steady(c)
    BY <2>1, <2>2, <2>3 DEF Steady, Consumed
  <2>5. QED
    BY <2>1, <2>4, StrandStays
<1>14. ASSUME NEW s \in Slot, NEW p \in Pair, VerifyToken(s, p) PROVE NotStranded'
  <2>1. UNCHANGED <<grant, pair, hurt, doubted>>
    BY <1>14 DEF VerifyToken
  <2>2. \A t \in Slot : Consumed(t) => req'[t] = req[t]
    BY <1>14 DEF VerifyToken, At, Consumed, Ends, Moves, IInv, TypeOK
  <2>3. \A d \in Code : Steady(d)
    BY <2>1, <2>2 DEF Steady, Consumed
  <2>4. QED
    BY <2>1, <2>3, StrandStays
<1>15. ASSUME NEW s \in Slot, VerifyOwner(s) PROVE NotStranded'
  <2>1. UNCHANGED <<grant, pair, hurt, doubted>>
    BY <1>15 DEF VerifyOwner
  <2>2. \A t \in Slot : Consumed(t) => req'[t] = req[t]
    BY <1>15 DEF VerifyOwner, At, Consumed, Ends, Moves, IInv, TypeOK
  <2>3. \A d \in Code : Steady(d)
    BY <2>1, <2>2 DEF Steady, Consumed
  <2>4. QED
    BY <2>1, <2>3, StrandStays
<1>16. ASSUME NEW s \in Slot, Answer(s) PROVE NotStranded'
  <2>1. UNCHANGED <<grant, pair, hurt, doubted>>
    BY <1>16 DEF Answer
  <2>2. \A t \in Slot : Consumed(t) => req'[t] = req[t]
    BY <1>16 DEF Answer, At, Consumed, Ends, Moves, IInv, TypeOK
  <2>3. \A d \in Code : Steady(d)
    BY <2>1, <2>2 DEF Steady, Consumed
  <2>4. QED
    BY <2>1, <2>3, StrandStays
<1>17. ASSUME NEW c \in Code, ExpireCode(c) PROVE NotStranded'
  <2>1. \A d \in Code : d # c => Steady(d)
    BY <1>17 DEF ExpireCode, Steady, Consumed, IInv, TypeOK
  <2>2. QED
    BY <1>17, <2>1, StrandStays DEF ExpireCode
<1>18. ASSUME NEW p \in Pair, ExpireAccess(p) PROVE NotStranded'
  <2>1. \A c \in Code : Steady(c)
    BY <1>18 DEF ExpireAccess, Steady, Consumed, IInv, TypeOK, Tokens
  <2>2. QED
    BY <1>18, <2>1, StrandStays DEF ExpireAccess
<1>19. ASSUME NEW p \in Pair, ExpireRefresh(p) PROVE NotStranded'
  <2>1. \A c \in Code : c # pair[p].root => Steady(c)
    BY <1>19 DEF ExpireRefresh, Steady, Consumed, IInv, TypeOK
  <2>2. QED
    BY <1>19, <2>1, StrandStays DEF ExpireRefresh
<1>20. ASSUME NEW o \in Account, RemoveAccount(o) PROVE NotStranded'
  <2>1. UNCHANGED <<req, hurt>> /\ doubted' = doubted \cup {o}
    BY <1>20 DEF RemoveAccount
  <2>2. \A c \in Code : /\ grant'[c].owner = grant[c].owner
                        /\ grant[c].owner # o => grant'[c] = grant[c]
    BY <1>20 DEF RemoveAccount, IInv, TypeOK, Grant
  <2>3. \A p \in Pair : /\ pair'[p].root = pair[p].root
                        /\ pair[p].owner # o => pair'[p] = pair[p]
    BY <1>20 DEF RemoveAccount, IInv, TypeOK, Tokens
  <2>4. \A p \in Pair : pair[p].refresh = "live" => grant[pair[p].root].owner = pair[p].owner
    BY DEF IInv, PairInv, PairOk, Approved
  <2>5. \A c \in Code : grant[c].owner = o \/ Steady(c)
    BY <2>1, <2>2, <2>3, <2>4 DEF Steady, Consumed
  <2>6. QED
    BY <2>1, <2>2, <2>5, StrandStays
<1>21. ASSUME NEW o \in Account, Judge(o) PROVE NotStranded'
  <2>1. \A c \in Code : Steady(c)
    BY <1>21 DEF Judge, Steady, Consumed
  <2>2. doubted \subseteq doubted' /\ UNCHANGED hurt
    BY <1>21 DEF Judge
  <2>3. QED
    BY <2>1, <2>2, StrandStays
<1>22. CASE Restart
  <2>1. UNCHANGED <<grant, pair, doubted>> /\ hurt \subseteq hurt'
    BY <1>22 DEF Restart
  <2>2. \A t \in Slot : Consumed(t) => req[t].root \in hurt'
    BY <1>22 DEF Restart, Consumed
  <2>3. \A c \in Code : c \in hurt' \/ Steady(c)
    BY <2>1, <2>2 DEF Steady
  <2>4. QED
    BY <2>1, <2>3, StrandStays
<1>23. QED
  BY <1>1, <1>2, <1>3, <1>4, <1>5, <1>6, <1>7, <1>8, <1>9, <1>10, <1>11, <1>12, <1>13, <1>14, <1>15, <1>16, <1>17, <1>18, <1>19, <1>20, <1>21, <1>22 DEF Next, Handler

\* A client is never stranded by what others do (exchangeAuthorizationCode and
\* exchangeRefreshToken spend what they were given before issueTokens), for any
\* number of exchanges that overlap.
THEOREM NotStrandedHolds == Spec => []NotStranded
<1>1. Init => NotStranded
  BY DEF Init, NoGrant, NotStranded
<1>2. IInv /\ NotStranded /\ [Next]_vars => NotStranded'
  <2> SUFFICES ASSUME IInv, NotStranded, [Next]_vars PROVE NotStranded'
    OBVIOUS
  <2>1. CASE UNCHANGED vars
    BY <2>1 DEF vars, NotStranded, Stands, Consumed
  <2>2. CASE Next
    BY <2>2, StrandNext
  <2>3. QED
    BY <2>1, <2>2
<1>3. QED
  BY <1>1, <1>2, InvariantHolds, PTL DEF Spec

-----------------------------------------------------------------------------
\* The values that the refinement gives to the variables of TokenPromise.
Approvals == {<<grant[c].owner, grant[c].client>> : c \in {d \in Code : grant[d].row # "none"}}
Holders == {<<pair[p].owner, pair[p].holder>> : p \in {q \in Pair : pair[q].holder # None}}
Serving == [s \in Slot |->
              IF At(s, "serving") THEN <<req[s].owner, req[s].client>> ELSE None]

SameApproval(c) ==
  /\ grant'[c].row # "none" <=> grant[c].row # "none"
  /\ grant[c].row # "none" => grant'[c].owner = grant[c].owner /\ grant'[c].client = grant[c].client
SameHolder(p) ==
  /\ pair'[p].holder = pair[p].holder
  /\ pair[p].holder # None => pair'[p].owner = pair[p].owner
SameCall(t) ==
  /\ req'[t].at = "serving" <=> req[t].at = "serving"
  /\ req[t].at = "serving" => req'[t] = req[t]

LEMMA ApprovalsSame ==
  ASSUME \A c \in Code : SameApproval(c)
  PROVE  Approvals' = Approvals
BY DEF Approvals, SameApproval

LEMMA HoldersSame ==
  ASSUME \A p \in Pair : SameHolder(p)
  PROVE  Holders' = Holders
BY DEF Holders, SameHolder

LEMMA ServingSame ==
  ASSUME \A t \in Slot : SameCall(t)
  PROVE  Serving' = Serving
BY DEF Serving, SameCall, At

LEMMA Stutters ==
  ASSUME UNCHANGED <<accounts, trusted>>, \A c \in Code : SameApproval(c),
         \A p \in Pair : SameHolder(p), \A t \in Slot : SameCall(t)
  PROVE  UNCHANGED Promise!vars
BY ApprovalsSame, HoldersSame, ServingSame DEF Promise!vars, Approvals, Holders, Serving

LEMMA PromiseInit == Init => Promise!Init
<1> SUFFICES ASSUME Init PROVE Promise!Init
  OBVIOUS
<1>1. Approvals = {} /\ Holders = {} /\ Serving = [s \in Slot |-> None]
  BY DEF Init, NoGrant, NoTokens, Idle, Approvals, Holders, Serving, At
<1>2. QED
  BY <1>1 DEF Init, Promise!Init, Approvals, Holders, Serving

LEMMA PromiseNext ==
  ASSUME IInv, Next
  PROVE  [Promise!Next]_Promise!vars
<1>1. ASSUME NEW k \in Client, RegisterClient(k) PROVE [Promise!Next]_Promise!vars
  BY <1>1, Stutters DEF RegisterClient, SameApproval, SameHolder, SameCall
<1>2. ASSUME NEW s \in Slot, NEW o \in Account, NEW k \in Client, ApproveAuthorization(s, o, k) PROVE [Promise!Next]_Promise!vars
  <2>1. UNCHANGED <<accounts, trusted, grant, pair>>
    BY <1>2 DEF ApproveAuthorization
  <2>2. \A t \in Slot : SameCall(t)
    BY <1>2 DEF ApproveAuthorization, SameCall, At, Ends, Moves, Idle, IInv, TypeOK, Request
  <2>3. QED
    BY <2>1, <2>2, Stutters DEF SameApproval, SameHolder
<1>3. ASSUME NEW s \in Slot, NEW c \in Code, SaveGrant(s, c) PROVE [Promise!Next]_Promise!vars
  <2>1. PICK o \in Account, k \in Client : o = req[s].owner /\ k = req[s].client
    BY <1>3 DEF SaveGrant, IInv, RequestInv, RequestOk
  <2>2. \A d \in Code : d # c => grant'[d] = grant[d]
    BY <1>3 DEF SaveGrant, IInv, TypeOK
  <2>3. grant[c].row = "none" /\ grant'[c].row = "live" /\ grant'[c].owner = o /\ grant'[c].client = k
    BY <1>3, <2>1 DEF SaveGrant, IInv, TypeOK
  <2>4. Approvals' = Approvals \cup {<<o, k>>}
    BY <2>2, <2>3 DEF Approvals
  <2>5. Holders' = Holders
    BY <1>3 DEF SaveGrant, Holders
  <2>6. Serving' = Serving
    <3>1. \A t \in Slot : SameCall(t)
      BY <1>3 DEF SaveGrant, SameCall, At, Ends, Idle, IInv, TypeOK
    <3>2. QED
      BY <3>1, ServingSame
  <2>7. o \in accounts /\ UNCHANGED <<accounts, trusted>>
    BY <1>3, <2>1 DEF SaveGrant
  <2>8. Promise!Approve(o, k)
    BY <2>4, <2>5, <2>6, <2>7 DEF Promise!Approve, Approvals, Holders, Serving
  <2>9. QED
    BY <2>8 DEF Promise!Next
<1>4. ASSUME NEW s \in Slot, NEW c \in Code, NEW k \in Client, NEW by \in Client, ExchangeCode(s, c, k, by) PROVE [Promise!Next]_Promise!vars
  <2>1. UNCHANGED <<accounts, trusted, grant, pair>>
    BY <1>4 DEF ExchangeCode
  <2>2. \A t \in Slot : SameCall(t)
    BY <1>4 DEF ExchangeCode, SameCall, At, Ends, Moves, Idle, IInv, TypeOK, Request
  <2>3. QED
    BY <2>1, <2>2, Stutters DEF SameApproval, SameHolder
<1>5. ASSUME NEW s \in Slot, NEW p \in Pair, NEW k \in Client, ExchangeRefresh(s, p, k) PROVE [Promise!Next]_Promise!vars
  <2>1. UNCHANGED <<accounts, trusted, grant, pair>>
    BY <1>5 DEF ExchangeRefresh
  <2>2. \A t \in Slot : SameCall(t)
    BY <1>5 DEF ExchangeRefresh, SameCall, At, Ends, Moves, Idle, IInv, TypeOK, Request
  <2>3. QED
    BY <2>1, <2>2, Stutters DEF SameApproval, SameHolder
<1>6. ASSUME NEW s \in Slot, Spend(s) PROVE [Promise!Next]_Promise!vars
  <2>1. UNCHANGED <<accounts, trusted>> /\ \A t \in Slot : SameCall(t)
    BY <1>6 DEF Spend, SameCall, At, Moves, IInv, TypeOK, Request
  <2>2. ASSUME NEW c \in Code PROVE SameApproval(c)
    <3>1. req[s].src = c => grant[c].row # "none"
      BY <1>6 DEF Spend, At, Exchanging, Approved, IInv, RequestInv, RequestOk
    <3>2. QED
      BY <1>6, <3>1 DEF Spend, SameApproval, IInv, TypeOK, Grant
  <2>3. ASSUME NEW p \in Pair PROVE SameHolder(p)
    <3>1. pair[p] \in Tokens
      BY DEF IInv, TypeOK
    <3>2. QED
      BY <1>6, <3>1 DEF Spend, SameHolder, IInv, TypeOK, Tokens
  <2>4. QED
    BY <2>1, <2>2, <2>3, Stutters
<1>7. ASSUME NEW s \in Slot, CheckOwner(s) PROVE [Promise!Next]_Promise!vars
  <2>1. UNCHANGED <<accounts, trusted, grant, pair>>
    BY <1>7 DEF CheckOwner
  <2>2. \A t \in Slot : SameCall(t)
    BY <1>7 DEF CheckOwner, SameCall, At, Ends, Moves, Idle, IInv, TypeOK, Request
  <2>3. QED
    BY <2>1, <2>2, Stutters DEF SameApproval, SameHolder
<1>8. ASSUME NEW s \in Slot, NEW p \in Pair, SaveAccess(s, p) PROVE [Promise!Next]_Promise!vars
  <2>1. UNCHANGED <<accounts, trusted, grant>>
    BY <1>8 DEF SaveAccess
  <2>2. ASSUME NEW t \in Slot PROVE SameCall(t)
    <3>1. req[t] \in Request /\ req' = [req EXCEPT ![s] = [req[s] EXCEPT !.at = "pairing", !.pair = p]]
      BY <1>8 DEF SaveAccess, IInv, TypeOK
    <3>2. QED
      BY <1>8, <3>1 DEF SaveAccess, SameCall, At, IInv, TypeOK, Request
  <2>3. pair[p].holder = None /\ pair'[p].holder = None /\ \A q \in Pair : q # p => pair'[q] = pair[q]
    BY <1>8 DEF SaveAccess, IInv, PairInv, PairOk, Used, NoTokens, TypeOK
  <2>4. QED
    BY <2>1, <2>2, <2>3, Stutters DEF SameApproval, SameHolder
<1>9. ASSUME NEW s \in Slot, SaveRefresh(s) PROVE [Promise!Next]_Promise!vars
  <2>1. UNCHANGED <<accounts, trusted, grant>>
    BY <1>9 DEF SaveRefresh
  <2>2. \A t \in Slot : SameCall(t)
    BY <1>9 DEF SaveRefresh, SameCall, At, Ends, Idle, IInv, TypeOK
  <2>3. PICK p \in Pair, o \in Account, k \in Client :
          p = req[s].pair /\ o = req[s].owner /\ k = req[s].client /\ k = req[s].by
    BY <1>9 DEF SaveRefresh, At, Exchanging, Approved, IInv, RequestInv, RequestOk, GrantInv
  <2>4. /\ pair[p] \in Tokens /\ pair[p].holder = None /\ pair[p].owner = o
        /\ <<o, k>> \in Approvals /\ o \in accounts
    BY <1>9, <2>3 DEF SaveRefresh, At, Exchanging, Approved, Approvals, IInv, RequestInv, RequestOk, TypeOK
  <2>5. \A q \in Pair : q # p => pair'[q] = pair[q]
    BY <1>9, <2>3 DEF SaveRefresh, IInv, TypeOK
  <2>6. \/ pair'[p] = [pair[p] EXCEPT !.refresh = "live"]
        \/ pair'[p] = [pair[p] EXCEPT !.refresh = "live", !.holder = k]
    BY <1>9, <2>3 DEF SaveRefresh, IInv, TypeOK
  <2>7. CASE pair'[p] = [pair[p] EXCEPT !.refresh = "live"]
    <3>1. \A q \in Pair : SameHolder(q)
      BY <2>4, <2>5, <2>7 DEF SameHolder, Tokens
    <3>2. QED
      BY <2>1, <2>2, <3>1, Stutters DEF SameApproval
  <2>8. CASE pair'[p] = [pair[p] EXCEPT !.refresh = "live", !.holder = k]
    <3>1. pair'[p].holder = k /\ pair'[p].owner = o /\ k # None
      BY <2>4, <2>8, NoneAssumption DEF Tokens
    <3>2. Holders' = Holders \cup {<<o, k>>}
      BY <2>4, <2>5, <3>1 DEF Holders
    <3>3. Serving' = Serving
      BY <2>2, ServingSame
    <3>4. Approvals' = Approvals
      BY <2>1 DEF Approvals
    <3>5. Promise!HandOut(o, k)
      BY <2>1, <2>4, <3>2, <3>3, <3>4 DEF Promise!HandOut, Approvals, Holders, Serving
    <3>6. QED
      BY <3>5 DEF Promise!Next
  <2>9. QED
    BY <2>6, <2>7, <2>8
<1>10. ASSUME NEW s \in Slot, RefreshFails(s) PROVE [Promise!Next]_Promise!vars
  <2>1. UNCHANGED <<accounts, trusted>> /\ \A t \in Slot : t # s => req'[t] = req[t]
    BY <1>10 DEF RefreshFails, Ends, Moves, IInv, TypeOK
  <2>2. \A t \in Slot : SameCall(t)
    BY <1>10, <2>1 DEF RefreshFails, SameCall, At, Ends, Moves, Idle, IInv, TypeOK, Request
  <2>3. \A c \in Code : SameApproval(c)
    BY <1>10 DEF RefreshFails, SameApproval, IInv, TypeOK, Grant
  <2>4. ASSUME NEW p \in Pair PROVE SameHolder(p)
    <3>1. pair[p] \in Tokens
      BY DEF IInv, TypeOK
    <3>2. QED
      BY <1>10, <3>1 DEF RefreshFails, SameHolder, IInv, TypeOK, Tokens
  <2>5. QED
    BY <2>1, <2>2, <2>3, <2>4, Stutters
<1>11. ASSUME NEW s \in Slot, HandlerFails(s) PROVE [Promise!Next]_Promise!vars
  <2>1. UNCHANGED <<accounts, trusted, grant, pair>>
    BY <1>11 DEF HandlerFails
  <2>2. \A t \in Slot : SameCall(t)
    BY <1>11 DEF HandlerFails, SameCall, At, Ends, Moves, Idle, IInv, TypeOK, Request
  <2>3. QED
    BY <2>1, <2>2, Stutters DEF SameApproval, SameHolder
<1>12. ASSUME NEW s \in Slot, NEW p \in Pair, NEW part \in {"access", "refresh"}, NEW k \in Client \cup {None},
             Revoke(s, p, part, k) PROVE [Promise!Next]_Promise!vars
  <2>1. UNCHANGED <<accounts, trusted, grant, pair>>
    BY <1>12 DEF Revoke
  <2>2. \A t \in Slot : SameCall(t)
    BY <1>12 DEF Revoke, SameCall, At, Ends, Moves, Idle, IInv, TypeOK, Request
  <2>3. QED
    BY <2>1, <2>2, Stutters DEF SameApproval, SameHolder
<1>13. ASSUME NEW s \in Slot, SaveRevocation(s) PROVE [Promise!Next]_Promise!vars
  <2>1. UNCHANGED <<accounts, trusted>> /\ \A t \in Slot : t # s => req'[t] = req[t]
    BY <1>13 DEF SaveRevocation, Ends, Moves, IInv, TypeOK
  <2>2. \A t \in Slot : SameCall(t)
    BY <1>13, <2>1 DEF SaveRevocation, SameCall, At, Ends, Moves, Idle, IInv, TypeOK, Request
  <2>3. \A c \in Code : SameApproval(c)
    BY <1>13 DEF SaveRevocation, SameApproval, IInv, TypeOK, Grant
  <2>4. ASSUME NEW p \in Pair PROVE SameHolder(p)
    <3>1. pair[p] \in Tokens
      BY DEF IInv, TypeOK
    <3>2. QED
      BY <1>13, <3>1 DEF SaveRevocation, SameHolder, IInv, TypeOK, Tokens
  <2>5. QED
    BY <2>1, <2>2, <2>3, <2>4, Stutters
<1>14. ASSUME NEW s \in Slot, NEW p \in Pair, VerifyToken(s, p) PROVE [Promise!Next]_Promise!vars
  <2>1. UNCHANGED <<accounts, trusted, grant, pair>>
    BY <1>14 DEF VerifyToken
  <2>2. \A t \in Slot : SameCall(t)
    BY <1>14 DEF VerifyToken, SameCall, At, Ends, Moves, Idle, IInv, TypeOK, Request
  <2>3. QED
    BY <2>1, <2>2, Stutters DEF SameApproval, SameHolder
<1>15. ASSUME NEW s \in Slot, VerifyOwner(s) PROVE [Promise!Next]_Promise!vars
  <2>1. UNCHANGED <<accounts, trusted, grant, pair>> /\ \A t \in Slot : t # s => req'[t] = req[t]
    BY <1>15 DEF VerifyOwner, Moves, Ends, IInv, TypeOK
  <2>2. CASE Allowed(req[s].owner)
    <3>1. PICK p \in Pair, o \in Account, k \in Client :
            /\ p = req[s].pair /\ o = req[s].owner /\ k = req[s].client
            /\ pair[p].holder = k /\ pair[p].owner = o
      BY <1>15 DEF VerifyOwner, At, Approved, IInv, RequestInv, RequestOk, PairInv, PairOk, GrantInv
    <3>2. <<o, k>> \in Holders
      BY <3>1, NoneAssumption DEF Holders
    <3>3. Serving[s] = None
      BY <1>15 DEF VerifyOwner, Serving, At
    <3>4. req'[s].at = "serving" /\ req'[s].owner = o /\ req'[s].client = k
      BY <1>15, <2>2, <3>1 DEF VerifyOwner, Moves, IInv, TypeOK, Request
    <3>5. Serving' = [Serving EXCEPT ![s] = <<o, k>>]
      BY <2>1, <3>4 DEF Serving, At
    <3>6. o \in accounts \cap trusted
      BY <2>2, <3>1 DEF Allowed
    <3>7. UNCHANGED <<accounts, trusted, Approvals, Holders>>
      BY <2>1 DEF Approvals, Holders
    <3>8. Promise!Serve(s, o, k)
      BY <3>2, <3>3, <3>5, <3>6, <3>7 DEF Promise!Serve, Approvals, Holders, Serving
    <3>9. QED
      BY <3>8 DEF Promise!Next
  <2>3. CASE ~Allowed(req[s].owner)
    <3>1. \A t \in Slot : SameCall(t)
      BY <1>15, <2>1, <2>3 DEF VerifyOwner, SameCall, At, Ends, Idle, IInv, TypeOK
    <3>2. QED
      BY <2>1, <3>1, Stutters DEF SameApproval, SameHolder
  <2>4. QED
    BY <2>2, <2>3
<1>16. ASSUME NEW s \in Slot, Answer(s) PROVE [Promise!Next]_Promise!vars
  <2>1. UNCHANGED <<accounts, trusted, grant, pair>> /\ \A t \in Slot : t # s => req'[t] = req[t]
    BY <1>16 DEF Answer, Ends, IInv, TypeOK
  <2>2. req[s].owner \in Account /\ req[s].client \in Client
    BY <1>16, NoneAssumption DEF Answer, At, Approved, IInv, RequestInv, RequestOk, PairInv, PairOk, GrantInv
  <2>3. Serving[s] # None
    BY <1>16, <2>2, NoneAssumption DEF Answer, Serving
  <2>4. req'[s].at = "free"
    BY <1>16 DEF Answer, Ends, Idle, IInv, TypeOK
  <2>5. Serving' = [Serving EXCEPT ![s] = None]
    BY <2>1, <2>4 DEF Serving, At
  <2>6. UNCHANGED <<accounts, trusted, Approvals, Holders>>
    BY <2>1 DEF Approvals, Holders
  <2>7. Promise!Finish(s)
    BY <2>3, <2>5, <2>6 DEF Promise!Finish, Approvals, Holders, Serving
  <2>8. QED
    BY <2>7 DEF Promise!Next
<1>17. ASSUME NEW c \in Code, ExpireCode(c) PROVE [Promise!Next]_Promise!vars
  <2>1. UNCHANGED <<accounts, trusted, req, pair>>
    BY <1>17 DEF ExpireCode
  <2>2. ASSUME NEW d \in Code PROVE SameApproval(d)
    <3>1. grant[d] \in Grant
      BY DEF IInv, TypeOK
    <3>2. QED
      BY <1>17, <3>1 DEF ExpireCode, SameApproval, IInv, TypeOK, Grant
  <2>3. QED
    BY <2>1, <2>2, Stutters DEF SameCall, SameHolder
<1>18. ASSUME NEW p \in Pair, ExpireAccess(p) PROVE [Promise!Next]_Promise!vars
  <2>1. UNCHANGED <<accounts, trusted, req>>
    BY <1>18 DEF ExpireAccess
  <2>2. \A d \in Code : SameApproval(d)
    BY <1>18 DEF ExpireAccess, SameApproval, IInv, TypeOK, Grant
  <2>3. \A q \in Pair : SameHolder(q)
    BY <1>18 DEF ExpireAccess, SameHolder, IInv, TypeOK, Tokens
  <2>4. QED
    BY <2>1, <2>2, <2>3, Stutters DEF SameCall, At
<1>19. ASSUME NEW p \in Pair, ExpireRefresh(p) PROVE [Promise!Next]_Promise!vars
  <2>1. UNCHANGED <<accounts, trusted, req>>
    BY <1>19 DEF ExpireRefresh
  <2>2. \A d \in Code : SameApproval(d)
    BY <1>19 DEF ExpireRefresh, SameApproval, IInv, TypeOK, Grant
  <2>3. \A q \in Pair : SameHolder(q)
    BY <1>19 DEF ExpireRefresh, SameHolder, IInv, TypeOK, Tokens
  <2>4. QED
    BY <2>1, <2>2, <2>3, Stutters DEF SameCall, At
<1>20. ASSUME NEW o \in Account, RemoveAccount(o) PROVE [Promise!Next]_Promise!vars
  <2>1. UNCHANGED <<trusted, req>> /\ accounts' = accounts \ {o}
    BY <1>20 DEF RemoveAccount
  <2>2. ASSUME NEW c \in Code PROVE SameApproval(c)
    BY <1>20 DEF RemoveAccount, SameApproval, Deleted, IInv, TypeOK, Grant
  <2>3. ASSUME NEW p \in Pair PROVE SameHolder(p)
    BY <1>20 DEF RemoveAccount, SameHolder, IInv, TypeOK, Tokens
  <2>4. UNCHANGED <<Approvals, Holders, Serving>>
    BY <2>1, <2>2, <2>3, ApprovalsSame, HoldersSame DEF Serving, At
  <2>5. Promise!Remove(o)
    BY <2>1, <2>4 DEF Promise!Remove, Approvals, Holders, Serving
  <2>6. QED
    BY <2>5 DEF Promise!Next
<1>21. ASSUME NEW o \in Account, Judge(o) PROVE [Promise!Next]_Promise!vars
  <2>1. UNCHANGED <<accounts, grant, pair, req>> /\ trusted' \in SUBSET Account
    BY <1>21 DEF Judge, IInv, TypeOK
  <2>2. UNCHANGED <<Approvals, Holders, Serving>>
    BY <2>1 DEF Approvals, Holders, Serving, At
  <2>3. PICK t \in SUBSET Account : t = trusted'
    BY <2>1
  <2>4. Promise!Judge(t)
    BY <2>1, <2>2, <2>3 DEF Promise!Judge, Approvals, Holders, Serving
  <2>5. QED
    BY <2>4 DEF Promise!Next
<1>22. CASE Restart
  <2>1. UNCHANGED <<accounts, trusted, grant, pair>>
    BY <1>22 DEF Restart
  <2>2. Serving' = [t \in Slot |-> None]
    BY <1>22 DEF Restart, Serving, At, Idle
  <2>3. UNCHANGED <<Approvals, Holders>>
    BY <2>1 DEF Approvals, Holders
  <2>4. Promise!Interrupt
    BY <2>1, <2>2, <2>3 DEF Promise!Interrupt, Approvals, Holders, Serving
  <2>5. QED
    BY <2>4 DEF Promise!Next
<1>23. QED
  BY <1>1, <1>2, <1>3, <1>4, <1>5, <1>6, <1>7, <1>8, <1>9, <1>10, <1>11, <1>12, <1>13, <1>14, <1>15, <1>16, <1>17, <1>18, <1>19, <1>20, <1>21, <1>22 DEF Next, Handler

\* The OAuth server keeps the promise of TokenPromise: every step of its
\* handlers is a step of the promise or changes nothing of it.
THEOREM PromiseKept == Spec => ImplementsPromise
<1>1. IInv /\ [Next]_vars => [Promise!Next]_Promise!vars
  <2> SUFFICES ASSUME IInv, [Next]_vars PROVE [Promise!Next]_Promise!vars
    OBVIOUS
  <2>1. CASE UNCHANGED vars
    BY <2>1 DEF vars, Promise!vars, At
  <2>2. CASE Next
    BY <2>2, PromiseNext
  <2>3. QED
    BY <2>1, <2>2
<1>2. QED
  BY <1>1, PromiseInit, InvariantHolds, PTL DEF Spec, ImplementsPromise, Promise!Spec
=============================================================================
