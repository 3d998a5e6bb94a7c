--------------------------- MODULE UrlPolicyProofs ---------------------------
(***************************************************************************)
(* UrlPolicy for every set of hosts and requests and every TTL: one lookup *)
(* of a host at a time, and nothing let through on an answer that was not  *)
(* "public", or is too old.                                                *)
(***************************************************************************)
EXTENDS UrlPolicy, TLAPS

LEMMA AnyHostOK == AnyHost \in Hosts
BY PolicyAssumption, Zenon DEF AnyHost

-----------------------------------------------------------------------------
(* Types.                                                                  *)

\* A request that moves on, is led or is answered stays a request.
LEMMA MoveType ==
  ASSUME NEW q \in Request,
         NEW a \in {"idle", "entering", "waiting", "resolving", "publishing", "done"},
         NEW l \in Requests \cup {None}, NEW v \in Results \cup {"none"}
  PROVE  /\ [q EXCEPT !.at = a] \in Request
         /\ [q EXCEPT !.at = a, !.leader = l] \in Request
         /\ [q EXCEPT !.at = a, !.verdict = v] \in Request
BY DEF Request

LEMMA ReqType ==
  ASSUME TypeOK, NEW r \in Requests, NEW q \in Request, req' = [req EXCEPT ![r] = q]
  PROVE  req' \in [Requests -> Request]
BY DEF TypeOK

LEMMA DoneType ==
  ASSUME TypeOK, NEW r \in Requests, NEW v \in Results, Done(r, v)
  PROVE  req' \in [Requests -> Request]
<1>1. req' = [req EXCEPT ![r] = [req[r] EXCEPT !.at = "done", !.verdict = v]]
  BY DEF Done, TypeOK
<1>2. [req[r] EXCEPT !.at = "done", !.verdict = v] \in Request
  BY MoveType DEF TypeOK
<1>3. QED
  BY <1>1, <1>2, ReqType

LEMMA InitTypeOK == Init => TypeOK
BY AnyHostOK, PolicyAssumption
DEF Init, TypeOK, Idle, Request, Times, Answers, Results, Never

LEMMA NextTypeOK == TypeOK /\ LookupsOpen /\ WaitersFollow /\ [Next]_vars => TypeOK'
<1> SUFFICES ASSUME TypeOK, LookupsOpen, WaitersFollow, [Next]_vars PROVE TypeOK'
  OBVIOUS
<1> USE PolicyAssumption
<1>1. ASSUME NEW r \in Requests, NEW h \in Hosts, Validate(r, h) PROVE TypeOK'
  BY <1>1, AnyHostOK DEF Validate, TypeOK, Request, Times, Answers, Results, Never, At, Host, Idle
<1>2. ASSUME NEW r \in Requests, UseCache(r) PROVE TypeOK'
  BY <1>2, DoneType DEF UseCache, TypeOK, Results
<1>3. ASSUME NEW r \in Requests, JoinLookup(r) PROVE TypeOK'
  <2>1. pending[Host(r)] \in Requests
    BY <1>3 DEF JoinLookup, TypeOK, Host, Request
  <2>2. [req[r] EXCEPT !.at = "waiting", !.leader = pending[Host(r)]] \in Request
    BY <2>1, MoveType DEF TypeOK, Results
  <2>3. req' = [req EXCEPT ![r] = [req[r] EXCEPT !.at = "waiting", !.leader = pending[Host(r)]]]
    BY <1>3 DEF JoinLookup, TypeOK
  <2>4. req' \in [Requests -> Request]
    BY <2>2, <2>3, ReqType
  <2>5. QED
    BY <1>3, <2>4 DEF JoinLookup, TypeOK, Host, Request, Never
<1>4. ASSUME NEW r \in Requests, LeadLookup(r) PROVE TypeOK'
  BY <1>4, AnyHostOK DEF LeadLookup, TypeOK, Request, Times, Answers, Results, Never, At, Host
<1>5. ASSUME NEW r \in Requests, Resolve(r) PROVE TypeOK'
  <2>1. PICK v \in Results : req' = [req EXCEPT ![r].at = "publishing", ![r].verdict = v]
    BY <1>5 DEF Resolve
  <2>2. req' = [req EXCEPT ![r] = [req[r] EXCEPT !.at = "publishing", !.verdict = v]]
    BY <2>1 DEF TypeOK
  <2>3. req' \in [Requests -> Request]
    BY <2>2, MoveType, ReqType DEF TypeOK
  <2>4. QED
    BY <1>5, <2>3 DEF Resolve, TypeOK
<1>6. ASSUME NEW r \in Requests, Publish(r) PROVE TypeOK'
  <2>1. req[r].verdict \in Results \cup {"none"} /\ Host(r) \in Hosts
    BY DEF TypeOK, Request, Host
  <2>2. req[r].verdict \in Results
    BY <1>6 DEF Publish, LookupsOpen
  <2>3. req' \in [Requests -> Request]
    BY <1>6, <2>2, DoneType DEF Publish
  <2>4. now + TTL \in Nat /\ now \in Times
    BY DEF TypeOK, Times
  <2>5. cache' \in [Hosts -> {Never} \cup Nat]
    BY <1>6, <2>4 DEF Publish, TypeOK
  <2>6. pending' \in [Hosts -> Requests \cup {None}] /\ latest' \in [Hosts -> Results \cup {"none"}]
    BY <1>6, <2>2 DEF Publish, TypeOK
  <2>7. /\ lookup' \in [Requests -> Results \cup {"none", "open"}]
        /\ published' \in [Requests -> {Never} \cup Times]
    BY <1>6, <2>2, <2>4 DEF Publish, TypeOK
  <2>8. QED
    BY <1>6, <2>3, <2>5, <2>6, <2>7 DEF Publish, TypeOK
<1>7. ASSUME NEW r \in Requests, TakeResult(r) PROVE TypeOK'
  <2>1. req[r].leader \in Requests /\ lookup[req[r].leader] \in Results
    BY <1>7 DEF TakeResult, At, TypeOK, WaitersFollow, LookupsOpen
  <2>2. req' \in [Requests -> Request]
    BY <1>7, <2>1, DoneType DEF TakeResult
  <2>3. QED
    BY <1>7, <2>2 DEF TakeResult, TypeOK
<1>8. ASSUME NEW r \in Requests, GiveUp(r) PROVE TypeOK'
  BY <1>8, DoneType DEF GiveUp, TypeOK, Results
<1>9. ASSUME NEW r \in Requests, ContextEnds(r) PROVE TypeOK'
  BY <1>9, AnyHostOK DEF ContextEnds, TypeOK, Request, Times, Answers, Results, Never, At, Host
<1>10. ASSUME NEW h \in Hosts, DnsChanges(h) PROVE TypeOK'
  BY <1>10, AnyHostOK DEF DnsChanges, TypeOK, Request, Times, Answers, Results, Never, At, Host
<1>11. ASSUME Tick PROVE TypeOK'
  BY <1>11, AnyHostOK DEF Tick, TypeOK, Request, Times, Answers, Results, Never, At, Host
<1>12. CASE UNCHANGED vars
  BY <1>12 DEF TypeOK, vars
<1>13. QED
  BY <1>1, <1>2, <1>3, <1>4, <1>5, <1>6, <1>7, <1>8, <1>9, <1>10, <1>11, <1>12 DEF Next, Step

-----------------------------------------------------------------------------
(* What a step does to its request, and to no other.                       *)

Invariants ==
  /\ ClockRead /\ LeaderIsPending /\ LookupsOpen /\ WaitersFollow /\ EntriesArePublished
  /\ EndedLookups /\ RefusalNotCached /\ AllowedIsFresh /\ WaitersDoNotCancel

\* Who was let through stays so: a lookup that was published is not touched.
LEMMA StaysFresh ==
  ASSUME AllowedIsFresh, NEW r \in Requests,
         \A s \in Requests : s # r => req'[s] = req[s],
         \A s \in Requests : lookup[s] = "public" =>
           /\ req'[s].host = req[s].host
           /\ lookup'[s] = "public" /\ published'[s] = published[s],
         req'[r].at = "done" /\ req'[r].verdict = "public" =>
           \E s \in Requests :
             /\ req'[s].host = req'[r].host /\ lookup'[s] = "public"
             /\ req'[r].seen < published'[s] + TTL
  PROVE  AllowedIsFresh'
<1> SUFFICES ASSUME NEW q \in Requests, q # r, req[q].at = "done", req[q].verdict = "public"
             PROVE  \E s \in Requests :
                      /\ req'[s].host = req[q].host /\ lookup'[s] = "public"
                      /\ req[q].seen < published'[s] + TTL
  BY DEF AllowedIsFresh, At, Host
<1>1. PICK s \in Requests : /\ req[s].host = req[q].host /\ lookup[s] = "public"
                            /\ req[q].seen < published[s] + TTL
  BY DEF AllowedIsFresh, At, Host
<1>2. QED
  BY <1>1

LEMMA ValidateKeeps ==
  ASSUME TypeOK, TypeOK', Invariants, NEW r \in Requests, NEW h \in Hosts, Validate(r, h)
  PROVE  Invariants'
<1>1. /\ \A s \in Requests : s # r => req'[s] = req[s]
      /\ req'[r].at = "entering" /\ req'[r].host = h /\ req'[r].seen = now /\ req[r].at = "idle"
  BY DEF Validate, TypeOK, Request, Idle, At
<1>2. ClockRead'
  BY <1>1 DEF Invariants, Validate, ClockRead, TypeOK, Times
<1>3. LeaderIsPending'
  BY <1>1 DEF Invariants, Validate, LeaderIsPending, Host
<1>4. LookupsOpen'
  BY <1>1 DEF Invariants, Validate, LookupsOpen, At
<1>5. WaitersFollow'
  BY <1>1 DEF Invariants, Validate, WaitersFollow, LookupsOpen, At, Host
<1>6. EntriesArePublished'
  BY <1>1 DEF Invariants, Validate, EntriesArePublished, LookupsOpen, Host
<1>7. EndedLookups'
  BY <1>1 DEF Invariants, Validate, EndedLookups, At
<1>8. RefusalNotCached'
  BY <1>1 DEF Invariants, Validate, RefusalNotCached
<1>9. AllowedIsFresh'
  BY <1>1 DEF Invariants, Validate, AllowedIsFresh, LookupsOpen, At, Host
<1>10. WaitersDoNotCancel'
  BY <1>1 DEF Invariants, Validate, WaitersDoNotCancel, At
<1>11. QED
  BY <1>2, <1>3, <1>4, <1>5, <1>6, <1>7, <1>8, <1>9, <1>10 DEF Invariants

LEMMA UseCacheKeeps ==
  ASSUME TypeOK, TypeOK', Invariants, NEW r \in Requests, UseCache(r)
  PROVE  Invariants'
<1>1. /\ \A s \in Requests : s # r => req'[s] = req[s]
      /\ req'[r].at = "done" /\ req'[r].verdict = "public" /\ req[r].at = "entering"
      /\ req'[r].host = req[r].host /\ req'[r].seen = req[r].seen /\ req'[r].leader = req[r].leader
  BY DEF UseCache, TypeOK, Request, At, Done, Host
<1>2. ClockRead'
  BY <1>1 DEF Invariants, UseCache, ClockRead
<1>3. LeaderIsPending'
  BY <1>1 DEF Invariants, UseCache, LeaderIsPending, TypeOK, Host
<1>4. LookupsOpen'
  BY <1>1 DEF Invariants, UseCache, LookupsOpen, At
<1>5. WaitersFollow'
  BY <1>1 DEF Invariants, UseCache, WaitersFollow, At, Host
<1>6. EntriesArePublished'
  BY <1>1 DEF Invariants, UseCache, EntriesArePublished, Host
<1>7. EndedLookups'
  BY <1>1 DEF Invariants, UseCache, EndedLookups, At
<1>8. RefusalNotCached'
  BY <1>1 DEF Invariants, UseCache, RefusalNotCached
<1>9. AllowedIsFresh'
  <2>1. \A s \in Requests : lookup[s] = "public" =>
          /\ req'[s].host = req[s].host
          /\ lookup'[s] = "public" /\ published'[s] = published[s]
    BY <1>1 DEF Invariants, UseCache, LookupsOpen, At, TypeOK
  <2>2. PICK s \in Requests :
          Host(s) = Host(r) /\ lookup[s] = "public" /\ cache[Host(r)] = published[s] + TTL
    BY DEF Invariants, EntriesArePublished, UseCache, Cached, TypeOK, Request, Host
  <2>3. req[r].seen < published[s] + TTL
    BY <2>2 DEF UseCache, Cached
  <2>4. QED
    BY <1>1, <2>1, <2>2, <2>3, StaysFresh DEF Invariants, Host
<1>10. WaitersDoNotCancel'
  BY <1>1 DEF Invariants, UseCache, WaitersDoNotCancel, At
<1>11. QED
  BY <1>2, <1>3, <1>4, <1>5, <1>6, <1>7, <1>8, <1>9, <1>10 DEF Invariants

LEMMA JoinLookupKeeps ==
  ASSUME TypeOK, TypeOK', Invariants, NEW r \in Requests, JoinLookup(r)
  PROVE  Invariants'
<1>1. /\ \A s \in Requests : s # r => req'[s] = req[s]
      /\ req'[r].at = "waiting" /\ req'[r].leader = pending[Host(r)] /\ req[r].at = "entering"
      /\ req'[r].host = req[r].host /\ req'[r].seen = req[r].seen
  BY DEF JoinLookup, TypeOK, Request, At, Done, Host
<1>2. ClockRead'
  BY <1>1 DEF Invariants, JoinLookup, ClockRead
<1>3. LeaderIsPending'
  BY <1>1 DEF Invariants, JoinLookup, LeaderIsPending, TypeOK, Host
<1>4. LookupsOpen'
  BY <1>1 DEF Invariants, JoinLookup, LookupsOpen, At
<1>5. WaitersFollow'
  BY <1>1 DEF Invariants, JoinLookup, WaitersFollow, LookupsOpen, LeaderIsPending, TypeOK, At, Host
<1>6. EntriesArePublished'
  BY <1>1 DEF Invariants, JoinLookup, EntriesArePublished, TypeOK, Host
<1>7. EndedLookups'
  BY <1>1 DEF Invariants, JoinLookup, EndedLookups, At
<1>8. RefusalNotCached'
  BY <1>1 DEF Invariants, JoinLookup, RefusalNotCached
<1>9. AllowedIsFresh'
  <2>1. \A s \in Requests : lookup[s] = "public" =>
          /\ req'[s].host = req[s].host
          /\ lookup'[s] = "public" /\ published'[s] = published[s]
    BY <1>1 DEF Invariants, JoinLookup, LookupsOpen, At, TypeOK
  <2>2. QED
    BY <1>1, <2>1, StaysFresh DEF Invariants
<1>10. WaitersDoNotCancel'
  BY <1>1 DEF Invariants, JoinLookup, WaitersDoNotCancel, TypeOK, At
<1>11. QED
  BY <1>2, <1>3, <1>4, <1>5, <1>6, <1>7, <1>8, <1>9, <1>10 DEF Invariants

LEMMA LeadLookupKeeps ==
  ASSUME TypeOK, TypeOK', Invariants, NEW r \in Requests, LeadLookup(r)
  PROVE  Invariants'
<1>1. /\ \A s \in Requests : s # r => req'[s] = req[s]
      /\ req'[r].at = "resolving" /\ req[r].at = "entering"
      /\ req'[r].host = req[r].host /\ req'[r].seen = req[r].seen /\ req'[r].leader = req[r].leader
  BY DEF LeadLookup, TypeOK, Request, At, Done, Host
<1>2. ClockRead'
  BY <1>1 DEF Invariants, LeadLookup, ClockRead
<1>3. LeaderIsPending'
  BY <1>1, PolicyAssumption DEF Invariants, LeadLookup, LeaderIsPending, TypeOK, Host
<1>4. LookupsOpen'
  BY <1>1 DEF Invariants, LeadLookup, LookupsOpen, TypeOK, Results, At
<1>5. WaitersFollow'
  BY <1>1 DEF Invariants, LeadLookup, WaitersFollow, At, Host
<1>6. EntriesArePublished'
  BY <1>1 DEF Invariants, LeadLookup, EntriesArePublished, LookupsOpen, Host
<1>7. EndedLookups'
  BY <1>1 DEF Invariants, LeadLookup, EndedLookups, At
<1>8. RefusalNotCached'
  BY <1>1 DEF Invariants, LeadLookup, RefusalNotCached
<1>9. AllowedIsFresh'
  <2>1. \A s \in Requests : lookup[s] = "public" =>
          /\ req'[s].host = req[s].host
          /\ lookup'[s] = "public" /\ published'[s] = published[s]
    BY <1>1 DEF Invariants, LeadLookup, LookupsOpen, At, TypeOK
  <2>2. QED
    BY <1>1, <2>1, StaysFresh DEF Invariants
<1>10. WaitersDoNotCancel'
  BY <1>1 DEF Invariants, LeadLookup, WaitersDoNotCancel, At
<1>11. QED
  BY <1>2, <1>3, <1>4, <1>5, <1>6, <1>7, <1>8, <1>9, <1>10 DEF Invariants

LEMMA ResolveKeeps ==
  ASSUME TypeOK, TypeOK', Invariants, NEW r \in Requests, Resolve(r)
  PROVE  Invariants'
<1>1. /\ \A s \in Requests : s # r => req'[s] = req[s]
      /\ req'[r].at = "publishing" /\ req'[r].verdict \in Results /\ req[r].at = "resolving"
      /\ req'[r].host = req[r].host /\ req'[r].seen = req[r].seen /\ req'[r].leader = req[r].leader
  BY DEF Resolve, TypeOK, Request, At, Done, Host
<1>2. ClockRead'
  BY <1>1 DEF Invariants, Resolve, ClockRead
<1>3. LeaderIsPending'
  BY <1>1 DEF Invariants, Resolve, LeaderIsPending, TypeOK, Host
<1>4. LookupsOpen'
  BY <1>1 DEF Invariants, Resolve, LookupsOpen, At
<1>5. WaitersFollow'
  BY <1>1 DEF Invariants, Resolve, WaitersFollow, TypeOK, At, Host
<1>6. EntriesArePublished'
  BY <1>1 DEF Invariants, Resolve, EntriesArePublished, TypeOK, Host
<1>7. EndedLookups'
  <2>1. req'[r].verdict = "ended" => r \in ended
    BY <1>1 DEF Resolve, Answers, TypeOK, Host, Request
  <2>2. QED
    BY <1>1, <2>1 DEF Resolve, Invariants, EndedLookups, At
<1>8. RefusalNotCached'
  BY <1>1 DEF Invariants, Resolve, RefusalNotCached
<1>9. AllowedIsFresh'
  <2>1. \A s \in Requests : lookup[s] = "public" =>
          /\ req'[s].host = req[s].host
          /\ lookup'[s] = "public" /\ published'[s] = published[s]
    BY <1>1 DEF Invariants, Resolve, LookupsOpen, At, TypeOK
  <2>2. QED
    BY <1>1, <2>1, StaysFresh DEF Invariants
<1>10. WaitersDoNotCancel'
  BY <1>1 DEF Invariants, Resolve, WaitersDoNotCancel, At
<1>11. QED
  BY <1>2, <1>3, <1>4, <1>5, <1>6, <1>7, <1>8, <1>9, <1>10 DEF Invariants

LEMMA PublishKeeps ==
  ASSUME TypeOK, TypeOK', Invariants, NEW r \in Requests, Publish(r)
  PROVE  Invariants'
<1>1. /\ \A s \in Requests : s # r => req'[s] = req[s]
      /\ req'[r].at = "done" /\ req'[r].verdict = req[r].verdict /\ req[r].at = "publishing"
      /\ req'[r].host = req[r].host /\ req'[r].seen = req[r].seen /\ req'[r].leader = req[r].leader
  BY DEF Publish, TypeOK, Request, At, Done, Host
<1>2. ClockRead'
  BY <1>1 DEF Invariants, Publish, ClockRead
<1>3. LeaderIsPending'
  BY <1>1 DEF Invariants, Publish, LeaderIsPending, TypeOK, Host
<1>4. LookupsOpen'
  BY <1>1 DEF Invariants, Publish, LookupsOpen, TypeOK, Results, At
<1>5. WaitersFollow'
  <2>1. /\ lookup'[r] \in Results /\ published'[r] = now
        /\ \A s \in Requests : s # r => lookup'[s] = lookup[s] /\ published'[s] = published[s]
    BY <1>1 DEF Publish, Invariants, LookupsOpen, At, TypeOK
  <2>2. SUFFICES ASSUME NEW q \in Requests, req[q].at = "waiting"
                 PROVE  LET s == req[q].leader
                        IN  /\ s \in Requests /\ req'[s].host = req[q].host /\ lookup'[s] # "none"
                            /\ lookup'[s] # "open" => req[q].seen <= published'[s]
    BY <1>1 DEF WaitersFollow, At, Host
  <2>3. req[q].leader \in Requests /\ req[req[q].leader].host = req[q].host
    BY <2>2 DEF Invariants, WaitersFollow, At, Host
  <2>4. CASE req[q].leader = r
    BY <1>1, <2>1, <2>3, <2>4 DEF Invariants, ClockRead, Results
  <2>5. CASE req[q].leader # r
    BY <1>1, <2>1, <2>2, <2>3, <2>5 DEF Invariants, WaitersFollow, At
  <2>6. QED
    BY <2>4, <2>5
<1>6. EntriesArePublished'
  BY <1>1 DEF Invariants, Publish, EntriesArePublished, LookupsOpen, TypeOK, Host
<1>7. EndedLookups'
  BY <1>1 DEF Invariants, Publish, EndedLookups, At
<1>8. RefusalNotCached'
  BY <1>1, PolicyAssumption DEF Invariants, Publish, RefusalNotCached, LeaderIsPending, TypeOK
<1>9. AllowedIsFresh'
  <2>1. \A s \in Requests : lookup[s] = "public" =>
          /\ req'[s].host = req[s].host
          /\ lookup'[s] = "public" /\ published'[s] = published[s]
    BY <1>1 DEF Invariants, Publish, LookupsOpen, At, TypeOK
  <2>2. lookup'[r] = req[r].verdict /\ published'[r] = now
    BY DEF Publish, TypeOK
  <2>3. req[r].seen < now + TTL
    BY PolicyAssumption DEF Invariants, ClockRead, TypeOK, Request, Times
  <2>4. QED
    BY <1>1, <2>1, <2>2, <2>3, StaysFresh DEF Invariants
<1>10. WaitersDoNotCancel'
  BY <1>1 DEF Invariants, Publish, WaitersDoNotCancel, EndedLookups, At
<1>11. QED
  BY <1>2, <1>3, <1>4, <1>5, <1>6, <1>7, <1>8, <1>9, <1>10 DEF Invariants

LEMMA TakeResultKeeps ==
  ASSUME TypeOK, TypeOK', Invariants, NEW r \in Requests, TakeResult(r)
  PROVE  Invariants'
<1>1. /\ \A s \in Requests : s # r => req'[s] = req[s]
      /\ req'[r].at = "done" /\ req'[r].verdict = lookup[req[r].leader] /\ req[r].at = "waiting"
      /\ req'[r].host = req[r].host /\ req'[r].seen = req[r].seen /\ req'[r].leader = req[r].leader
  BY DEF TakeResult, TypeOK, Request, At, Done, Host
<1>2. ClockRead'
  BY <1>1 DEF Invariants, TakeResult, ClockRead
<1>3. LeaderIsPending'
  BY <1>1 DEF Invariants, TakeResult, LeaderIsPending, TypeOK, Host
<1>4. LookupsOpen'
  BY <1>1 DEF Invariants, TakeResult, LookupsOpen, At
<1>5. WaitersFollow'
  BY <1>1 DEF Invariants, TakeResult, WaitersFollow, Times, At, Host
<1>6. EntriesArePublished'
  BY <1>1 DEF Invariants, TakeResult, EntriesArePublished, Host
<1>7. EndedLookups'
  BY <1>1 DEF Invariants, TakeResult, EndedLookups, At
<1>8. RefusalNotCached'
  BY <1>1 DEF Invariants, TakeResult, RefusalNotCached
<1>9. AllowedIsFresh'
  BY <1>1, PolicyAssumption
  DEF Invariants, TakeResult, AllowedIsFresh, LookupsOpen, WaitersFollow, ClockRead, TypeOK,
      Request, Times, Results, At, Host, Never
<1>10. WaitersDoNotCancel'
  BY <1>1 DEF Invariants, TakeResult, WaitersDoNotCancel, EndedLookups, WaitersFollow, At
<1>11. QED
  BY <1>2, <1>3, <1>4, <1>5, <1>6, <1>7, <1>8, <1>9, <1>10 DEF Invariants

LEMMA GiveUpKeeps ==
  ASSUME TypeOK, TypeOK', Invariants, NEW r \in Requests, GiveUp(r)
  PROVE  Invariants'
<1>1. /\ \A s \in Requests : s # r => req'[s] = req[s]
      /\ req'[r].at = "done" /\ req'[r].verdict = "ended" /\ req[r].at = "waiting"
      /\ req'[r].host = req[r].host /\ req'[r].seen = req[r].seen /\ req'[r].leader = req[r].leader
  BY DEF GiveUp, TypeOK, Request, At, Done, Host
<1>2. ClockRead'
  BY <1>1 DEF Invariants, GiveUp, ClockRead
<1>3. LeaderIsPending'
  BY <1>1 DEF Invariants, GiveUp, LeaderIsPending, TypeOK, Host
<1>4. LookupsOpen'
  BY <1>1 DEF Invariants, GiveUp, LookupsOpen, At
<1>5. WaitersFollow'
  BY <1>1 DEF Invariants, GiveUp, WaitersFollow, At, Host, Never
<1>6. EntriesArePublished'
  BY <1>1 DEF Invariants, GiveUp, EntriesArePublished, Host
<1>7. EndedLookups'
  BY <1>1 DEF Invariants, GiveUp, EndedLookups, At
<1>8. RefusalNotCached'
  BY <1>1 DEF Invariants, GiveUp, RefusalNotCached
<1>9. AllowedIsFresh'
  <2>1. \A s \in Requests : lookup[s] = "public" =>
          /\ req'[s].host = req[s].host
          /\ lookup'[s] = "public" /\ published'[s] = published[s]
    BY <1>1 DEF Invariants, GiveUp, LookupsOpen, At, TypeOK
  <2>2. QED
    BY <1>1, <2>1, StaysFresh DEF Invariants
<1>10. WaitersDoNotCancel'
  BY <1>1 DEF Invariants, GiveUp, WaitersDoNotCancel, At
<1>11. QED
  BY <1>2, <1>3, <1>4, <1>5, <1>6, <1>7, <1>8, <1>9, <1>10 DEF Invariants

LEMMA ContextEndsKeeps ==
  ASSUME TypeOK, TypeOK', Invariants, NEW r \in Requests, ContextEnds(r)
  PROVE  Invariants'
<1>2. ClockRead'
  BY DEF Invariants, ContextEnds, ClockRead
<1>3. LeaderIsPending'
  BY DEF Invariants, ContextEnds, LeaderIsPending, Host
<1>4. LookupsOpen'
  BY DEF Invariants, ContextEnds, LookupsOpen, At
<1>5. WaitersFollow'
  BY DEF Invariants, ContextEnds, WaitersFollow, At, Host
<1>6. EntriesArePublished'
  BY DEF Invariants, ContextEnds, EntriesArePublished, Host
<1>7. EndedLookups'
  BY DEF Invariants, ContextEnds, EndedLookups, At
<1>8. RefusalNotCached'
  BY DEF Invariants, ContextEnds, RefusalNotCached
<1>9. AllowedIsFresh'
  BY DEF Invariants, ContextEnds, AllowedIsFresh, At, Host
<1>10. WaitersDoNotCancel'
  BY DEF Invariants, ContextEnds, WaitersDoNotCancel, At
<1>11. QED
  BY <1>2, <1>3, <1>4, <1>5, <1>6, <1>7, <1>8, <1>9, <1>10 DEF Invariants

LEMMA DnsChangesKeeps ==
  ASSUME TypeOK, TypeOK', Invariants, NEW h \in Hosts, DnsChanges(h)
  PROVE  Invariants'
<1>2. ClockRead'
  BY DEF Invariants, DnsChanges, ClockRead
<1>3. LeaderIsPending'
  BY DEF Invariants, DnsChanges, LeaderIsPending, Host
<1>4. LookupsOpen'
  BY DEF Invariants, DnsChanges, LookupsOpen, At
<1>5. WaitersFollow'
  BY DEF Invariants, DnsChanges, WaitersFollow, At, Host
<1>6. EntriesArePublished'
  BY DEF Invariants, DnsChanges, EntriesArePublished, Host
<1>7. EndedLookups'
  BY DEF Invariants, DnsChanges, EndedLookups, At
<1>8. RefusalNotCached'
  BY DEF Invariants, DnsChanges, RefusalNotCached
<1>9. AllowedIsFresh'
  BY DEF Invariants, DnsChanges, AllowedIsFresh, At, Host
<1>10. WaitersDoNotCancel'
  BY DEF Invariants, DnsChanges, WaitersDoNotCancel, At
<1>11. QED
  BY <1>2, <1>3, <1>4, <1>5, <1>6, <1>7, <1>8, <1>9, <1>10 DEF Invariants

LEMMA TickKeeps ==
  ASSUME TypeOK, TypeOK', Invariants, Tick
  PROVE  Invariants'
<1>2. ClockRead'
  BY DEF Invariants, Tick, ClockRead, TypeOK, Request, Times
<1>3. LeaderIsPending'
  BY DEF Invariants, Tick, LeaderIsPending, Host
<1>4. LookupsOpen'
  BY DEF Invariants, Tick, LookupsOpen, At
<1>5. WaitersFollow'
  BY DEF Invariants, Tick, WaitersFollow, At, Host
<1>6. EntriesArePublished'
  BY DEF Invariants, Tick, EntriesArePublished, Host
<1>7. EndedLookups'
  BY DEF Invariants, Tick, EndedLookups, At
<1>8. RefusalNotCached'
  BY DEF Invariants, Tick, RefusalNotCached
<1>9. AllowedIsFresh'
  BY DEF Invariants, Tick, AllowedIsFresh, At, Host
<1>10. WaitersDoNotCancel'
  BY DEF Invariants, Tick, WaitersDoNotCancel, At
<1>11. QED
  BY <1>2, <1>3, <1>4, <1>5, <1>6, <1>7, <1>8, <1>9, <1>10 DEF Invariants

-----------------------------------------------------------------------------
LEMMA InitHolds == Init => IInv
<1> SUFFICES ASSUME Init PROVE IInv
  OBVIOUS
<1>1. TypeOK
  BY InitTypeOK
<1>2. ClockRead /\ LeaderIsPending /\ LookupsOpen /\ WaitersFollow /\ EntriesArePublished
  BY PolicyAssumption
  DEF Init, Idle, ClockRead, LeaderIsPending, LookupsOpen, WaitersFollow, EntriesArePublished,
      At, Results
<1>3. EndedLookups /\ RefusalNotCached /\ AllowedIsFresh /\ WaitersDoNotCancel
  BY DEF Init, Idle, EndedLookups, RefusalNotCached, AllowedIsFresh, WaitersDoNotCancel, At
<1>4. QED
  BY <1>1, <1>2, <1>3 DEF IInv

LEMMA StepHolds == IInv /\ [Next]_vars => IInv'
<1> SUFFICES ASSUME IInv, [Next]_vars PROVE IInv'
  OBVIOUS
<1>1. TypeOK /\ TypeOK' /\ Invariants
  BY NextTypeOK DEF IInv, Invariants
<1>2. CASE Next
  <2>1. ASSUME NEW r \in Requests, NEW h \in Hosts, Validate(r, h) PROVE Invariants'
    BY <1>1, <2>1, ValidateKeeps
  <2>2. ASSUME NEW r \in Requests, Step(r) PROVE Invariants'
    BY <1>1, <2>2, UseCacheKeeps, JoinLookupKeeps, LeadLookupKeeps, ResolveKeeps,
       PublishKeeps, TakeResultKeeps, GiveUpKeeps DEF Step
  <2>3. ASSUME NEW r \in Requests, ContextEnds(r) PROVE Invariants'
    BY <1>1, <2>3, ContextEndsKeeps
  <2>4. ASSUME NEW h \in Hosts, DnsChanges(h) PROVE Invariants'
    BY <1>1, <2>4, DnsChangesKeeps
  <2>5. ASSUME Tick PROVE Invariants'
    BY <1>1, <2>5, TickKeeps
  <2>6. QED
    BY <1>1, <1>2, <2>1, <2>2, <2>3, <2>4, <2>5 DEF Next, IInv, Invariants
<1>3. CASE UNCHANGED vars
  <2>1. Invariants'
    BY <1>1, <1>3
    DEF vars, Invariants, ClockRead, LeaderIsPending, LookupsOpen, WaitersFollow,
        EntriesArePublished, EndedLookups, RefusalNotCached, AllowedIsFresh,
        WaitersDoNotCancel, At, Host
  <2>2. QED
    BY <1>1, <2>1 DEF IInv, Invariants
<1>4. QED
  BY <1>2, <1>3

\* The policy's invariant, for all hosts, requests and TTLs.
THEOREM PolicyHolds == Spec => []IInv
BY InitHolds, StepHolds, PTL DEF Spec

\* No two requests resolve a host at once, whoever gave up meanwhile
\* (PublicURLPolicy.Validate).
THEOREM SingleFlightHolds == Spec => []SingleFlight
<1>1. IInv => SingleFlight
  BY DEF IInv, LeaderIsPending, SingleFlight
<1>2. QED
  BY <1>1, PolicyHolds, PTL

\* What the cache lets through was the latest result of its host.
THEOREM RefusalsHold == Spec => []RefusalNotCached
<1>1. IInv => RefusalNotCached
  BY DEF IInv
<1>2. QED
  BY <1>1, PolicyHolds, PTL

\* Nothing is let through on an answer older than the TTL.
THEOREM FreshnessHolds == Spec => []AllowedIsFresh
<1>1. IInv => AllowedIsFresh
  BY DEF IInv
<1>2. QED
  BY <1>1, PolicyHolds, PTL

\* No request waits in a lookup it has left: who gives up, or whose context
\* ends, does not cancel it for the others.
THEOREM WaitersHold == Spec => []WaitersDoNotCancel
<1>1. IInv => WaitersDoNotCancel
  BY DEF IInv
<1>2. QED
  BY <1>1, PolicyHolds, PTL
=============================================================================
