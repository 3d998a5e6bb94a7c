----------------------------- MODULE UrlPolicy -----------------------------
(***************************************************************************)
(* PublicURLPolicy.Validate (internal/browser/url.go) for hosts that are   *)
(* names: a short cache of hosts found public and one lookup shared by all *)
(* requests that arrive meanwhile, while DNS changes its answers and       *)
(* contexts end at any time.  The map and the lookups under way are        *)
(* guarded by a mutex; the clock is read before it is locked.              *)
(***************************************************************************)
EXTENDS Integers

CONSTANTS
  Hosts,
  Requests,   \* calls of Validate, each with its own context
  None,       \* no request
  TTL,        \* cacheTTL
  MaxTime,    \* bound: ticks of the clock
  MaxChanges  \* bound: changes of what DNS answers

ASSUME PolicyAssumption ==
  /\ Hosts # {} /\ None \notin Requests
  /\ TTL \in Nat \ {0} /\ MaxTime \in Nat /\ MaxChanges \in Nat

VARIABLES
  now,        \* the clock
  dns,        \* what DNS answers for each host; "silent" is no answer
  ended,      \* requests whose context has ended: cancelled, or its deadline
  cache,      \* cache: when the entry of each host expires, or Never
  pending,    \* pending: the request that leads the lookup of each host
  lookup,     \* pendingHost of each leader: "open" until done is closed
  published,  \* history: when the lookup of each leader was published
  latest,     \* history: what was published last for each host
  req,        \* the requests
  changes     \* changes of DNS so far

vars == <<now, dns, ended, cache, pending, lookup, published, latest, req, changes>>

Never == -1
Times == 0 .. MaxTime
Answers == {"public", "refused", "silent"}
Results == {"public", "refused", "ended"}

\* at: where Validate is; seen: the clock as it was read; leader: whose lookup
\* is waited for; verdict: what the lookup, and then Validate, returned.
Request ==
  [at : {"idle", "entering", "waiting", "resolving", "publishing", "done"},
   host : Hosts, seen : Times, leader : Requests \cup {None},
   verdict : Results \cup {"none"}]

AnyHost == CHOOSE h \in Hosts : TRUE
Idle == [at |-> "idle", host |-> AnyHost, seen |-> 0, leader |-> None, verdict |-> "none"]

Init ==
  /\ now = 0
  /\ dns \in [Hosts -> Answers]
  /\ ended = {}
  /\ cache = [h \in Hosts |-> Never]
  /\ pending = [h \in Hosts |-> None]
  /\ lookup = [r \in Requests |-> "none"]
  /\ published = [r \in Requests |-> Never]
  /\ latest = [h \in Hosts |-> "none"]
  /\ req = [r \in Requests |-> Idle]
  /\ changes = 0

-----------------------------------------------------------------------------
At(r, place) == req[r].at = place
Host(r) == req[r].host
Done(r, v) == req' = [req EXCEPT ![r].at = "done", ![r].verdict = v]

\* The URL has passed ValidatePublicURL and the clock is read.
Validate(r, h) ==
  /\ At(r, "idle")
  /\ req' = [req EXCEPT ![r] = [Idle EXCEPT !.at = "entering", !.host = h, !.seen = now]]
  /\ UNCHANGED <<now, dns, ended, cache, pending, lookup, published, latest, changes>>

\* Mutant: an entry is used for as long as it is there.
CachedForGood(r) == cache[Host(r)] # Never

Cached(r) == cache[Host(r)] # Never /\ req[r].seen < cache[Host(r)]

\* The first locked section: an entry that has not expired, or else the lookup
\* of the host is joined or led.  The entry that expired is deleted.
UseCache(r) ==
  /\ At(r, "entering") /\ Cached(r)
  /\ Done(r, "public")
  /\ UNCHANGED <<now, dns, ended, cache, pending, lookup, published, latest, changes>>

JoinLookup(r) ==
  /\ At(r, "entering") /\ ~Cached(r)
  /\ pending[Host(r)] # None
  /\ cache' = [cache EXCEPT ![Host(r)] = Never]
  /\ req' = [req EXCEPT ![r].at = "waiting", ![r].leader = pending[Host(r)]]
  /\ UNCHANGED <<now, dns, ended, pending, lookup, published, latest, changes>>

\* Mutant: what has expired stays.
LeadLookupOnly(r) ==
  /\ At(r, "entering") /\ ~Cached(r)
  /\ pending[Host(r)] = None
  /\ pending' = [pending EXCEPT ![Host(r)] = r]
  /\ lookup' = [lookup EXCEPT ![r] = "open"]
  /\ req' = [req EXCEPT ![r].at = "resolving"]
  /\ UNCHANGED <<now, dns, ended, cache, published, latest, changes>>

\* Mutant: whoever finds nothing in the cache starts a lookup.
LeadAlways(r) ==
  /\ At(r, "entering") /\ ~Cached(r)
  /\ cache' = [cache EXCEPT ![Host(r)] = Never]
  /\ pending' = [pending EXCEPT ![Host(r)] = r]
  /\ lookup' = [lookup EXCEPT ![r] = "open"]
  /\ req' = [req EXCEPT ![r].at = "resolving"]
  /\ UNCHANGED <<now, dns, ended, published, latest, changes>>

LeadLookup(r) ==
  /\ At(r, "entering") /\ ~Cached(r)
  /\ pending[Host(r)] = None
  /\ cache' = [cache EXCEPT ![Host(r)] = Never]
  /\ pending' = [pending EXCEPT ![Host(r)] = r]
  /\ lookup' = [lookup EXCEPT ![r] = "open"]
  /\ req' = [req EXCEPT ![r].at = "resolving"]
  /\ UNCHANGED <<now, dns, ended, published, latest, changes>>

-----------------------------------------------------------------------------
\* Mutant: the lookup is not given the request's context.
ResolveWithoutContext(r) ==
  /\ At(r, "resolving")
  /\ dns[Host(r)] # "silent"
  /\ req' = [req EXCEPT ![r].at = "publishing", ![r].verdict = dns[Host(r)]]
  /\ UNCHANGED <<now, dns, ended, cache, pending, lookup, published, latest, changes>>

\* Mutant: the lookup ends with the context of any request that waits for it.
ResolveForAll(r) ==
  /\ At(r, "resolving")
  /\ \E v \in Results :
       /\ v = dns[Host(r)] \/ (v = "ended" /\ \E s \in ended : s = r \/ req[s].leader = r)
       /\ req' = [req EXCEPT ![r].at = "publishing", ![r].verdict = v]
  /\ UNCHANGED <<now, dns, ended, cache, pending, lookup, published, latest, changes>>

\* validateHost, with the leader's context: once it has ended, the lookup may
\* report that instead of an answer.  An error of DNS, no address and an address
\* that is not public are all refusals.
Resolve(r) ==
  /\ At(r, "resolving")
  /\ \E v \in Results :
       /\ v = dns[Host(r)] \/ (v = "ended" /\ r \in ended)
       /\ req' = [req EXCEPT ![r].at = "publishing", ![r].verdict = v]
  /\ UNCHANGED <<now, dns, ended, cache, pending, lookup, published, latest, changes>>

\* The second locked section.  A host is cached from now on, and only if it is
\* public; everybody who waits gets the leader's result.
Publish(r) ==
  LET h == Host(r)
      v == req[r].verdict
  IN  /\ At(r, "publishing")
      /\ cache' = IF v = "public" THEN [cache EXCEPT ![h] = now + TTL] ELSE cache
      /\ pending' = [pending EXCEPT ![h] = None]
      /\ lookup' = [lookup EXCEPT ![r] = v]
      /\ published' = [published EXCEPT ![r] = now]
      /\ latest' = [latest EXCEPT ![h] = v]
      /\ Done(r, v)
      /\ UNCHANGED <<now, dns, ended, changes>>

\* The select of a request that waits: done was closed, or its context ended.
TakeResult(r) ==
  /\ At(r, "waiting")
  /\ lookup[req[r].leader] # "open"
  /\ Done(r, lookup[req[r].leader])
  /\ UNCHANGED <<now, dns, ended, cache, pending, lookup, published, latest, changes>>

GiveUp(r) ==
  /\ At(r, "waiting")
  /\ r \in ended
  /\ Done(r, "ended")
  /\ UNCHANGED <<now, dns, ended, cache, pending, lookup, published, latest, changes>>

-----------------------------------------------------------------------------
\* requestPolicyTimeout is over, the client has gone, or the tab was closed.
ContextEnds(r) ==
  /\ req[r].at \notin {"idle", "done"} /\ r \notin ended
  /\ ended' = ended \cup {r}
  /\ UNCHANGED <<now, dns, cache, pending, lookup, published, latest, req, changes>>

DnsChanges(h) ==
  /\ changes < MaxChanges
  /\ changes' = changes + 1
  /\ dns' \in {[dns EXCEPT ![h] = a] : a \in Answers \ {dns[h]}}
  /\ UNCHANGED <<now, ended, cache, pending, lookup, published, latest, req>>

Tick ==
  /\ now < MaxTime
  /\ now' = now + 1
  /\ UNCHANGED <<dns, ended, cache, pending, lookup, published, latest, req, changes>>

Step(r) ==
  \/ UseCache(r)
  \/ JoinLookup(r)
  \/ LeadLookup(r)
  \/ Resolve(r)
  \/ Publish(r)
  \/ TakeResult(r)
  \/ GiveUp(r)

Next ==
  \/ \E r \in Requests, h \in Hosts : Validate(r, h)
  \/ \E r \in Requests : Step(r) \/ ContextEnds(r)
  \/ \E h \in Hosts : DnsChanges(h)
  \/ Tick

Spec == Init /\ [][Next]_vars

\* Goroutines run, and every context has a deadline.  DNS owes nothing.
FairSpec == Spec /\ \A r \in Requests : WF_vars(Step(r)) /\ WF_vars(ContextEnds(r))

-----------------------------------------------------------------------------
TypeOK ==
  /\ now \in Times
  /\ dns \in [Hosts -> Answers]
  /\ ended \subseteq Requests
  /\ cache \in [Hosts -> {Never} \cup Nat]
  /\ pending \in [Hosts -> Requests \cup {None}]
  /\ lookup \in [Requests -> Results \cup {"none", "open"}]
  /\ published \in [Requests -> {Never} \cup Times]
  /\ latest \in [Hosts -> Results \cup {"none"}]
  /\ req \in [Requests -> Request]
  /\ changes \in 0 .. MaxChanges

\* SingleFlight.  However many requests for a host arrive, and whoever of them
\* gives up, no two resolve it at once.
SingleFlight ==
  \A r, s \in Requests :
    req[r].at \in {"resolving", "publishing"} /\ req[s].at \in {"resolving", "publishing"}
      /\ Host(r) = Host(s) => r = s

\* RefusalNotCached.  "Falhas DNS não são cacheadas como sucesso": an entry is
\* always the host's latest result, so that nothing is let through by the cache
\* once the host was refused, not even by a clock that was read before.
RefusalNotCached == \A h \in Hosts : cache[h] # Never => latest[h] = "public"

(***************************************************************************)
(* AllowedIsFresh.  Whatever is let through rests on a lookup of its host  *)
(* that found it public and was published less than the TTL before the     *)
(* request read the clock, or later.                                       *)
(***************************************************************************)
AllowedIsFresh ==
  \A r \in Requests :
    At(r, "done") /\ req[r].verdict = "public" =>
      \E s \in Requests :
        /\ Host(s) = Host(r) /\ lookup[s] = "public"
        /\ req[r].seen < published[s] + TTL

\* WaitersDoNotCancel.  "A canceled waiter must not cancel the shared resolution"
\* (TestPolicyCoalescesConcurrentLookups): a request is answered with the end of
\* a context only if its own has ended or that of the request that led the lookup.
WaitersDoNotCancel ==
  \A r \in Requests :
    At(r, "done") /\ req[r].verdict = "ended" => r \in ended \/ req[r].leader \in ended

\* ClockRead: a clock that was read is not ahead.
ClockRead == \A r \in Requests : req[r].seen <= now

\* LeaderIsPending: who resolves is who is pending, and nothing is cached then.
LeaderIsPending ==
  /\ \A r \in Requests :
       req[r].at \in {"resolving", "publishing"} => pending[Host(r)] = r
  /\ \A h \in Hosts : pending[h] # None =>
       /\ Host(pending[h]) = h
       /\ req[pending[h]].at \in {"resolving", "publishing"}
       /\ cache[h] = Never

\* LookupsOpen: a lookup is open for as long as its leader is at work.
LookupsOpen ==
  \A r \in Requests :
    /\ req[r].at \in {"idle", "entering", "waiting"} => lookup[r] = "none"
    /\ lookup[r] = "open" <=> req[r].at \in {"resolving", "publishing"}
    /\ At(r, "publishing") => req[r].verdict \in Results
    /\ lookup[r] \in Results => published[r] \in Times

\* WaitersFollow: a request waits for a lookup of its own host, which was not
\* published before it read the clock.
WaitersFollow ==
  \A r \in Requests : At(r, "waiting") =>
    LET s == req[r].leader
    IN  /\ s \in Requests /\ Host(s) = Host(r) /\ lookup[s] # "none"
        /\ lookup[s] # "open" => req[r].seen <= published[s]

\* EntriesArePublished: an entry expires the TTL after a lookup that made it.
EntriesArePublished ==
  \A h \in Hosts : cache[h] # Never =>
    \E s \in Requests : Host(s) = h /\ lookup[s] = "public" /\ cache[h] = published[s] + TTL

\* EndedLookups: a lookup is cut short only with the context of its leader.
EndedLookups ==
  \A r \in Requests :
    /\ lookup[r] = "ended" => r \in ended
    /\ At(r, "publishing") /\ req[r].verdict = "ended" => r \in ended

IInv ==
  /\ TypeOK
  /\ ClockRead
  /\ LeaderIsPending /\ LookupsOpen /\ WaitersFollow /\ EntriesArePublished
  /\ EndedLookups
  /\ RefusalNotCached /\ AllowedIsFresh /\ WaitersDoNotCancel

\* AllAnswered.  Every request is answered, even if DNS never answers and the
\* lookup it waits for is another request's.
AllAnswered == \A r \in Requests : At(r, "entering") ~> At(r, "done")
=============================================================================
