------------------------------ MODULE PublicApi ------------------------------
(***************************************************************************)
(* The external API: the X-API-Key boundary (app/apikeys/) and the routes  *)
(* behind it (POST /v1/ocr and /v1/extract, app/publicapi/).  A request    *)
(* is a coroutine; every await is the end of a step, and what happens       *)
(* between two awaits is one step.  The throttle and the limiter belong to *)
(* the process, keys and usage rows to the database.                       *)
(***************************************************************************)
EXTENDS Throttle, FiniteSets

CONSTANTS
  Prefixes,       \* the public halves of API keys
  Expiry,         \* when the key of a prefix expires, Never if it does not
  Requests,       \* the requests that can be in flight at once
  MaxConcurrent,  \* ocr_max_concurrent
  MaxTime,        \* bound on the ticks of a behaviour
  MaxRequests     \* bound on the requests of a behaviour

ASSUME ApiAssumption ==
  /\ Expiry \in [Prefixes -> Nat \cup {Never}]
  /\ {MaxConcurrent, MaxTime, MaxRequests} \subseteq Nat \ {0}
  /\ IsFiniteSet(Requests)

VARIABLES
  now,        \* the clock, in ticks
  keys,       \* api_keys: "none", "live" or "revoked", for each prefix
  throttle,   \* the process's LoginThrottle for keys
  buckets,    \* the process's RateLimiter
  permits,    \* free places of the route's semaphore
  req,        \* the requests in flight
  begun,      \* how many requests have begun
  temp,       \* the requests whose upload is a file on disk
  rows,       \* history: the api_key_usage rows of a lockout, by prefix
  episodes,   \* history: lockouts of each prefix
  admitted    \* history: when the limiter let each prefix through

vars == <<now, keys, throttle, buckets, permits, req, begun, temp, rows, episodes, admitted>>
limits == <<throttle, buckets, episodes, admitted>>
work == <<permits, temp>>

Idle == [at |-> "idle"]

\* The usage rows a refusal still owes, first to be written first.
Causes == {<<>>, <<"refused">>, <<"lockout", "refused">>}
Busy == [at : {"lookup", "log", "route", "upload", "queue", "work", "finish", "failed"},
         prefix : Prefixes, causes : Causes]

TypeOK ==
  /\ now \in Nat
  /\ keys \in [Prefixes -> {"none", "live", "revoked"}]
  /\ throttle \in [entries : Seq([key : Prefixes, failures : Seq(Nat), until : Nat \cup {Never}]),
                   purge : Nat]
  /\ buckets \in Seq([key : Prefixes, tokens : 0..(Burst * Token), updated : 0..now])
  /\ permits \in Int
  /\ req \in [Requests -> {Idle} \cup Busy]
  /\ \A r \in Requests : req[r].at = "log" => req[r].causes # <<>>
  /\ begun \in Nat /\ temp \subseteq Requests
  /\ rows \in [Prefixes -> Nat] /\ episodes \in [Prefixes -> Nat]
  /\ admitted \in [Prefixes -> Seq(Nat)]

Init ==
  /\ now = 0
  /\ keys \in [Prefixes -> {"none", "live"}]
  /\ throttle = ThrottleEmpty
  /\ buckets = <<>>
  /\ permits = MaxConcurrent
  /\ req = [r \in Requests |-> Idle]
  /\ begun = 0
  /\ temp = {}
  /\ rows = [p \in Prefixes |-> 0]
  /\ episodes = [p \in Prefixes |-> 0]
  /\ admitted = [p \in Prefixes |-> <<>>]

Goto(r, at) == req' = [req EXCEPT ![r].at = at]
Finish(r) == req' = [req EXCEPT ![r] = Idle]

\* is_usable: an expiry takes effect at its instant.
Usable(p) == keys[p] = "live" /\ (Expiry[p] = Never \/ now < Expiry[p])

-----------------------------------------------------------------------------
(* require_api_client *)

\* The pre-check: a prefix locked out is answered with no database access.
Present(r, p) ==
  /\ req[r] = Idle
  /\ begun < MaxRequests
  /\ begun' = begun + 1
  /\ ~LockedOut(throttle, p, now)
  /\ req' = [req EXCEPT ![r] = [at |-> "lookup", prefix |-> p, causes |-> <<>>]]
  /\ UNCHANGED <<now, keys, limits, work, rows>>

\* A failed credential; the lockout it trips belongs to a new episode.
CountFailure(p) ==
  /\ throttle' = Failed(throttle, p, now)
  /\ episodes' = [episodes EXCEPT ![p] =
       IF ~LockedOut(throttle, p, now) /\ LockedOut(throttle', p, now) THEN @ + 1 ELSE @]

\* The 429 row is written whenever the prefix is locked after the failure.
OwesLockoutRowAlways(p) == LockedOut(throttle', p, now)

\* _record_failure: was it this failure that tripped the lock?
OwesLockoutRow(p) == ~LockedOut(throttle, p, now) /\ LockedOut(throttle', p, now)

\* find_by_prefix answers, and the key is judged before the next await.  Which
\* secret was presented, and whether the key has the route's scope, is open.
UnknownKey(r) ==
  /\ req[r].at = "lookup" /\ keys[req[r].prefix] = "none"
  /\ CountFailure(req[r].prefix)
  /\ Finish(r)
  /\ UNCHANGED <<now, keys, buckets, admitted, work, begun, rows>>

\* The secret is wrong, or the key is revoked or has expired.
RejectKey(r) ==
  LET p == req[r].prefix IN
  /\ req[r].at = "lookup" /\ keys[p] # "none"
  /\ CountFailure(p)
  /\ req' = [req EXCEPT ![r].at = "log", ![r].causes =
               IF OwesLockoutRow(p) THEN <<"lockout", "refused">> ELSE <<"refused">>]
  /\ UNCHANGED <<now, keys, buckets, admitted, work, begun, rows>>

LacksScope(r) ==
  /\ req[r].at = "lookup" /\ Usable(req[r].prefix)
  /\ req' = [req EXCEPT ![r].at = "log", ![r].causes = <<"refused">>]
  /\ UNCHANGED <<now, keys, limits, work, begun, rows>>

\* throttle.reset, then last_used_at is committed: a fault there is a 500.
AcceptKey(r) ==
  /\ req[r].at = "lookup" /\ Usable(req[r].prefix)
  /\ throttle' = Forgotten(throttle, req[r].prefix)
  /\ Goto(r, "route") \/ Finish(r)
  /\ UNCHANGED <<now, keys, buckets, episodes, admitted, work, begun, rows>>

\* _log: the usage row of a refusal; a fault in writing it is swallowed.
LogRefusal(r) ==
  /\ req[r].at = "log"
  /\ LET causes == req[r].causes
     IN /\ \/ UNCHANGED rows
           \/ Head(causes) = "lockout" /\ rows' = [rows EXCEPT ![req[r].prefix] = @ + 1]
        /\ IF Len(causes) = 1 THEN Finish(r)
           ELSE req' = [req EXCEPT ![r].causes = Tail(causes)]
  /\ UNCHANGED <<now, keys, limits, work, begun>>

-----------------------------------------------------------------------------
(* A route behind the boundary *)

\* Evicted buckets start full again, so their history starts again too.
StillTracked(p) == p \in Keys(buckets)

\* enforce_rate_limit.
TakeToken(r) ==
  LET p == req[r].prefix IN
  /\ req[r].at = "route"
  /\ buckets' = Checked(buckets, p, now)
  /\ admitted' = [q \in Prefixes |->
       IF q # p THEN IF q \in Keys(buckets') THEN admitted[q] ELSE <<>>
       ELSE (IF StillTracked(p) THEN admitted[p] ELSE <<>>)
              \o (IF Allows(buckets, p, now) THEN <<now>> ELSE <<>>)]
  /\ Goto(r, IF Allows(buckets, p, now) THEN "upload" ELSE "finish")
  /\ UNCHANGED <<now, keys, throttle, episodes, work, begun, rows>>

\* stream_to_temp leaves a file, also of an upload that is then refused.
ReceiveUpload(r) ==
  /\ req[r].at = "upload"
  /\ \/ Goto(r, "finish") /\ UNCHANGED temp           \* language or extension
     \/ Goto(r, "finish") /\ temp' = temp \cup {r}    \* too large, empty, unreadable
     \/ Goto(r, "queue") /\ temp' = temp \cup {r}
     \/ Finish(r) /\ UNCHANGED temp                   \* the stream broke
  /\ UNCHANGED <<now, keys, limits, permits, begun, rows>>

\* wait_for(semaphore.acquire()).
EnterWork(r) ==
  /\ req[r].at = "queue" /\ permits > 0
  /\ permits' = permits - 1
  /\ Goto(r, "work")
  /\ UNCHANGED <<now, keys, limits, temp, begun, rows>>

GiveUpWaiting(r) ==
  /\ req[r].at = "queue"
  /\ Goto(r, "finish")
  /\ UNCHANGED <<now, keys, limits, work, begun, rows>>

\* The engine answers, and the place is free: before the row of a success is
\* written, after that of a failure.
EndWork(r) ==
  /\ req[r].at = "work"
  /\ \/ Goto(r, "finish") /\ permits' = permits + 1
     \/ Goto(r, "failed") /\ UNCHANGED permits
  /\ UNCHANGED <<now, keys, limits, temp, begun, rows>>

\* UsageRecorder.finish writes the row of this call and answers; on every way out the place is free and the upload is unlinked.
Answer(r) ==
  /\ req[r].at \in {"finish", "failed"}
  /\ permits' = IF req[r].at = "failed" THEN permits + 1 ELSE permits
  /\ temp' = temp \ {r}
  /\ Finish(r)
  /\ UNCHANGED <<now, keys, limits, begun, rows>>

-----------------------------------------------------------------------------
(* Administration and time *)

\* POST /api-keys: the prefix is drawn at random and unique.
Mint(p) ==
  /\ keys[p] = "none"
  /\ keys' = [keys EXCEPT ![p] = "live"]
  /\ UNCHANGED <<now, limits, work, req, begun, rows>>

\* DELETE /api-keys/{id}: only an active key; no route restores one.
Revoke(p) ==
  /\ keys[p] = "live"
  /\ keys' = [keys EXCEPT ![p] = "revoked"]
  /\ UNCHANGED <<now, limits, work, req, begun, rows>>

Advance ==
  /\ now < MaxTime
  /\ now' = now + 1
  /\ UNCHANGED <<keys, limits, work, req, begun, rows>>

Serve(r) ==
  \/ UnknownKey(r) \/ RejectKey(r) \/ LacksScope(r) \/ AcceptKey(r) \/ LogRefusal(r)
  \/ TakeToken(r) \/ ReceiveUpload(r) \/ EnterWork(r) \/ GiveUpWaiting(r)
  \/ EndWork(r) \/ Answer(r)

Next ==
  \/ \E r \in Requests : Serve(r)
  \/ \E r \in Requests, p \in Prefixes : Present(r, p)
  \/ \E p \in Prefixes : Mint(p) \/ Revoke(p)
  \/ Advance

Spec == Init /\ [][Next]_vars

-----------------------------------------------------------------------------
(* Properties *)

\* A lockout ends when its time is over, when the key succeeds in a request
\* that was let in before it, or when everything tracked is locked out and the
\* bound takes the oldest: no flood of other prefixes clears one
\* (auth/throttle.py, "Eviction prefers UNLOCKED entries").
LockoutStands ==
  [][\A p \in Prefixes :
       LockedOut(throttle, p, now) /\ ~LockedOut(throttle', p, now')
         => \/ now' > now
            \/ \E r \in Requests : AcceptKey(r) /\ req[r].prefix = p
            \/ \A q \in Keys(throttle'.entries) : LockedOut(throttle', q, now')]_vars

\* A lockout costs at most one usage row however many requests were under way
\* when it was tripped (apikeys/dependencies.py, "exactly ONE row per lockout
\* episode").
OneRowPerLockout == \A p \in Prefixes : rows[p] <= episodes[p]

\* Whoever waits the seconds a refusal names is let in: neither limit rounds
\* them down (auth/throttle.py retry_after, apikeys/throttle.py check).
WaitIsEnough ==
  \A p \in Prefixes :
    /\ LockedOut(throttle, p, now) =>
         ~LockedOut(throttle, p, now + RetryAfter(throttle, p, now) * Tick)
    /\ ~Allows(buckets, p, now) =>
         Allows(buckets, p, now + WaitFor(buckets, p, now) * Tick)

\* While its bucket is tracked, a key is let through at most Burst times plus
\* what PerMinute refills over any stretch of time (apikeys/throttle.py check).
RateIsBounded ==
  \A p \in Prefixes : \A i, j \in DOMAIN admitted[p] :
    i <= j => (j - i + 1) * Token
                <= Burst * Token + (admitted[p][j] - admitted[p][i]) * PerMinute
=============================================================================
