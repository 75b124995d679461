------------------------------ MODULE Throttle ------------------------------
(***************************************************************************)
(* The two in-process limits: LoginThrottle (app/auth/throttle.py), which  *)
(* counts rejected credentials and locks an identifier out, and            *)
(* RateLimiter (app/apikeys/throttle.py), a token bucket for what was      *)
(* allowed.  Both keep an ordered map, least recently active first, with   *)
(* a hard bound on its length.  Time is counted in ticks of 1/Tick second  *)
(* and a token in 1/(60 * Tick) parts, so that a tick refills PerMinute    *)
(* parts exactly; the rounding of floating-point time is left out.         *)
(***************************************************************************)
EXTENDS Selection

CONSTANTS
  Tick,          \* ticks to a second
  MaxAttempts,   \* api_key_max_attempts
  Window,        \* api_key_attempt_window_seconds, in ticks
  Lockout,       \* api_key_lockout_seconds, in ticks
  PerMinute,     \* ocr_rate_per_minute
  Burst,         \* ocr_rate_burst
  MaxTracked     \* DEFAULT_MAX_TRACKED

ASSUME ThrottleAssumption ==
  /\ {Tick, MaxAttempts, Window, Lockout, PerMinute, Burst, MaxTracked} \subseteq Nat \ {0}

Never == -1
Token == 60 * Tick

CeilDiv(a, b) == (a + b - 1) \div b
AtLeastOne(n) == IF n < 1 THEN 1 ELSE n

Keys(map) == {map[i].key : i \in DOMAIN map}
Without(map, k) == Among(map, {e \in Elements(map) : e.key # k})
EntryOf(map, k) == map[CHOOSE i \in DOMAIN map : map[i].key = k]

-----------------------------------------------------------------------------
(* LoginThrottle: [entries, purge]; an entry holds its recent failures and  *)
(* the end of its lockout.  A lockout that has ended and none are the same  *)
(* to every reader, so that retry_after clears it is not a change.          *)

NoEntry(k) == [key |-> k, failures |-> <<>>, until |-> Never]

ThrottleEmpty == [entries |-> <<>>, purge |-> 0]

Locked(e, now) == now < e.until

LockedOut(t, k, now) == \E i \in DOMAIN t.entries :
  t.entries[i].key = k /\ Locked(t.entries[i], now)

\* Whole seconds that have to pass, the last one begun left out.
RetryAfterFloor(t, k, now) == AtLeastOne((EntryOf(t.entries, k).until - now) \div Tick)

\* Seconds until the identifier may try again.
RetryAfter(t, k, now) == AtLeastOne(CeilDiv(EntryOf(t.entries, k).until - now, Tick))

Recent(failures, now) == Among(failures, {f \in Elements(failures) : f > now - Window})

Dead(e, now) == ~Locked(e, now) /\ Recent(e.failures, now) = <<>>

\* _maybe_purge: at most once per window.
Purged(t, now) ==
  IF now < t.purge THEN t
  ELSE [entries |-> Among(t.entries, {e \in Elements(t.entries) : ~Dead(e, now)}),
        purge |-> now + Window]

\* Oldest first, whoever it is.
EvictedOldest(entries, now) ==
  IF Len(entries) <= MaxTracked THEN entries ELSE Tail(entries)

\* _enforce_bound: the oldest that is not locked out, else the oldest.
Evicted(entries, now) ==
  LET unlocked == {i \in DOMAIN entries : ~Locked(entries[i], now)}
      victim == CHOOSE i \in DOMAIN entries :
                  IF unlocked = {} THEN i = 1
                  ELSE i \in unlocked /\ \A j \in unlocked : i <= j
  IN IF Len(entries) <= MaxTracked THEN entries
     ELSE Among(entries, Elements(entries) \ {entries[victim]})

\* record_failure: the lockout supersedes the tally.
Failed(t, k, now) ==
  LET p == Purged(t, now)
      old == IF k \in Keys(p.entries) THEN EntryOf(p.entries, k) ELSE NoEntry(k)
      failures == Append(Recent(old.failures, now), now)
      entry == IF Len(failures) >= MaxAttempts
               THEN [key |-> k, failures |-> <<>>, until |-> now + Lockout]
               ELSE [old EXCEPT !.failures = failures]
  IN [p EXCEPT !.entries = Evicted(Append(Without(p.entries, k), entry), now)]

\* reset: a success forgets the identifier.
Forgotten(t, k) == [t EXCEPT !.entries = Without(@, k)]

-----------------------------------------------------------------------------
(* RateLimiter: a sequence of buckets [key, tokens, updated].               *)

FullBucket(k, now) == [key |-> k, tokens |-> Burst * Token, updated |-> now]

BucketOf(buckets, k, now) ==
  IF k \in Keys(buckets) THEN EntryOf(buckets, k) ELSE FullBucket(k, now)

Least(a, b) == IF a < b THEN a ELSE b

Refilled(bucket, now) ==
  Least(Burst * Token, bucket.tokens + (now - bucket.updated) * PerMinute)

Allows(buckets, k, now) == Refilled(BucketOf(buckets, k, now), now) >= Token

\* A refusal keeps the old time, and the same seconds refill twice.
CheckedStale(buckets, k, now) ==
  LET old == BucketOf(buckets, k, now)
      tokens == Refilled(old, now)
      bucket == IF tokens >= Token
                THEN [key |-> k, updated |-> now, tokens |-> tokens - Token]
                ELSE [old EXCEPT !.tokens = tokens]
      touched == Append(Without(buckets, k), bucket)
  IN IF Len(touched) > MaxTracked THEN Tail(touched) ELSE touched

\* The buckets after check, whether it allowed the call or not.
Checked(buckets, k, now) ==
  LET tokens == Refilled(BucketOf(buckets, k, now), now)
      bucket == [key |-> k, updated |-> now,
                 tokens |-> IF tokens >= Token THEN tokens - Token ELSE tokens]
      touched == Append(Without(buckets, k), bucket)
  IN IF Len(touched) > MaxTracked THEN Tail(touched) ELSE touched

\* Seconds to wait after a refusal.
WaitFor(buckets, k, now) ==
  AtLeastOne(CeilDiv(Token - Refilled(BucketOf(buckets, k, now), now), PerMinute * Tick))
=============================================================================
