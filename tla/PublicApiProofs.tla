--------------------------- MODULE PublicApiProofs ---------------------------
(***************************************************************************)
(* What holds of the X-API-Key boundary for every limit, every number of   *)
(* requests in flight and every way the clock runs: the lockouts, the rows *)
(* they cost, the rate a key gets and the seconds a refusal names.         *)
(***************************************************************************)
EXTENDS PublicApi, WellFoundedInduction, SequenceTheorems, FiniteSetTheorems, TLAPS

-----------------------------------------------------------------------------
(* What Among returns, for every sequence and every set.  The theorems of  *)
(* the library on induction take a predicate as a parameter; here the      *)
(* least counterexample is taken from a set instead (WFMin).               *)

\* A set of numbers has a least one.
LEMMA LeastNumber ==
  ASSUME NEW T, T \subseteq Nat, T # {}
  PROVE  \E n \in T : \A m \in T : n <= m
  <1>1. PICK n \in T : \A m \in T : ~(<<m, n>> \in OpToRel(<, Nat))
    BY WFMin, NatLessThanWellFounded
  <1>2. ASSUME NEW m \in T PROVE n <= m
    <2>1. m \in Nat /\ n \in Nat
      OBVIOUS
    <2>2. ~(m < n)
      BY <1>1, <2>1 DEF OpToRel
    <2>3. QED
      BY <2>1, <2>2
  <1>3. QED
    BY <1>2

\* The prefixes of s that Among goes through, as far as n.
Prefixed(s, K, g, n) ==
  g = [i \in 0..n |-> IF i = 0 THEN <<>>
                      ELSE IF s[i] \in K THEN Append(g[i - 1], s[i])
                      ELSE g[i - 1]]

LEMMA PrefixesExist ==
  ASSUME NEW s, NEW K, NEW n \in Nat
  PROVE  \E g : Prefixed(s, K, g, n)
  <1> DEFINE T == {k \in Nat : ~\E g : Prefixed(s, K, g, k)}
  <1> SUFFICES ASSUME T # {} PROVE FALSE
    OBVIOUS
  <1>1. PICK k \in T : \A m \in T : k <= m
    BY LeastNumber
  <1>2. k \in Nat /\ ~\E g : Prefixed(s, K, g, k)
    OBVIOUS
  <1>3. k # 0
    <2>1. Prefixed(s, K, [i \in 0..0 |-> <<>>], 0)
      BY DEF Prefixed
    <2>2. QED
      BY <1>2, <2>1
  <1>4. k - 1 \in Nat /\ k - 1 \notin T
    BY <1>1, <1>2, <1>3
  <1>5. PICK g : Prefixed(s, K, g, k - 1)
    BY <1>4
  <1> DEFINE h == [i \in 0..k |-> IF i = k THEN IF s[k] \in K THEN Append(g[k - 1], s[k]) ELSE g[k - 1]
                                  ELSE g[i]]
  <1>6. ASSUME NEW i \in 0..k
        PROVE  h[i] = IF i = 0 THEN <<>>
                      ELSE IF s[i] \in K THEN Append(h[i - 1], s[i])
                      ELSE h[i - 1]
    <2>1. CASE i = k
      <3>1. k - 1 \in 0..k /\ k - 1 # k
        BY <1>2, <1>3
      <3>2. h[k - 1] = g[k - 1]
        BY <3>1
      <3>3. QED
        BY <1>3, <2>1, <3>2
    <2>2. CASE i # k
      <3>1. i \in 0..(k - 1)
        BY <1>2, <2>2
      <3>2. g[i] = IF i = 0 THEN <<>> ELSE IF s[i] \in K THEN Append(g[i - 1], s[i]) ELSE g[i - 1]
        BY <1>5, <3>1 DEF Prefixed
      <3>3. i # 0 => i - 1 \in 0..k /\ i - 1 # k
        BY <1>2, <3>1
      <3>4. h[i] = g[i] /\ (i # 0 => h[i - 1] = g[i - 1])
        BY <2>2, <3>3
      <3>5. QED
        BY <3>2, <3>4
    <2>3. QED
      BY <2>1, <2>2
  <1>7. h = [i \in 0..k |-> h[i]]
    OBVIOUS
  <1> HIDE DEF h
  <1>8. Prefixed(s, K, h, k)
    BY <1>6, <1>7 DEF Prefixed
  <1>9. QED
    BY <1>2, <1>8

\* The first n elements of s that are in K are those at the places m[1] < m[2] < ...
IsSelection(s, K, n, t, m) ==
  /\ m \in [1..Len(t) -> 1..n]
  /\ \A j \in 1..Len(t) : t[j] = s[m[j]] /\ t[j] \in K
  /\ \A i, j \in 1..Len(t) : i < j => m[i] < m[j]
  /\ \A i \in 1..n : s[i] \in K => \E j \in 1..Len(t) : m[j] = i

LEMMA SelectionGrows ==
  ASSUME NEW S, NEW s \in Seq(S), NEW K, NEW n \in Nat, n < Len(s), NEW t \in Seq(S),
         NEW m, IsSelection(s, K, n, t, m)
  PROVE  LET u == IF s[n + 1] \in K THEN Append(t, s[n + 1]) ELSE t
         IN u \in Seq(S) /\ \E w : IsSelection(s, K, n + 1, u, w)
  <1>1. s[n + 1] \in S /\ Len(t) \in Nat
    OBVIOUS
  <1>2. CASE s[n + 1] \notin K
    <2>1. IsSelection(s, K, n + 1, t, m)
      BY <1>1, <1>2 DEF IsSelection
    <2>2. QED
      BY <1>2, <2>1
  <1>3. CASE s[n + 1] \in K
    <2> DEFINE u == Append(t, s[n + 1])
               w == [j \in 1..(Len(t) + 1) |-> IF j = Len(t) + 1 THEN n + 1 ELSE m[j]]
    <2>1. /\ u \in Seq(S) /\ Len(u) = Len(t) + 1 /\ u[Len(t) + 1] = s[n + 1]
          /\ \A j \in 1..Len(t) : u[j] = t[j]
      BY <1>1, AppendProperties
    <2>2. /\ w \in [1..(Len(t) + 1) -> 1..(n + 1)] /\ w[Len(t) + 1] = n + 1
          /\ \A j \in 1..Len(t) : w[j] = m[j] /\ m[j] \in 1..n
      <3>1. \A j \in 1..Len(t) : m[j] \in 1..n
        BY DEF IsSelection
      <3>2. ASSUME NEW j \in 1..(Len(t) + 1)
            PROVE  (IF j = Len(t) + 1 THEN n + 1 ELSE m[j]) \in 1..(n + 1)
        <4>1. CASE j = Len(t) + 1
          BY <4>1
        <4>2. CASE j # Len(t) + 1
          <5>1. j \in 1..Len(t)
            BY <1>1, <4>2
          <5>2. m[j] \in 1..n
            BY <3>1, <5>1
          <5>3. QED
            BY <4>2, <5>2
        <4>3. QED
          BY <4>1, <4>2
      <3>3. w \in [1..(Len(t) + 1) -> 1..(n + 1)]
        BY <3>2
      <3>4. Len(t) + 1 \in 1..(Len(t) + 1)
        BY <1>1
      <3>5. \A j \in 1..Len(t) : j \in 1..(Len(t) + 1) /\ j # Len(t) + 1
        BY <1>1
      <3>6. QED
        BY <3>1, <3>3, <3>4, <3>5
    <2> HIDE DEF u, w
    <2>3. IsSelection(s, K, n + 1, u, w)
      <3>1. ASSUME NEW j \in 1..Len(u) PROVE u[j] = s[w[j]] /\ u[j] \in K
        <4>1. CASE j = Len(t) + 1
          BY <1>3, <2>1, <2>2, <4>1
        <4>2. CASE j # Len(t) + 1
          <5>1. j \in 1..Len(t)
            BY <1>1, <2>1, <4>2
          <5>2. QED
            BY <2>1, <2>2, <5>1 DEF IsSelection
        <4>3. QED
          BY <4>1, <4>2
      <3>2. ASSUME NEW i \in 1..Len(u), NEW j \in 1..Len(u), i < j PROVE w[i] < w[j]
        <4>1. i \in 1..Len(t) /\ w[i] = m[i] /\ m[i] \in 1..n
          BY <1>1, <2>1, <2>2, <3>2
        <4>2. CASE j = Len(t) + 1
          BY <2>2, <4>1, <4>2
        <4>3. CASE j # Len(t) + 1
          <5>1. j \in 1..Len(t)
            BY <1>1, <2>1, <4>3
          <5>2. QED
            BY <2>2, <3>2, <4>1, <5>1 DEF IsSelection
        <4>4. QED
          BY <4>2, <4>3
      <3>3. \A i \in 1..(n + 1) : s[i] \in K => \E j \in 1..Len(u) : w[j] = i
        BY <1>1, <2>1, <2>2 DEF IsSelection
      <3>4. QED
        BY <2>1, <2>2, <3>1, <3>2, <3>3 DEF IsSelection
    <2>4. QED
      BY <1>3, <2>1, <2>3 DEF u
  <1>4. QED
    BY <1>2, <1>3

\* Among keeps exactly the elements that are in K, in their order.
LEMMA AmongIsSelection ==
  ASSUME NEW S, NEW s \in Seq(S), NEW K
  PROVE  Among(s, K) \in Seq(S) /\ \E m : IsSelection(s, K, Len(s), Among(s, K), m)
  <1> DEFINE f == CHOOSE g : Prefixed(s, K, g, Len(s))
  <1>1. Len(s) \in Nat
    OBVIOUS
  <1>2. Prefixed(s, K, f, Len(s))
    BY <1>1, PrefixesExist
  <1>3. Among(s, K) = f[Len(s)]
    BY DEF Among, Prefixed
  <1> HIDE DEF f
  <1> DEFINE Good(n) == f[n] \in Seq(S) /\ \E m : IsSelection(s, K, n, f[n], m)
             T == {n \in Nat : n <= Len(s) /\ ~Good(n)}
  <1>4. T = {}
    <2> SUFFICES ASSUME T # {} PROVE FALSE
      OBVIOUS
    <2>1. PICK n \in T : \A k \in T : n <= k
      BY LeastNumber
    <2>2. n \in Nat /\ n <= Len(s) /\ ~Good(n)
      OBVIOUS
    <2>3. n # 0
      <3>1. f[0] = <<>>
        BY <1>1, <1>2 DEF Prefixed
      <3>2. <<>> \in Seq(S) /\ Len(<<>>) = 0
        OBVIOUS
      <3>3. IsSelection(s, K, 0, <<>>, <<>>)
        BY <3>2 DEF IsSelection
      <3>4. Good(0)
        BY <3>1, <3>2, <3>3
      <3>5. QED
        BY <2>2, <3>4
    <2>4. n - 1 \in Nat /\ n - 1 < Len(s) /\ n - 1 \notin T /\ n = (n - 1) + 1
      BY <1>1, <2>1, <2>2, <2>3
    <2>5. Good(n - 1)
      BY <1>1, <2>4
    <2>6. f[n] = IF s[n] \in K THEN Append(f[n - 1], s[n]) ELSE f[n - 1]
      <3> DEFINE Following(i) == IF i = 0 THEN <<>>
                                 ELSE IF s[i] \in K THEN Append(f[i - 1], s[i]) ELSE f[i - 1]
      <3>1. f = [i \in 0..Len(s) |-> Following(i)]
        BY <1>2 DEF Prefixed
      <3>2. n \in 0..Len(s)
        BY <1>1, <2>2
      <3> HIDE DEF Following
      <3>3. f[n] = Following(n)
        BY <3>1, <3>2
      <3>4. QED
        BY <2>3, <3>3 DEF Following
    <2>7. PICK m : IsSelection(s, K, n - 1, f[n - 1], m)
      BY <2>5
    <2>8. Good((n - 1) + 1)
      <3> HIDE DEF T
      <3> DEFINE k == n - 1
      <3>1. k \in Nat /\ k < Len(s) /\ f[k] \in Seq(S) /\ IsSelection(s, K, k, f[k], m)
        BY <2>4, <2>5, <2>7
      <3>2. f[k + 1] = IF s[k + 1] \in K THEN Append(f[k], s[k + 1]) ELSE f[k]
        BY <2>4, <2>6
      <3> HIDE DEF k
      <3>3. f[k + 1] \in Seq(S) /\ \E w : IsSelection(s, K, k + 1, f[k + 1], w)
        BY <3>1, <3>2, SelectionGrows
      <3>4. QED
        BY <3>3 DEF k
    <2>9. QED
      BY <2>2, <2>4, <2>8
  <1>5. Good(Len(s))
    BY <1>1, <1>4
  <1>6. QED
    BY <1>3, <1>5

-----------------------------------------------------------------------------
(* Ordered maps.                                                           *)

\* A map holds a key once.
OneEach(map) == \A i, j \in DOMAIN map : map[i].key = map[j].key => i = j

\* A part of a map is a map of the elements that were asked for.
LEMMA AmongMap ==
  ASSUME NEW E, NEW map \in Seq(E), OneEach(map), NEW K
  PROVE  LET rest == Among(map, K)
         IN rest \in Seq(E) /\ OneEach(rest) /\ Elements(rest) = Elements(map) \cap K
  <1> DEFINE rest == Among(map, K)
  <1>1. rest \in Seq(E) /\ \E m : IsSelection(map, K, Len(map), rest, m)
    BY AmongIsSelection
  <1>2. PICK m : IsSelection(map, K, Len(map), rest, m)
    BY <1>1
  <1>3. /\ DOMAIN map = 1..Len(map) /\ DOMAIN rest = 1..Len(rest)
        /\ Len(map) \in Nat /\ Len(rest) \in Nat
    BY <1>1
  <1> HIDE DEF rest
  <1>4. \A i \in DOMAIN rest : m[i] \in DOMAIN map /\ rest[i] = map[m[i]] /\ rest[i] \in K
    BY <1>2, <1>3 DEF IsSelection
  <1>5. ASSUME NEW i \in DOMAIN rest, NEW j \in DOMAIN rest, rest[i].key = rest[j].key PROVE i = j
    <2>1. m[i] = m[j]
      BY <1>4, <1>5 DEF OneEach
    <2>2. i \in Int /\ j \in Int /\ m[i] \in Int /\ m[j] \in Int
      BY <1>3, <1>4
    <2>3. (i < j => m[i] < m[j]) /\ (j < i => m[j] < m[i])
      BY <1>2, <1>3 DEF IsSelection
    <2>4. QED
      BY <2>1, <2>2, <2>3
  <1>6. ASSUME NEW e \in Elements(map), e \in K PROVE e \in Elements(rest)
    <2>1. PICK i \in DOMAIN map : e = map[i]
      BY DEF Elements
    <2>2. PICK j \in 1..Len(rest) : m[j] = i
      BY <1>2, <1>3, <1>6, <2>1 DEF IsSelection
    <2>3. QED
      BY <1>3, <1>4, <2>1, <2>2 DEF Elements
  <1>7. Elements(rest) = Elements(map) \cap K
    BY <1>4, <1>6 DEF Elements
  <1>8. QED
    BY <1>1, <1>5, <1>7 DEF OneEach, rest

\* An element with a new key can be put at the end.
LEMMA AppendMap ==
  ASSUME NEW E, NEW map \in Seq(E), OneEach(map), NEW e \in E, \A d \in Elements(map) : d.key # e.key
  PROVE  LET longer == Append(map, e)
         IN longer \in Seq(E) /\ OneEach(longer) /\ Elements(longer) = Elements(map) \cup {e}
  <1> DEFINE longer == Append(map, e)
  <1>1. /\ longer \in Seq(E) /\ Len(longer) = Len(map) + 1
        /\ longer[Len(map) + 1] = e
        /\ \A i \in 1..Len(map) : longer[i] = map[i]
    BY AppendProperties
  <1>2. DOMAIN map = 1..Len(map) /\ DOMAIN longer = 1..(Len(map) + 1) /\ Len(map) \in Nat
    BY <1>1
  <1> HIDE DEF longer
  <1>3. \A i \in DOMAIN map : map[i].key # e.key
    BY DEF Elements
  <1>4. OneEach(longer)
    BY <1>1, <1>2, <1>3 DEF OneEach
  <1>5. Elements(longer) = Elements(map) \cup {e}
    <2>1. e \in Elements(longer)
      BY <1>1, <1>2 DEF Elements
    <2>2. Elements(map) \subseteq Elements(longer)
      BY <1>1, <1>2 DEF Elements
    <2>3. \A i \in DOMAIN longer : longer[i] = e \/ longer[i] \in Elements(map)
      BY <1>1, <1>2 DEF Elements
    <2>4. QED
      BY <2>1, <2>2, <2>3 DEF Elements
  <1>6. QED
    BY <1>1, <1>4, <1>5 DEF longer

\* Without its first element a map is a map, and keeps its last.
LEMMA TailMap ==
  ASSUME NEW E, NEW map \in Seq(E), OneEach(map), Len(map) > 1
  PROVE  /\ Tail(map) \in Seq(E) /\ OneEach(Tail(map)) /\ Elements(Tail(map)) \subseteq Elements(map)
         /\ map[Len(map)] \in Elements(Tail(map))
  <1> DEFINE rest == Tail(map)
  <1>1. /\ rest \in Seq(E) /\ Len(rest) = Len(map) - 1
        /\ \A i \in 1..Len(rest) : rest[i] = map[i + 1]
    BY HeadTailProperties
  <1>2. DOMAIN map = 1..Len(map) /\ DOMAIN rest = 1..Len(rest) /\ Len(map) \in Nat /\ Len(rest) \in Nat
    BY <1>1
  <1> HIDE DEF rest
  <1>3. \A i \in DOMAIN rest : i + 1 \in DOMAIN map /\ rest[i] = map[i + 1]
    BY <1>1, <1>2
  <1>4. OneEach(rest)
    BY <1>2, <1>3 DEF OneEach
  <1>5. Elements(rest) \subseteq Elements(map)
    BY <1>3 DEF Elements
  <1>6. map[Len(map)] \in Elements(rest)
    BY <1>1, <1>2 DEF Elements
  <1>7. QED
    BY <1>1, <1>4, <1>5, <1>6 DEF rest

\* The entry of a key is the one that has it.
LEMMA EntryIsUnique ==
  ASSUME NEW map, OneEach(map), NEW k
  PROVE  /\ k \in Keys(map) <=> \E e \in Elements(map) : e.key = k
         /\ k \in Keys(map) => EntryOf(map, k) \in Elements(map) /\ EntryOf(map, k).key = k
         /\ \A e \in Elements(map) : e.key = k => EntryOf(map, k) = e
  <1>1. k \in Keys(map) <=> \E e \in Elements(map) : e.key = k
    BY DEF Keys, Elements
  <1>2. ASSUME NEW i \in DOMAIN map, map[i].key = k
        PROVE  EntryOf(map, k) \in Elements(map) /\ EntryOf(map, k).key = k /\ EntryOf(map, k) = map[i]
    <2> DEFINE c == CHOOSE j \in DOMAIN map : map[j].key = k
    <2>1. c \in DOMAIN map /\ map[c].key = k
      BY <1>2
    <2>2. EntryOf(map, k) = map[c]
      BY DEF EntryOf
    <2> HIDE DEF c
    <2>3. c = i
      BY <1>2, <2>1 DEF OneEach
    <2>4. QED
      BY <1>2, <2>2, <2>3 DEF Elements
  <1>3. QED
    BY <1>1, <1>2 DEF Keys, Elements

-----------------------------------------------------------------------------
(* Arithmetic.                                                             *)

LEMMA Products ==
  ASSUME NEW a \in Int, NEW b \in Int, NEW c \in Int
  PROVE  /\ a * c \in Int /\ (a - b) * c = a * c - b * c /\ (a + b) * c = a * c + b * c
         /\ a <= b /\ 0 <= c => a * c <= b * c
         /\ 0 <= a /\ 0 <= c => 0 <= a * c
  OBVIOUS

\* A division rounded up is enough.
LEMMA CeilIsEnough ==
  ASSUME NEW a \in Int, NEW b \in Nat \ {0}
  PROVE  CeilDiv(a, b) \in Int /\ CeilDiv(a, b) * b >= a
  <1> DEFINE q == (a + b - 1) \div b
             r == (a + b - 1) % b
  <1>1. q \in Int /\ r \in 0..(b - 1) /\ a + b - 1 = b * q + r
    OBVIOUS
  <1> HIDE DEF q, r
  <1>2. b * q = q * b
    BY <1>1
  <1>3. q * b \in Int
    BY <1>1
  <1>4. q * b >= a
    BY <1>1, <1>2, <1>3
  <1>5. QED
    BY <1>1, <1>4 DEF CeilDiv, q

LEMMA Constants ==
  /\ Tick \in Nat \ {0} /\ MaxAttempts \in Nat \ {0} /\ Window \in Nat \ {0} /\ Lockout \in Nat \ {0}
  /\ PerMinute \in Nat \ {0} /\ Burst \in Nat \ {0} /\ MaxTracked \in Nat \ {0}
  /\ Token \in Nat \ {0} /\ Burst * Token \in Nat /\ Burst * Token >= Token
  <1>1. /\ Tick \in Nat \ {0} /\ MaxAttempts \in Nat \ {0} /\ Window \in Nat \ {0} /\ Lockout \in Nat \ {0}
        /\ PerMinute \in Nat \ {0} /\ Burst \in Nat \ {0} /\ MaxTracked \in Nat \ {0}
    BY ThrottleAssumption DEF ThrottleAssumption
  <1>2. Token \in Nat \ {0}
    BY <1>1 DEF Token
  <1>3. Burst * Token \in Int /\ 1 * Token <= Burst * Token /\ 1 * Token = Token
    BY <1>1, <1>2, Products
  <1>4. QED
    BY <1>1, <1>2, <1>3

-----------------------------------------------------------------------------
(* The throttle.                                                           *)

Entry == [key : Prefixes, failures : Seq(Nat), until : Nat \cup {Never}]
IsThrottle(t) == t \in [entries : Seq(Entry), purge : Nat] /\ OneEach(t.entries)

LEMMA LockedOutElement ==
  ASSUME NEW t, NEW k, NEW n
  PROVE  LockedOut(t, k, n) <=> \E e \in Elements(t.entries) : e.key = k /\ Locked(e, n)
  BY DEF LockedOut, Elements

\* The bound takes an entry that is locked out only if all are.
LEMMA EvictedKeepsLockouts ==
  ASSUME NEW map \in Seq(Entry), OneEach(map), NEW n \in Nat
  PROVE  LET rest == Evicted(map, n)
         IN /\ rest \in Seq(Entry) /\ OneEach(rest) /\ Elements(rest) \subseteq Elements(map)
            /\ \/ \A e \in Elements(map) : Locked(e, n) => e \in Elements(rest)
               \/ \A e \in Elements(rest) : Locked(e, n)
  <1> DEFINE unlocked == {i \in DOMAIN map : ~Locked(map[i], n)}
             victim == CHOOSE i \in DOMAIN map :
                         IF unlocked = {} THEN i = 1
                         ELSE i \in unlocked /\ \A j \in unlocked : i <= j
             K == Elements(map) \ {map[victim]}
             rest == Among(map, K)
  <1>1. Evicted(map, n) = IF Len(map) <= MaxTracked THEN map ELSE rest
    BY DEF Evicted
  <1>2. CASE Evicted(map, n) = map
    BY <1>2
  <1>3. CASE Evicted(map, n) = rest
    <2>1. rest \in Seq(Entry) /\ OneEach(rest) /\ Elements(rest) = Elements(map) \cap K
      BY AmongMap
    <2>2. CASE unlocked = {}
      <3>1. \A e \in Elements(map) : Locked(e, n)
        BY <2>2 DEF Elements
      <3> HIDE DEF rest, K
      <3>2. QED
        BY <1>3, <2>1, <3>1
    <2>3. CASE unlocked # {}
      <3>1. unlocked \subseteq Nat
        OBVIOUS
      <3>2. PICK i \in unlocked : \A j \in unlocked : i <= j
        BY <2>3, <3>1, LeastNumber
      <3>3. victim \in unlocked
        BY <2>3, <3>2
      <3> HIDE DEF victim
      <3>4. ~Locked(map[victim], n)
        BY <3>3
      <3>5. \A e \in Elements(map) : Locked(e, n) => e \in Elements(map) \cap K
        BY <3>4
      <3> HIDE DEF rest, K
      <3>6. QED
        BY <1>3, <2>1, <3>5
    <2>4. QED
      BY <2>2, <2>3
  <1>4. QED
    BY <1>1, <1>2, <1>3

\* The purge keeps what is locked out.
LEMMA PurgedKeepsLockouts ==
  ASSUME NEW t, IsThrottle(t), NEW n \in Nat
  PROVE  /\ IsThrottle(Purged(t, n))
         /\ Elements(Purged(t, n).entries) \subseteq Elements(t.entries)
         /\ \A e \in Elements(t.entries) : Locked(e, n) => e \in Elements(Purged(t, n).entries)
  <1> DEFINE K == {e \in Elements(t.entries) : ~Dead(e, n)}
             rest == Among(t.entries, K)
             q == [entries |-> rest, purge |-> n + Window]
  <1>1. t.entries \in Seq(Entry) /\ OneEach(t.entries)
    BY DEF IsThrottle
  <1>2. rest \in Seq(Entry) /\ OneEach(rest) /\ Elements(rest) = Elements(t.entries) \cap K
    BY <1>1, AmongMap
  <1>3. \A e \in Elements(t.entries) : Locked(e, n) => e \in K
    BY DEF Dead
  <1>4. K \subseteq Elements(t.entries)
    OBVIOUS
  <1>5. n + Window \in Nat
    BY Constants
  <1>6. Purged(t, n) = IF n < t.purge THEN t ELSE q
    BY DEF Purged
  <1> HIDE DEF rest, K
  <1>7. IsThrottle(q) /\ q.entries = rest
    BY <1>2, <1>5 DEF IsThrottle
  <1> HIDE DEF q
  <1>8. CASE Purged(t, n) = t
    BY <1>8
  <1>9. CASE Purged(t, n) = q
    BY <1>2, <1>3, <1>4, <1>7, <1>9
  <1>10. QED
    BY <1>6, <1>8, <1>9

\* A failure keeps every lockout, unless all that is left is locked out.
LEMMA FailedKeepsLockouts ==
  ASSUME NEW t, IsThrottle(t), NEW k \in Prefixes, NEW n \in Nat
  PROVE  /\ IsThrottle(Failed(t, k, n))
         /\ \A p : LockedOut(t, p, n) =>
               \/ LockedOut(Failed(t, k, n), p, n)
               \/ \A q \in Keys(Failed(t, k, n).entries) : LockedOut(Failed(t, k, n), q, n)
  <1> DEFINE p == Purged(t, n)
             old == IF k \in Keys(p.entries) THEN EntryOf(p.entries, k) ELSE NoEntry(k)
             failures == Append(Recent(old.failures, n), n)
             entry == IF Len(failures) >= MaxAttempts
                      THEN [key |-> k, failures |-> <<>>, until |-> n + Lockout]
                      ELSE [old EXCEPT !.failures = failures]
             others == Without(p.entries, k)
             longer == Append(others, entry)
             rest == Evicted(longer, n)
  <1>1. /\ IsThrottle(p)
        /\ Elements(p.entries) \subseteq Elements(t.entries)
        /\ \A e \in Elements(t.entries) : Locked(e, n) => e \in Elements(p.entries)
    BY PurgedKeepsLockouts
  <1>2. Failed(t, k, n) = [p EXCEPT !.entries = rest]
    BY DEF Failed
  <1> HIDE DEF p
  <1>3. p \in [entries : Seq(Entry), purge : Nat] /\ p.entries \in Seq(Entry) /\ OneEach(p.entries)
    BY <1>1 DEF IsThrottle
  <1>4. \A e \in Elements(p.entries) : e \in Entry
    BY <1>3 DEF Elements
  <1>5. old \in Entry /\ old.key = k /\ \A e \in Elements(p.entries) : e.key = k => e = old
    <2>1. CASE k \in Keys(p.entries)
      BY <1>3, <1>4, <2>1, EntryIsUnique
    <2>2. CASE k \notin Keys(p.entries)
      <3>1. old = NoEntry(k)
        BY <2>2
      <3>2. NoEntry(k) \in Entry /\ NoEntry(k).key = k
        BY DEF NoEntry, Entry
      <3>3. QED
        BY <1>3, <2>2, <3>1, <3>2, EntryIsUnique
    <2>3. QED
      BY <2>1, <2>2
  <1> HIDE DEF old
  <1>6. failures \in Seq(Nat)
    <2>1. old.failures \in Seq(Nat)
      BY <1>5 DEF Entry
    <2>2. Recent(old.failures, n) \in Seq(Nat)
      BY <2>1, AmongIsSelection DEF Recent
    <2>3. QED
      BY <2>2
  <1> HIDE DEF failures
  <1>7. entry \in Entry /\ entry.key = k /\ (Locked(old, n) => Locked(entry, n))
    <2>1. CASE Len(failures) >= MaxAttempts
      <3> DEFINE new == [key |-> k, failures |-> <<>>, until |-> n + Lockout]
      <3>1. entry = new
        BY <2>1
      <3>2. n + Lockout \in Nat /\ n < n + Lockout
        BY Constants
      <3>3. new \in Entry /\ new.key = k /\ Locked(new, n)
        BY <3>2 DEF Entry, Locked
      <3>4. QED
        BY <3>1, <3>3
    <2>2. CASE ~(Len(failures) >= MaxAttempts)
      <3> DEFINE new == [old EXCEPT !.failures = failures]
      <3>1. entry = new
        BY <2>2
      <3>2. new \in Entry /\ new.key = k /\ new.until = old.until
        BY <1>5, <1>6 DEF Entry
      <3>3. QED
        BY <3>1, <3>2 DEF Locked
    <2>3. QED
      BY <2>1, <2>2
  <1> HIDE DEF entry
  <1>8. /\ others \in Seq(Entry) /\ OneEach(others)
        /\ Elements(others) = {e \in Elements(p.entries) : e.key # k}
    <2>1. Elements(p.entries) \cap {e \in Elements(p.entries) : e.key # k} = {e \in Elements(p.entries) : e.key # k}
      OBVIOUS
    <2>2. QED
      BY <1>3, <2>1, AmongMap DEF Without
  <1> HIDE DEF others
  <1>9. longer \in Seq(Entry) /\ OneEach(longer) /\ Elements(longer) = Elements(others) \cup {entry}
    BY <1>7, <1>8, AppendMap
  <1> HIDE DEF longer
  <1>10. /\ rest \in Seq(Entry) /\ OneEach(rest) /\ Elements(rest) \subseteq Elements(longer)
         /\ \/ \A e \in Elements(longer) : Locked(e, n) => e \in Elements(rest)
            \/ \A e \in Elements(rest) : Locked(e, n)
    BY <1>9, EvictedKeepsLockouts
  <1> HIDE DEF rest
  <1>11. Failed(t, k, n) \in [entries : Seq(Entry), purge : Nat] /\ Failed(t, k, n).entries = rest
    BY <1>2, <1>3, <1>10
  <1>12. IsThrottle(Failed(t, k, n))
    BY <1>10, <1>11 DEF IsThrottle
  <1>13. ASSUME NEW x, LockedOut(t, x, n)
         PROVE  \/ LockedOut(Failed(t, k, n), x, n)
                \/ \A q \in Keys(Failed(t, k, n).entries) : LockedOut(Failed(t, k, n), q, n)
    <2>1. PICK e \in Elements(t.entries) : e.key = x /\ Locked(e, n)
      BY <1>13, LockedOutElement
    <2>2. e \in Elements(p.entries)
      BY <1>1, <2>1
    <2>3. \E d \in Elements(longer) : d.key = x /\ Locked(d, n)
      BY <1>5, <1>7, <1>8, <1>9, <2>1, <2>2
    <2>4. CASE \A d \in Elements(longer) : Locked(d, n) => d \in Elements(rest)
      BY <1>11, <2>3, <2>4, LockedOutElement
    <2>5. CASE \A d \in Elements(rest) : Locked(d, n)
      <3>1. ASSUME NEW q \in Keys(rest) PROVE \E d \in Elements(rest) : d.key = q /\ Locked(d, n)
        BY <2>5 DEF Keys, Elements
      <3>2. QED
        BY <1>11, <3>1, LockedOutElement
    <2>6. QED
      BY <1>10, <2>4, <2>5
  <1>14. QED
    BY <1>12, <1>13

\* A success clears the lockout of its own key only.
LEMMA ForgottenKeepsOthers ==
  ASSUME NEW t, IsThrottle(t), NEW k, NEW n
  PROVE  /\ IsThrottle(Forgotten(t, k))
         /\ \A p : p # k /\ LockedOut(t, p, n) => LockedOut(Forgotten(t, k), p, n)
  <1> DEFINE rest == Without(t.entries, k)
  <1>1. t \in [entries : Seq(Entry), purge : Nat] /\ t.entries \in Seq(Entry) /\ OneEach(t.entries)
    BY DEF IsThrottle
  <1>2. /\ rest \in Seq(Entry) /\ OneEach(rest)
        /\ \A e \in Elements(t.entries) : e.key # k => e \in Elements(rest)
    <2>1. /\ rest \in Seq(Entry) /\ OneEach(rest)
          /\ Elements(rest) = Elements(t.entries) \cap {e \in Elements(t.entries) : e.key # k}
      BY <1>1, AmongMap DEF Without
    <2>2. QED
      BY <2>1
  <1>3. Forgotten(t, k) = [t EXCEPT !.entries = rest]
    BY DEF Forgotten
  <1> HIDE DEF rest
  <1>4. Forgotten(t, k) \in [entries : Seq(Entry), purge : Nat] /\ Forgotten(t, k).entries = rest
    BY <1>1, <1>2, <1>3
  <1>5. IsThrottle(Forgotten(t, k))
    BY <1>2, <1>4 DEF IsThrottle
  <1>6. QED
    BY <1>2, <1>4, <1>5, LockedOutElement

\* Whoever waits the seconds a lockout names is not locked out any more.
LEMMA LockoutEnds ==
  ASSUME NEW t, IsThrottle(t), NEW k, NEW n \in Nat, LockedOut(t, k, n)
  PROVE  ~LockedOut(t, k, n + RetryAfter(t, k, n) * Tick)
  <1> DEFINE e == EntryOf(t.entries, k)
             wait == CeilDiv(e.until - n, Tick)
  <1>1. t.entries \in Seq(Entry) /\ OneEach(t.entries)
    BY DEF IsThrottle
  <1>2. PICK d \in Elements(t.entries) : d.key = k /\ Locked(d, n)
    BY LockedOutElement
  <1>3. \A x \in Elements(t.entries) : x.key = k => x = e
    BY <1>1, EntryIsUnique
  <1>4. e.until \in Int
    <2>1. d \in Entry /\ d = e
      BY <1>1, <1>2, <1>3 DEF Elements
    <2>2. QED
      BY <2>1 DEF Entry, Never
  <1> HIDE DEF e
  <1>5. wait \in Int /\ wait * Tick >= e.until - n
    BY <1>4, CeilIsEnough, Constants
  <1>6. RetryAfter(t, k, n) = AtLeastOne(wait)
    BY DEF RetryAfter, e
  <1> HIDE DEF wait
  <1>7. AtLeastOne(wait) \in Int /\ wait <= AtLeastOne(wait)
    BY <1>5 DEF AtLeastOne
  <1>8. wait * Tick <= AtLeastOne(wait) * Tick /\ wait * Tick \in Int /\ AtLeastOne(wait) * Tick \in Int
    BY <1>5, <1>7, Products, Constants
  <1>9. ~(n + AtLeastOne(wait) * Tick < e.until)
    BY <1>4, <1>5, <1>8
  <1>10. QED
    BY <1>3, <1>6, <1>9, LockedOutElement DEF Locked

-----------------------------------------------------------------------------
(* The limiter.                                                            *)

Bucket(n) == [key : Prefixes, tokens : 0..(Burst * Token), updated : 0..n]

\* What a bucket may hold, and where it comes from.
LEMMA Refilling ==
  ASSUME NEW n \in Nat, NEW e \in Bucket(n)
  PROVE  /\ Refilled(e, n) \in 0..(Burst * Token)
         /\ Refilled(e, n) <= e.tokens + (n - e.updated) * PerMinute
         /\ Refilled(e, n) = Burst * Token \/ Refilled(e, n) = e.tokens + (n - e.updated) * PerMinute
  <1> DEFINE gain == (n - e.updated) * PerMinute
             full == Burst * Token
  <1>1. e.tokens \in 0..full /\ e.updated \in 0..n
    BY DEF Bucket
  <1>2. gain \in Int /\ 0 <= gain
    BY <1>1, Products, Constants
  <1>3. full \in Nat
    BY Constants
  <1>4. Refilled(e, n) = Least(full, e.tokens + gain)
    BY DEF Refilled
  <1> HIDE DEF gain, full
  <1>5. QED
    BY <1>1, <1>2, <1>3, <1>4 DEF Least, gain, full

LEMMA BucketIsTyped ==
  ASSUME NEW n \in Nat, NEW map \in Seq(Bucket(n)), OneEach(map), NEW k \in Prefixes
  PROVE  /\ BucketOf(map, k, n) \in Bucket(n) /\ BucketOf(map, k, n).key = k
         /\ \A e \in Elements(map) : e.key = k => e = BucketOf(map, k, n)
         /\ k \notin Keys(map) => BucketOf(map, k, n).tokens = Burst * Token
  <1>1. \A e \in Elements(map) : e \in Bucket(n)
    BY DEF Elements
  <1>2. FullBucket(k, n) \in Bucket(n) /\ FullBucket(k, n).key = k /\ FullBucket(k, n).tokens = Burst * Token
    BY Constants DEF FullBucket, Bucket
  <1>3. QED
    BY <1>1, <1>2, EntryIsUnique DEF BucketOf

\* What a check leaves in the map: the bucket of its key, spent and up to date,
\* and of the others what the bound leaves.
LEMMA CheckedBuckets ==
  ASSUME NEW n \in Nat, NEW map \in Seq(Bucket(n)), OneEach(map), NEW k \in Prefixes
  PROVE  LET after == Checked(map, k, n)
             tokens == Refilled(BucketOf(map, k, n), n)
             left == IF Allows(map, k, n) THEN tokens - Token ELSE tokens
         IN /\ after \in Seq(Bucket(n)) /\ OneEach(after)
            /\ k \in Keys(after)
            /\ \A e \in Elements(after) : \/ e.key # k /\ e \in Elements(map)
                                          \/ e.key = k /\ e.tokens = left /\ e.updated = n
  <1> DEFINE tokens == Refilled(BucketOf(map, k, n), n)
             left == IF Allows(map, k, n) THEN tokens - Token ELSE tokens
             bucket == [key |-> k, updated |-> n, tokens |-> left]
             others == Without(map, k)
             touched == Append(others, bucket)
             after == IF Len(touched) > MaxTracked THEN Tail(touched) ELSE touched
  <1>1. Checked(map, k, n) = after
    BY DEF Checked, Allows
  <1>2. tokens \in 0..(Burst * Token)
    BY BucketIsTyped, Refilling
  <1>3. left \in 0..(Burst * Token)
    BY <1>2, Constants DEF Allows
  <1>4. bucket \in Bucket(n) /\ bucket.key = k /\ bucket.tokens = left /\ bucket.updated = n
    BY <1>3 DEF Bucket
  <1> HIDE DEF bucket, left, tokens
  <1>5. /\ others \in Seq(Bucket(n)) /\ OneEach(others)
        /\ Elements(others) = {e \in Elements(map) : e.key # k}
    <2>1. Elements(map) \cap {e \in Elements(map) : e.key # k} = {e \in Elements(map) : e.key # k}
      OBVIOUS
    <2>2. QED
      BY <2>1, AmongMap DEF Without
  <1> HIDE DEF others
  <1>6. /\ touched \in Seq(Bucket(n)) /\ OneEach(touched)
        /\ Elements(touched) = Elements(others) \cup {bucket}
        /\ Len(touched) \in Nat /\ Len(touched) # 0 /\ touched[Len(touched)] = bucket
    <2>1. touched \in Seq(Bucket(n)) /\ OneEach(touched) /\ Elements(touched) = Elements(others) \cup {bucket}
      BY <1>4, <1>5, AppendMap
    <2>2. Len(touched) = Len(others) + 1 /\ touched[Len(others) + 1] = bucket /\ Len(others) \in Nat
      BY <1>4, <1>5, AppendProperties
    <2>3. QED
      BY <2>1, <2>2
  <1> HIDE DEF touched
  <1>7. /\ after \in Seq(Bucket(n)) /\ OneEach(after)
        /\ Elements(after) \subseteq Elements(touched) /\ bucket \in Elements(after)
    <2>1. CASE Len(touched) > MaxTracked
      <3>1. Len(touched) > 1
        BY <1>6, <2>1, Constants
      <3>2. QED
        BY <1>6, <2>1, <3>1, TailMap
    <2>2. CASE ~(Len(touched) > MaxTracked)
      <3>1. after = touched
        BY <2>2
      <3>2. QED
        BY <1>6, <3>1
    <2>3. QED
      BY <2>1, <2>2
  <1> HIDE DEF after
  <1>8. k \in Keys(after)
    BY <1>4, <1>7 DEF Keys, Elements
  <1>9. \A e \in Elements(after) : \/ e.key # k /\ e \in Elements(map)
                                   \/ e.key = k /\ e.tokens = left /\ e.updated = n
    BY <1>4, <1>5, <1>6, <1>7
  <1>10. QED
    BY <1>1, <1>7, <1>8, <1>9 DEF left, tokens

\* Whoever waits the seconds a refusal names is let in.
LEMMA RefusalEnds ==
  ASSUME NEW n \in Nat, NEW map \in Seq(Bucket(n)), OneEach(map), NEW k \in Prefixes, ~Allows(map, k, n)
  PROVE  Allows(map, k, n + WaitFor(map, k, n) * Tick)
  <1> DEFINE e == BucketOf(map, k, n)
             tokens == Refilled(e, n)
             part == PerMinute * Tick
             wait == CeilDiv(Token - tokens, part)
             least == AtLeastOne(wait)
             later == n + least * Tick
  <1>1. e \in Bucket(n)
    BY BucketIsTyped
  <1>2. k \in Keys(map)
    <2>1. CASE k \notin Keys(map)
      <3>1. e = FullBucket(k, n)
        BY <2>1 DEF BucketOf
      <3>2. tokens = Least(Burst * Token, Burst * Token + (n - n) * PerMinute)
        BY <3>1 DEF Refilled, FullBucket
      <3>3. (n - n) * PerMinute = 0
        BY Constants
      <3> HIDE DEF tokens
      <3>4. tokens = Burst * Token
        BY <3>2, <3>3, Constants DEF Least
      <3>5. QED
        BY <3>4, Constants DEF Allows, tokens
    <2>2. QED
      BY <2>1
  <1>3. \A x : BucketOf(map, k, x) = e
    BY <1>2 DEF BucketOf
  <1>4. WaitFor(map, k, n) = least
    BY DEF WaitFor
  <1>5. tokens \in Int /\ tokens < Token /\ tokens = e.tokens + (n - e.updated) * PerMinute
    BY <1>1, Refilling, Constants DEF Allows
  <1>6. e.tokens \in Int /\ e.updated \in Int
    BY <1>1 DEF Bucket
  <1> HIDE DEF e, tokens
  <1>7. part \in Nat \ {0}
    <2>1. part \in Int /\ 1 * Tick <= PerMinute * Tick /\ 1 * Tick = Tick
      BY Constants, Products
    <2>2. QED
      BY <2>1, Constants
  <1> HIDE DEF part
  <1>8. wait \in Int /\ wait * part >= Token - tokens
    <2>1. Token - tokens \in Int
      BY <1>5, Constants
    <2>2. CeilDiv(Token - tokens, part) \in Int /\ CeilDiv(Token - tokens, part) * part >= Token - tokens
      BY <1>7, <2>1, CeilIsEnough
    <2>3. QED
      BY <2>2
  <1> HIDE DEF wait
  <1>9. least \in Int /\ wait <= least
    BY <1>8 DEF AtLeastOne
  <1> HIDE DEF least
  <1>10. least * part >= Token - tokens /\ least * part \in Int
    <2>1. wait * part <= least * part /\ wait * part \in Int /\ least * part \in Int
      BY <1>7, <1>8, <1>9, Products
    <2>2. QED
      BY <1>5, <1>8, <2>1, Constants
  <1>11. later \in Int /\ (later - e.updated) * PerMinute = (n - e.updated) * PerMinute + least * part
    <2>1. least * Tick \in Int
      BY <1>9, Products, Constants
    <2>2. (least * Tick) * PerMinute = least * part
      BY <1>9, Constants DEF part
    <2>3. (n - e.updated) + least * Tick = later - e.updated
      BY <1>6, <2>1
    <2>4. ((n - e.updated) + least * Tick) * PerMinute = (n - e.updated) * PerMinute + (least * Tick) * PerMinute
      BY <1>6, <2>1, Products, Constants
    <2>5. QED
      BY <2>1, <2>2, <2>3, <2>4
  <1> HIDE DEF later
  <1>12. (n - e.updated) * PerMinute \in Int
    BY <1>6, Products, Constants
  <1>13. e.tokens + (later - e.updated) * PerMinute >= Token
    <2> DEFINE before == (n - e.updated) * PerMinute
               gain == least * part
               after == (later - e.updated) * PerMinute
    <2>1. before \in Int /\ gain \in Int /\ after = before + gain
      BY <1>10, <1>11, <1>12
    <2>2. tokens = e.tokens + before /\ gain >= Token - tokens
      BY <1>5, <1>10
    <2> HIDE DEF before, gain, after
    <2>3. e.tokens + after >= Token
      BY <1>5, <1>6, <2>1, <2>2, Constants
    <2>4. QED
      BY <2>3 DEF after
  <1>14. Refilled(e, later) >= Token
    <2>1. e.tokens + (later - e.updated) * PerMinute \in Int
      BY <1>6, <1>10, <1>11, <1>12
    <2>2. QED
      BY <1>13, <2>1, Constants DEF Refilled, Least
  <1>15. QED
    BY <1>3, <1>4, <1>14 DEF Allows, later

-----------------------------------------------------------------------------
(* The inductive invariant.                                                *)

\* The requests that will write the row of a lockout they tripped.
Owing(p) == {r \in Requests : /\ req[r].at = "log" /\ req[r].prefix = p
                              /\ req[r].causes = <<"lockout", "refused">>}

RowsAreOwed == \A p \in Prefixes : rows[p] + Cardinality(Owing(p)) <= episodes[p]

\* From any admission on, what was let through since and what is left in the
\* bucket is no more than a full bucket and what was refilled.
RateIsKept ==
  \A e \in Elements(buckets) : \A i \in DOMAIN admitted[e.key] :
    (Len(admitted[e.key]) - i + 1) * Token + e.tokens
      <= Burst * Token + (e.updated - admitted[e.key][i]) * PerMinute

Inv ==
  /\ TypeOK
  /\ OneEach(throttle.entries) /\ OneEach(buckets)
  /\ RowsAreOwed
  /\ RateIsKept
  /\ RateIsBounded

-----------------------------------------------------------------------------
(* Types.                                                                  *)

Places == {"lookup", "log", "route", "upload", "queue", "work", "finish", "failed"}

LEMMA GotoIsTyped ==
  ASSUME TypeOK, NEW r \in Requests, req[r] # Idle, NEW at \in Places \ {"log"}, Goto(r, at)
  PROVE  /\ req' \in [Requests -> {Idle} \cup Busy]
         /\ \A q \in Requests : req'[q].at = "log" => req'[q].causes # <<>> /\ req'[q] = req[q]
         /\ \A q \in Requests : req[q].at = "log" => req'[q] = req[q] \/ q = r
         /\ req'[r].at # "log"
  <1> DEFINE new == [req[r] EXCEPT !.at = at]
  <1>1. req[r] \in Busy
    BY DEF TypeOK
  <1>2. new \in Busy /\ new.at = at
    BY <1>1 DEF Busy, Places
  <1>3. req' = [req EXCEPT ![r] = new]
    BY DEF Goto
  <1> HIDE DEF new
  <1>4. req' \in [Requests -> {Idle} \cup Busy]
    BY <1>2, <1>3 DEF TypeOK
  <1>5. \A q \in Requests : req'[q] = IF q = r THEN new ELSE req[q]
    BY <1>3 DEF TypeOK
  <1>6. QED
    BY <1>2, <1>4, <1>5 DEF TypeOK

LEMMA FinishIsTyped ==
  ASSUME TypeOK, NEW r \in Requests, Finish(r)
  PROVE  /\ req' \in [Requests -> {Idle} \cup Busy]
         /\ \A q \in Requests : req'[q].at = "log" => req'[q].causes # <<>> /\ req'[q] = req[q]
         /\ \A q \in Requests : req[q].at = "log" => req'[q] = req[q] \/ q = r
         /\ req'[r].at # "log"
  <1>1. Idle.at # "log"
    BY DEF Idle
  <1>2. \A q \in Requests : req'[q] = IF q = r THEN Idle ELSE req[q]
    BY DEF Finish, TypeOK
  <1>3. req' \in [Requests -> {Idle} \cup Busy]
    BY DEF Finish, TypeOK
  <1>4. QED
    BY <1>1, <1>2, <1>3 DEF TypeOK

\* Outside the boundary's refusals no request starts or stops owing a row.
LEMMA ServeIsTyped ==
  ASSUME TypeOK, NEW r \in Requests,
         \/ LacksScope(r) \/ AcceptKey(r) \/ TakeToken(r) \/ ReceiveUpload(r)
         \/ EnterWork(r) \/ GiveUpWaiting(r) \/ EndWork(r) \/ Answer(r) \/ UnknownKey(r)
  PROVE  /\ req' \in [Requests -> {Idle} \cup Busy]
         /\ \A q \in Requests : req'[q].at = "log" => req'[q].causes # <<>>
         /\ \A p : Owing(p)' = Owing(p)
  <1>1. Idle.at = "idle"
    BY DEF Idle
  <1>2. CASE LacksScope(r)
    <2> DEFINE new == [req[r] EXCEPT !.at = "log", !.causes = <<"refused">>]
    <2>1. req[r] \in Busy /\ req[r].at # "log"
      BY <1>1, <1>2 DEF LacksScope, TypeOK
    <2>2. new \in Busy /\ new.causes = <<"refused">>
      BY <2>1 DEF Busy, Causes
    <2>3. req' = [req EXCEPT ![r] = new]
      BY <1>2 DEF LacksScope
    <2> HIDE DEF new
    <2>4. \A q \in Requests : req'[q] = IF q = r THEN new ELSE req[q]
      BY <2>3 DEF TypeOK
    <2>5. <<"refused">> # <<"lockout", "refused">> /\ <<"refused">> # <<>>
      OBVIOUS
    <2>6. \A p : Owing(p)' = Owing(p)
      BY <2>1, <2>2, <2>4, <2>5 DEF Owing
    <2>7. req' \in [Requests -> {Idle} \cup Busy]
      BY <2>2, <2>3 DEF TypeOK
    <2>8. QED
      BY <2>2, <2>4, <2>5, <2>6, <2>7 DEF TypeOK
  <1>3. CASE ~LacksScope(r)
    <2>1. req[r] # Idle /\ req[r].at # "log"
      BY <1>1, <1>3 DEF AcceptKey, TakeToken, ReceiveUpload, EnterWork, GiveUpWaiting, EndWork, Answer, UnknownKey
    <2>2. Finish(r) \/ \E at \in Places \ {"log"} : Goto(r, at)
      <3>1. CASE AcceptKey(r)
        BY <3>1 DEF AcceptKey, Places
      <3>2. CASE TakeToken(r)
        <4>1. (IF Allows(buckets, req[r].prefix, now) THEN "upload" ELSE "finish") \in Places \ {"log"}
          BY DEF Places
        <4>2. QED
          BY <3>2, <4>1 DEF TakeToken
      <3>3. CASE ReceiveUpload(r)
        BY <3>3 DEF ReceiveUpload, Places
      <3>4. CASE EnterWork(r) \/ GiveUpWaiting(r) \/ EndWork(r)
        BY <3>4 DEF EnterWork, GiveUpWaiting, EndWork, Places
      <3>5. CASE Answer(r) \/ UnknownKey(r)
        BY <3>5 DEF Answer, UnknownKey
      <3>6. QED
        BY <1>3, <3>1, <3>2, <3>3, <3>4, <3>5
    <2>3. /\ req' \in [Requests -> {Idle} \cup Busy]
          /\ \A q \in Requests : req'[q].at = "log" => req'[q].causes # <<>> /\ req'[q] = req[q]
          /\ \A q \in Requests : req[q].at = "log" => req'[q] = req[q] \/ q = r
      BY <2>1, <2>2, GotoIsTyped, FinishIsTyped
    <2>4. \A q \in Requests : req[q].at = "log" => req'[q] = req[q]
      BY <2>1, <2>3
    <2>5. \A p : Owing(p)' = Owing(p)
      BY <2>3, <2>4 DEF Owing
    <2>6. QED
      BY <2>3, <2>5
  <1>4. QED
    BY <1>2, <1>3

LEMMA PresentIsTyped ==
  ASSUME TypeOK, NEW r \in Requests, NEW p \in Prefixes, Present(r, p)
  PROVE  /\ req' \in [Requests -> {Idle} \cup Busy]
         /\ \A q \in Requests : req'[q].at = "log" => req'[q].causes # <<>>
         /\ \A x : Owing(x)' = Owing(x)
  <1> DEFINE new == [at |-> "lookup", prefix |-> p, causes |-> <<>>]
  <1>1. new \in Busy /\ new.at = "lookup"
    BY DEF Busy, Causes
  <1>2. req[r].at # "log"
    BY DEF Present, Idle
  <1>3. req' = [req EXCEPT ![r] = new]
    BY DEF Present
  <1> HIDE DEF new
  <1>4. req' \in [Requests -> {Idle} \cup Busy]
    BY <1>1, <1>3 DEF TypeOK
  <1>5. \A q \in Requests : req'[q] = IF q = r THEN new ELSE req[q]
    BY <1>3 DEF TypeOK
  <1>6. \A x : Owing(x)' = Owing(x)
    BY <1>1, <1>2, <1>5 DEF Owing
  <1>7. QED
    BY <1>1, <1>4, <1>5, <1>6 DEF TypeOK

\* A refused key owes the row of the lockout it tripped, and no other does.
LEMMA RejectOwes ==
  ASSUME TypeOK, NEW r \in Requests, RejectKey(r), NEW p, req[r].prefix = p
  PROVE  /\ p \in Prefixes
         /\ req' \in [Requests -> {Idle} \cup Busy]
         /\ \A q \in Requests : req'[q].at = "log" => req'[q].causes # <<>>
         /\ \A x : x # p => Owing(x)' = Owing(x)
         /\ r \notin Owing(p)
         /\ Owing(p)' = IF OwesLockoutRow(p) THEN Owing(p) \cup {r} ELSE Owing(p)
  <1> DEFINE causes == IF OwesLockoutRow(p) THEN <<"lockout", "refused">> ELSE <<"refused">>
             new == [req[r] EXCEPT !.at = "log", !.causes = causes]
  <1>1. req[r] \in Busy /\ req[r].at = "lookup"
    BY DEF RejectKey, TypeOK, Idle
  <1>2. p \in Prefixes
    BY <1>1 DEF Busy
  <1>3. causes \in Causes /\ causes # <<>> /\ (causes = <<"lockout", "refused">> <=> OwesLockoutRow(p) = TRUE)
    BY DEF Causes, OwesLockoutRow
  <1> HIDE DEF causes
  <1>4. new \in Busy /\ new.at = "log" /\ new.prefix = p /\ new.causes = causes
    BY <1>1, <1>3 DEF Busy
  <1>5. req' = [req EXCEPT ![r] = new]
    BY DEF RejectKey, causes
  <1> HIDE DEF new
  <1>6. req' \in [Requests -> {Idle} \cup Busy]
    BY <1>4, <1>5 DEF TypeOK
  <1>7. \A q \in Requests : req'[q] = IF q = r THEN new ELSE req[q]
    BY <1>5 DEF TypeOK
  <1>8. \A x : x # p => Owing(x)' = Owing(x)
    BY <1>1, <1>4, <1>7 DEF Owing
  <1>9. r \notin Owing(p)
    BY <1>1 DEF Owing
  <1>10. causes = <<"lockout", "refused">> => Owing(p)' = Owing(p) \cup {r}
    BY <1>4, <1>7 DEF Owing
  <1>11. causes # <<"lockout", "refused">> => Owing(p)' = Owing(p)
    BY <1>1, <1>4, <1>7 DEF Owing
  <1>12. Owing(p)' = IF OwesLockoutRow(p) THEN Owing(p) \cup {r} ELSE Owing(p)
    BY <1>3, <1>10, <1>11
  <1>13. \A q \in Requests : req'[q].at = "log" => req'[q].causes # <<>>
    BY <1>3, <1>4, <1>7 DEF TypeOK
  <1>14. QED
    BY <1>2, <1>6, <1>8, <1>9, <1>12, <1>13

\* Writing a row pays what was owed.
LEMMA LogPays ==
  ASSUME TypeOK, NEW r \in Requests, LogRefusal(r)
  PROVE  /\ req[r].prefix \in Prefixes
         /\ req' \in [Requests -> {Idle} \cup Busy]
         /\ \A q \in Requests : req'[q].at = "log" => req'[q].causes # <<>>
         /\ \A p : Owing(p)' = Owing(p) \ {r}
         /\ \/ rows' = rows
            \/ r \in Owing(req[r].prefix) /\ rows' = [rows EXCEPT ![req[r].prefix] = @ + 1]
  <1>1. req[r] \in Busy /\ req[r].at = "log" /\ req[r].causes # <<>>
    BY DEF LogRefusal, TypeOK, Idle
  <1>2. req[r].prefix \in Prefixes /\ req[r].causes \in Causes
    BY <1>1 DEF Busy
  <1>3. req[r].causes = <<"refused">> \/ req[r].causes = <<"lockout", "refused">>
    BY <1>1, <1>2 DEF Causes
  <1>4. \/ rows' = rows
        \/ r \in Owing(req[r].prefix) /\ rows' = [rows EXCEPT ![req[r].prefix] = @ + 1]
    <2>1. \/ rows' = rows
          \/ Head(req[r].causes) = "lockout" /\ rows' = [rows EXCEPT ![req[r].prefix] = @ + 1]
      BY DEF LogRefusal
    <2>2. Head(req[r].causes) = "lockout" => req[r].causes = <<"lockout", "refused">>
      BY <1>3
    <2>3. req[r].causes = <<"lockout", "refused">> => r \in Owing(req[r].prefix)
      BY <1>1 DEF Owing
    <2>4. QED
      BY <2>1, <2>2, <2>3
  <1>5. CASE Finish(r)
    <2>1. /\ req' \in [Requests -> {Idle} \cup Busy]
          /\ \A q \in Requests : req'[q].at = "log" => req'[q].causes # <<>> /\ req'[q] = req[q]
          /\ \A q \in Requests : req[q].at = "log" => req'[q] = req[q] \/ q = r
          /\ req'[r].at # "log"
      BY <1>5, FinishIsTyped
    <2>2. \A p : Owing(p)' = Owing(p) \ {r}
      BY <2>1 DEF Owing
    <2>3. QED
      BY <1>2, <1>4, <2>1, <2>2
  <1>6. CASE req' = [req EXCEPT ![r].causes = Tail(req[r].causes)] /\ Len(req[r].causes) # 1
    <2> DEFINE new == [req[r] EXCEPT !.causes = <<"refused">>]
    <2>1. req[r].causes = <<"lockout", "refused">> /\ Tail(req[r].causes) = <<"refused">>
      <3>1. Len(<<"refused">>) = 1 /\ Tail(<<"lockout", "refused">>) = <<"refused">>
        OBVIOUS
      <3>2. QED
        BY <1>3, <1>6, <3>1
    <2>2. new \in Busy /\ new.causes = <<"refused">> /\ <<"refused">> # <<"lockout", "refused">> /\ <<"refused">> # <<>>
      BY <1>1 DEF Busy, Causes
    <2>3. req' = [req EXCEPT ![r] = new]
      BY <1>6, <2>1
    <2> HIDE DEF new
    <2>4. req' \in [Requests -> {Idle} \cup Busy]
      BY <2>2, <2>3 DEF TypeOK
    <2>5. \A q \in Requests : req'[q] = IF q = r THEN new ELSE req[q]
      BY <2>3 DEF TypeOK
    <2>6. \A p : Owing(p)' = Owing(p) \ {r}
      BY <2>2, <2>5 DEF Owing
    <2>7. \A q \in Requests : req'[q].at = "log" => req'[q].causes # <<>>
      BY <2>2, <2>5 DEF TypeOK
    <2>8. QED
      BY <1>2, <1>4, <2>4, <2>6, <2>7
  <1>7. QED
    BY <1>5, <1>6 DEF LogRefusal

-----------------------------------------------------------------------------
(* The steps.                                                              *)

LEMMA CountFailureStep ==
  ASSUME TypeOK, OneEach(throttle.entries), NEW p \in Prefixes, CountFailure(p)
  PROVE  /\ IsThrottle(throttle')
         /\ episodes' \in [Prefixes -> Nat]
         /\ \A q \in Prefixes : q # p => episodes'[q] = episodes[q]
         /\ episodes[p] <= episodes'[p]
         /\ ~LockedOut(throttle, p, now) /\ LockedOut(throttle', p, now) => episodes'[p] = episodes[p] + 1
  <1>1. IsThrottle(throttle) /\ now \in Nat
    BY DEF IsThrottle, TypeOK, Entry
  <1>2. throttle' = Failed(throttle, p, now)
    BY DEF CountFailure
  <1>3. IsThrottle(throttle')
    BY <1>1, <1>2, FailedKeepsLockouts
  <1>4. episodes \in [Prefixes -> Nat]
    BY DEF TypeOK
  <1>5. CASE ~LockedOut(throttle, p, now) /\ LockedOut(throttle', p, now)
    <2>1. episodes' = [episodes EXCEPT ![p] = episodes[p] + 1]
      BY <1>5 DEF CountFailure
    <2>2. QED
      BY <1>3, <1>4, <2>1
  <1>6. CASE ~(~LockedOut(throttle, p, now) /\ LockedOut(throttle', p, now))
    <2>1. episodes' = [episodes EXCEPT ![p] = episodes[p]]
      BY <1>6 DEF CountFailure
    <2>2. episodes' = episodes
      BY <1>4, <2>1
    <2>3. QED
      BY <1>3, <1>4, <1>6, <2>2
  <1>7. QED
    BY <1>5, <1>6

\* The limiter's history: the buckets and the admissions of other keys stay or go.
LEMMA TakeTokenStep ==
  ASSUME TypeOK, OneEach(buckets), RateIsKept, RateIsBounded, NEW r \in Requests, TakeToken(r)
  PROVE  /\ buckets' \in Seq(Bucket(now)) /\ OneEach(buckets')
         /\ admitted' \in [Prefixes -> Seq(Nat)]
         /\ RateIsKept' /\ RateIsBounded'
  <1> DEFINE k == req[r].prefix
  <1>1. req[r] \in Busy
    BY DEF TakeToken, TypeOK, Idle
  <1>2. k \in Prefixes /\ now \in Nat
    BY <1>1 DEF Busy, TypeOK
  <1> SUFFICES ASSUME NEW p \in Prefixes, p = k
               PROVE  /\ buckets' \in Seq(Bucket(now)) /\ OneEach(buckets')
                      /\ admitted' \in [Prefixes -> Seq(Nat)]
                      /\ RateIsKept' /\ RateIsBounded'
    BY <1>2
  <1> DEFINE old == BucketOf(buckets, p, now)
             tokens == Refilled(old, now)
             left == IF Allows(buckets, p, now) THEN tokens - Token ELSE tokens
             before == IF StillTracked(p) THEN admitted[p] ELSE <<>>
             gain == IF Allows(buckets, p, now) THEN <<now>> ELSE <<>>
             after == before \o gain
             full == Burst * Token
  <1>3. /\ buckets' = Checked(buckets, p, now)
        /\ admitted' = [q \in Prefixes |-> IF q # p THEN IF q \in Keys(buckets') THEN admitted[q] ELSE <<>> ELSE after]
    BY DEF TakeToken
  <1>4. buckets \in Seq(Bucket(now))
    BY DEF TypeOK, Bucket
  <1>5. /\ buckets' \in Seq(Bucket(now)) /\ OneEach(buckets')
        /\ \A e \in Elements(buckets') : \/ e.key # p /\ e \in Elements(buckets)
                                         \/ e.key = p /\ e.tokens = left /\ e.updated = now
    BY <1>2, <1>3, <1>4, CheckedBuckets
  <1>6. /\ old \in Bucket(now)
        /\ \A e \in Elements(buckets) : e.key = p => e = old
        /\ p \in Keys(buckets) => old \in Elements(buckets) /\ old.key = p
    BY <1>2, <1>4, BucketIsTyped, EntryIsUnique DEF BucketOf
  <1>7. old.tokens \in Int /\ old.updated \in Int
    BY <1>6 DEF Bucket
  <1>8. tokens \in 0..full /\ tokens <= old.tokens + (now - old.updated) * PerMinute
    BY <1>2, <1>6, Refilling
  <1>9. full \in Nat /\ Token \in Nat
    BY Constants
  <1>10. left \in Int /\ 0 <= left /\ left <= tokens /\ (Allows(buckets, p, now) => left = tokens - Token)
    BY <1>8, <1>9 DEF Allows
  <1>11. before \in Seq(Nat) /\ before = (IF p \in Keys(buckets) THEN admitted[p] ELSE <<>>)
    BY DEF TypeOK, StillTracked
  <1>12. \A i \in DOMAIN before : (Len(before) - i + 1) * Token + tokens <= full + (now - before[i]) * PerMinute
    <2> TAKE i \in DOMAIN before
    <2>1. p \in Keys(buckets) /\ before = admitted[p]
      BY <1>11
    <2>2. i \in Int /\ before[i] \in Int /\ Len(before) \in Int
      BY <1>11
    <2> DEFINE used == (Len(before) - i + 1) * Token
               since == (old.updated - before[i]) * PerMinute
               refill == (now - old.updated) * PerMinute
               total == (now - before[i]) * PerMinute
    <2>3. used + old.tokens <= full + since
      BY <1>6, <2>1 DEF RateIsKept
    <2>4. used \in Int /\ since \in Int /\ refill \in Int /\ total \in Int
      BY <1>2, <1>7, <2>2, Products, Constants
    <2>5. total = refill + since
      <3>1. now - before[i] = (now - old.updated) + (old.updated - before[i])
        BY <1>2, <1>7, <2>2
      <3>2. now - old.updated \in Int /\ old.updated - before[i] \in Int
        BY <1>2, <1>7, <2>2
      <3>3. ((now - old.updated) + (old.updated - before[i])) * PerMinute = refill + since
        BY <3>2, Products, Constants
      <3>4. QED
        BY <3>1, <3>3
    <2>6. tokens <= old.tokens + refill
      BY <1>8
    <2> HIDE DEF used, since, refill, total, old, tokens, full
    <2>7. used + tokens <= full + total
      BY <1>7, <1>8, <1>9, <2>3, <2>4, <2>5, <2>6
    <2>8. QED
      BY <2>7 DEF used, total
  <1> HIDE DEF old, tokens, before
  <1>13. /\ after \in Seq(Nat)
         /\ \A i \in DOMAIN after : (Len(after) - i + 1) * Token + left <= full + (now - after[i]) * PerMinute
         /\ \A i \in DOMAIN after : \/ i \in DOMAIN before /\ after[i] = before[i]
                                    \/ i = Len(after) /\ after[i] = now
    <2>1. CASE Allows(buckets, p, now)
      <3>1. /\ after \in Seq(Nat) /\ Len(after) = Len(before) + 1 /\ after[Len(before) + 1] = now
            /\ \A i \in 1..Len(before) : after[i] = before[i]
            /\ DOMAIN after = 1..(Len(before) + 1) /\ DOMAIN before = 1..Len(before) /\ Len(before) \in Nat
        BY <1>2, <1>11, <2>1
      <3> HIDE DEF after
      <3>2. ASSUME NEW i \in DOMAIN after
            PROVE  (Len(after) - i + 1) * Token + left <= full + (now - after[i]) * PerMinute
        <4>1. CASE i = Len(before) + 1
          <5>1. (Len(after) - i + 1) * Token = Token /\ (now - after[i]) * PerMinute = 0
            BY <1>2, <1>9, <3>1, <4>1, Constants
          <5> HIDE DEF left, full
          <5>2. QED
            BY <1>8, <1>9, <1>10, <2>1, <5>1
        <4>2. CASE i # Len(before) + 1
          <5>1. i \in DOMAIN before /\ after[i] = before[i] /\ i \in Int /\ before[i] \in Int
            <6>1. i \in 1..Len(before) /\ i \in Int
              BY <3>1, <4>2
            <6>2. before[i] \in Nat
              BY <1>11, <6>1
            <6>3. QED
              BY <3>1, <6>1, <6>2
          <5> DEFINE used == (Len(before) - i + 1) * Token
                     total == (now - before[i]) * PerMinute
          <5>2. used + tokens <= full + total
            BY <1>12, <5>1
          <5>3. used \in Int /\ total \in Int
            BY <1>2, <3>1, <5>1, Products, Constants
          <5>4. (Len(after) - i + 1) * Token = used + Token
            <6>1. Len(after) - i + 1 = (Len(before) - i + 1) + 1 /\ Len(before) - i + 1 \in Int
              BY <3>1, <5>1
            <6>2. ((Len(before) - i + 1) + 1) * Token = used + 1 * Token
              BY <6>1, Products, Constants
            <6>3. QED
              BY <1>9, <6>1, <6>2
          <5> HIDE DEF used, total, left, full
          <5>5. (used + Token) + left <= full + total
            BY <1>8, <1>9, <1>10, <2>1, <5>2, <5>3
          <5>6. QED
            BY <5>1, <5>4, <5>5 DEF total
        <4>3. QED
          BY <4>1, <4>2
      <3>3. \A i \in DOMAIN after : \/ i \in DOMAIN before /\ after[i] = before[i]
                                    \/ i = Len(after) /\ after[i] = now
        BY <3>1
      <3>4. QED
        BY <3>1, <3>2, <3>3
    <2>2. CASE ~Allows(buckets, p, now)
      <3>1. after = before
        BY <1>11, <2>2
      <3>2. left = tokens
        BY <2>2
      <3> HIDE DEF after, left
      <3>3. \A i \in DOMAIN after : (Len(after) - i + 1) * Token + left <= full + (now - after[i]) * PerMinute
        BY <1>12, <3>1, <3>2
      <3>4. QED
        BY <1>11, <3>1, <3>3
    <2>3. QED
      BY <2>1, <2>2
  <1> HIDE DEF after, left, full
  <1>14. admitted' \in [Prefixes -> Seq(Nat)]
    BY <1>3, <1>13 DEF TypeOK
  <1>15. RateIsKept'
    <2> SUFFICES ASSUME NEW e \in Elements(buckets'), NEW i \in DOMAIN admitted'[e.key]
                 PROVE  (Len(admitted'[e.key]) - i + 1) * Token + e.tokens
                          <= full + (e.updated - admitted'[e.key][i]) * PerMinute
      BY DEF RateIsKept, Elements, full
    <2>1. e \in Bucket(now)
      BY <1>5 DEF Elements
    <2>2. e.key \in Prefixes
      BY <2>1 DEF Bucket
    <2>3. CASE e.key = p
      <3>1. admitted'[e.key] = after /\ e.tokens = left /\ e.updated = now
        BY <1>3, <1>5, <2>2, <2>3
      <3>2. QED
        BY <1>13, <3>1
    <2>4. CASE e.key # p
      <3>1. e \in Elements(buckets) /\ e.key \in Keys(buckets')
        BY <1>5, <2>4 DEF Keys, Elements
      <3>2. admitted'[e.key] = admitted[e.key]
        BY <1>3, <2>2, <2>4, <3>1
      <3>3. QED
        BY <3>1, <3>2 DEF RateIsKept, full
    <2>5. QED
      BY <2>3, <2>4
  <1>16. RateIsBounded'
    <2> SUFFICES ASSUME NEW q \in Prefixes, NEW i \in DOMAIN admitted'[q], NEW j \in DOMAIN admitted'[q], i <= j
                 PROVE  (j - i + 1) * Token <= full + (admitted'[q][j] - admitted'[q][i]) * PerMinute
      BY DEF RateIsBounded, full
    <2>1. CASE q # p
      <3>1. admitted'[q] = admitted[q] \/ admitted'[q] = <<>>
        BY <1>3, <2>1
      <3>2. admitted'[q] = admitted[q]
        BY <3>1
      <3>3. QED
        BY <3>2 DEF RateIsBounded, full
    <2>2. CASE q = p
      <3>1. admitted'[q] = after
        BY <1>3, <2>2
      <3>2. CASE j = Len(after) /\ after[j] = now
        <4>1. i \in Int /\ after[i] \in Int /\ j \in Int
          BY <1>13, <3>1
        <4> DEFINE used == (Len(after) - i + 1) * Token
                   total == (now - after[i]) * PerMinute
        <4>2. used + left <= full + total
          BY <1>13, <3>1
        <4>3. used \in Int /\ total \in Int
          BY <1>2, <3>2, <4>1, Products, Constants
        <4> HIDE DEF used, total
        <4>4. used <= full + total
          BY <1>9, <1>10, <4>2, <4>3
        <4>5. QED
          BY <3>1, <3>2, <4>4 DEF used, total
      <3>3. CASE j \in DOMAIN before /\ after[j] = before[j]
        <4>1. i \in DOMAIN before /\ after[i] = before[i]
          <5>1. /\ DOMAIN before = 1..Len(before) /\ Len(before) \in Nat
                /\ DOMAIN after = 1..Len(after) /\ Len(after) \in Nat
            BY <1>11, <1>13
          <5>2. i \in 1..Len(after) /\ j \in 1..Len(after) /\ i <= j /\ j \in 1..Len(before)
            BY <3>1, <3>3, <5>1
          <5>3. i \in 1..Len(before) /\ (i # Len(after) \/ i = j)
            BY <5>1, <5>2
          <5>4. QED
            BY <1>13, <3>1, <3>3, <5>1, <5>2, <5>3
        <4>2. before = admitted[p]
          BY <1>11, <3>3
        <4>3. QED
          BY <3>1, <3>3, <4>1, <4>2 DEF RateIsBounded, full
      <3>4. QED
        BY <1>13, <3>1, <3>2, <3>3
    <2>3. QED
      BY <2>1, <2>2
  <1>17. QED
    BY <1>5, <1>14, <1>15, <1>16

LEMMA TypeStep ==
  ASSUME TypeOK, OneEach(throttle.entries), OneEach(buckets), RateIsKept, RateIsBounded, [Next]_vars
  PROVE  TypeOK' /\ OneEach(throttle.entries)' /\ OneEach(buckets)' /\ RateIsKept' /\ RateIsBounded'
  <1>1. /\ now \in Nat /\ now + 1 \in Nat
        /\ Bucket(now) = [key : Prefixes, tokens : 0..(Burst * Token), updated : 0..now]
        /\ buckets \in Seq(Bucket(now))
        /\ throttle \in [entries : Seq(Entry), purge : Nat]
        /\ IsThrottle(throttle)
    BY DEF TypeOK, Bucket, Entry, IsThrottle
  <1> DEFINE Requested == /\ req' \in [Requests -> {Idle} \cup Busy]
                          /\ \A r \in Requests : req'[r].at = "log" => req'[r].causes # <<>>
             Limits == /\ throttle' \in [entries : Seq(Entry), purge : Nat]
                       /\ buckets' \in Seq(Bucket(now'))
                       /\ episodes' \in [Prefixes -> Nat] /\ admitted' \in [Prefixes -> Seq(Nat)]
             Rest == /\ now' \in Nat /\ keys' \in [Prefixes -> {"none", "live", "revoked"}]
                     /\ permits' \in Int /\ begun' \in Nat /\ temp' \subseteq Requests
                     /\ rows' \in [Prefixes -> Nat]
  <1>2. Requested /\ Limits /\ Rest => TypeOK'
    BY DEF TypeOK, Bucket, Entry
  <1>3. UNCHANGED <<buckets, admitted>> => RateIsKept' /\ RateIsBounded'
    BY DEF RateIsKept, RateIsBounded, Elements
  <1>4. UNCHANGED <<now, limits>> => Limits
    BY <1>1 DEF limits, TypeOK
  <1> HIDE DEF Limits
  <1>5. ASSUME NEW r \in Requests, NEW p \in Prefixes, Present(r, p)
        PROVE  Requested /\ Limits /\ Rest /\ UNCHANGED <<throttle, buckets, admitted>>
    <2>1. Requested
      BY <1>5, PresentIsTyped
    <2>2. Limits /\ UNCHANGED <<throttle, buckets, admitted>>
      BY <1>4, <1>5 DEF Present, limits
    <2>3. Rest
      BY <1>5 DEF Present, work, TypeOK
    <2>4. QED
      BY <2>1, <2>2, <2>3
  <1>6. ASSUME NEW r \in Requests, UnknownKey(r) \/ RejectKey(r)
        PROVE  Requested /\ Limits /\ Rest /\ OneEach(throttle'.entries) /\ UNCHANGED <<buckets, admitted>>
    <2>1. Requested
      BY <1>6, ServeIsTyped, RejectOwes
    <2>2. req[r].prefix \in Prefixes /\ CountFailure(req[r].prefix)
      <3>1. req[r] \in Busy
        BY <1>6 DEF UnknownKey, RejectKey, TypeOK, Idle
      <3>2. QED
        BY <1>6, <3>1 DEF UnknownKey, RejectKey, Busy
    <2>3. IsThrottle(throttle') /\ episodes' \in [Prefixes -> Nat]
      BY <2>2, CountFailureStep
    <2>4. UNCHANGED <<now, buckets, admitted>>
      BY <1>6 DEF UnknownKey, RejectKey
    <2>5. Limits
      BY <1>1, <2>3, <2>4 DEF Limits, TypeOK, IsThrottle
    <2>6. Rest
      BY <1>6 DEF UnknownKey, RejectKey, work, TypeOK
    <2>7. QED
      BY <2>1, <2>3, <2>4, <2>5, <2>6 DEF IsThrottle
  <1>7. ASSUME NEW r \in Requests, AcceptKey(r)
        PROVE  Requested /\ Limits /\ Rest /\ OneEach(throttle'.entries) /\ UNCHANGED <<buckets, admitted>>
    <2>1. Requested
      BY <1>7, ServeIsTyped
    <2>2. IsThrottle(throttle')
      BY <1>1, <1>7, ForgottenKeepsOthers DEF AcceptKey
    <2>3. UNCHANGED <<now, buckets, admitted, episodes>>
      BY <1>7 DEF AcceptKey
    <2>4. Limits
      BY <1>1, <2>2, <2>3 DEF Limits, TypeOK, IsThrottle
    <2>5. Rest
      BY <1>7 DEF AcceptKey, work, TypeOK
    <2>6. QED
      BY <2>1, <2>2, <2>3, <2>4, <2>5 DEF IsThrottle
  <1>8. ASSUME NEW r \in Requests, TakeToken(r)
        PROVE  /\ Requested /\ Limits /\ Rest /\ OneEach(buckets') /\ UNCHANGED throttle
               /\ RateIsKept' /\ RateIsBounded'
    <2>1. Requested
      BY <1>8, ServeIsTyped
    <2>2. UNCHANGED <<now, throttle, episodes>> /\ Rest
      BY <1>8 DEF TakeToken, work, TypeOK
    <2>3. /\ buckets' \in Seq(Bucket(now)) /\ OneEach(buckets')
          /\ admitted' \in [Prefixes -> Seq(Nat)] /\ RateIsKept' /\ RateIsBounded'
      BY <1>8, TakeTokenStep
    <2>4. Limits
      BY <1>1, <2>2, <2>3 DEF Limits, TypeOK
    <2>5. QED
      BY <2>1, <2>2, <2>3, <2>4
  <1>9. ASSUME NEW r \in Requests,
               LacksScope(r) \/ ReceiveUpload(r) \/ EnterWork(r) \/ GiveUpWaiting(r) \/ EndWork(r) \/ Answer(r)
        PROVE  Requested /\ Limits /\ Rest /\ UNCHANGED <<throttle, buckets, admitted>>
    <2>1. Requested
      BY <1>9, ServeIsTyped
    <2>2. UNCHANGED <<now, limits>> /\ Rest
      BY <1>9 DEF LacksScope, ReceiveUpload, EnterWork, GiveUpWaiting, EndWork, Answer, work, TypeOK
    <2>3. QED
      BY <1>4, <2>1, <2>2 DEF limits
  <1>10. ASSUME NEW r \in Requests, LogRefusal(r)
         PROVE  Requested /\ Limits /\ Rest /\ UNCHANGED <<throttle, buckets, admitted>>
    <2>1. Requested
      BY <1>10, LogPays
    <2>2. rows' \in [Prefixes -> Nat]
      <3>1. rows \in [Prefixes -> Nat] /\ req[r].prefix \in Prefixes
        BY <1>10, LogPays DEF TypeOK
      <3>2. rows' = rows \/ rows' = [rows EXCEPT ![req[r].prefix] = rows[req[r].prefix] + 1]
        BY <1>10, LogPays
      <3>3. QED
        BY <3>1, <3>2
    <2>3. UNCHANGED <<now, limits>> /\ UNCHANGED <<keys, permits, temp, begun>>
      BY <1>10 DEF LogRefusal, work
    <2>4. Rest
      BY <2>2, <2>3 DEF TypeOK
    <2>5. QED
      BY <1>4, <2>1, <2>3, <2>4 DEF limits
  <1>11. ASSUME NEW p \in Prefixes, Mint(p) \/ Revoke(p)
         PROVE  Requested /\ Limits /\ Rest /\ UNCHANGED <<throttle, buckets, admitted>>
    <2>1. UNCHANGED <<now, limits>> /\ Requested /\ Rest
      BY <1>11 DEF Mint, Revoke, work, TypeOK
    <2>2. QED
      BY <1>4, <2>1 DEF limits
  <1>12. CASE Advance
    <2>1. UNCHANGED <<throttle, buckets, episodes, admitted>> /\ Requested /\ Rest /\ now' = now + 1
      BY <1>1, <1>12 DEF Advance, limits, work, TypeOK
    <2>2. Bucket(now) \subseteq Bucket(now')
      BY <1>1, <2>1 DEF Bucket
    <2>3. buckets' \in Seq(Bucket(now'))
      BY <1>1, <2>1, <2>2, SeqMonotonic
    <2>4. Limits
      BY <1>1, <2>1, <2>3 DEF Limits, TypeOK
    <2>5. QED
      BY <1>2, <1>3, <2>1, <2>4
  <1>13. CASE UNCHANGED vars
    <2>1. UNCHANGED <<now, limits>> /\ Requested /\ Rest
      BY <1>13 DEF vars, limits, TypeOK
    <2>2. QED
      BY <1>2, <1>3, <1>4, <2>1 DEF limits
  <1> HIDE DEF Requested, Rest
  <1>14. QED
    BY <1>2, <1>3, <1>5, <1>6, <1>7, <1>8, <1>9, <1>10, <1>11, <1>12, <1>13 DEF Next, Serve

LEMMA RowsStep ==
  ASSUME TypeOK, OneEach(throttle.entries), RowsAreOwed, [Next]_vars
  PROVE  RowsAreOwed'
  <1> SUFFICES ASSUME NEW p \in Prefixes
               PROVE  rows'[p] + Cardinality(Owing(p)') <= episodes'[p]
    BY DEF RowsAreOwed
  <1>1. IsFiniteSet(Owing(p)) /\ Cardinality(Owing(p)) \in Nat
    <2>1. Owing(p) \in SUBSET Requests
      BY DEF Owing
    <2>2. IsFiniteSet(Requests)
      BY ApiAssumption DEF ApiAssumption
    <2>3. QED
      BY <2>1, <2>2, FS_Subset, FS_CardinalityType
  <1>2. /\ rows[p] \in Nat /\ episodes[p] \in Nat /\ rows[p] + Cardinality(Owing(p)) <= episodes[p]
        /\ rows \in [Prefixes -> Nat]
    BY DEF TypeOK, RowsAreOwed
  <1>3. ASSUME NEW r \in Requests, UnknownKey(r)
        PROVE  rows'[p] + Cardinality(Owing(p)') <= episodes'[p]
    <2>1. Owing(p)' = Owing(p) /\ rows' = rows
      BY <1>3, ServeIsTyped DEF UnknownKey
    <2>2. req[r].prefix \in Prefixes /\ CountFailure(req[r].prefix)
      <3>1. req[r] \in Busy
        BY <1>3 DEF UnknownKey, TypeOK, Idle
      <3>2. QED
        BY <1>3, <3>1 DEF UnknownKey, Busy
    <2>3. episodes[p] <= episodes'[p] /\ episodes'[p] \in Nat
      <3>1. CASE p = req[r].prefix
        BY <2>2, <3>1, CountFailureStep
      <3>2. CASE p # req[r].prefix
        BY <1>2, <2>2, <3>2, CountFailureStep
      <3>3. QED
        BY <3>1, <3>2
    <2>4. QED
      BY <1>1, <1>2, <2>1, <2>3
  <1>4. ASSUME NEW r \in Requests, RejectKey(r)
        PROVE  rows'[p] + Cardinality(Owing(p)') <= episodes'[p]
    <2>1. PICK k : req[r].prefix = k
      OBVIOUS
    <2>2. k \in Prefixes /\ CountFailure(k) /\ rows' = rows
      BY <1>4, <2>1, RejectOwes DEF RejectKey
    <2>3. CASE p # k
      BY <1>2, <1>4, <2>1, <2>2, <2>3, RejectOwes, CountFailureStep
    <2>4. CASE p = k
      <3>1. r \notin Owing(p) /\ Owing(p)' = IF OwesLockoutRow(p) THEN Owing(p) \cup {r} ELSE Owing(p)
        BY <1>4, <2>1, <2>4, RejectOwes
      <3>2. episodes'[p] \in Nat /\ episodes[p] <= episodes'[p]
        BY <2>2, <2>4, CountFailureStep
      <3>3. CASE OwesLockoutRow(p)
        <4>1. episodes'[p] = episodes[p] + 1
          BY <2>2, <2>4, <3>3, CountFailureStep DEF OwesLockoutRow
        <4>2. Cardinality(Owing(p)') = Cardinality(Owing(p)) + 1
          BY <1>1, <3>1, <3>3, FS_AddElement
        <4>3. QED
          BY <1>1, <1>2, <2>2, <4>1, <4>2
      <3>4. CASE ~OwesLockoutRow(p)
        <4>1. Owing(p)' = Owing(p)
          BY <3>1, <3>4
        <4>2. QED
          BY <1>1, <1>2, <2>2, <3>2, <4>1
      <3>5. QED
        BY <3>3, <3>4
    <2>5. QED
      BY <2>3, <2>4
  <1>5. ASSUME NEW r \in Requests, LogRefusal(r)
        PROVE  rows'[p] + Cardinality(Owing(p)') <= episodes'[p]
    <2>1. /\ Owing(p)' = Owing(p) \ {r}
          /\ rows' = rows \/ (r \in Owing(req[r].prefix) /\ rows' = [rows EXCEPT ![req[r].prefix] = rows[req[r].prefix] + 1])
      BY <1>5, LogPays
    <2>2. episodes' = episodes
      BY <1>5 DEF LogRefusal, limits
    <2>3. Cardinality(Owing(p)') = IF r \in Owing(p) THEN Cardinality(Owing(p)) - 1 ELSE Cardinality(Owing(p))
      BY <1>1, <2>1, FS_RemoveElement
    <2>4. \/ rows'[p] = rows[p]
          \/ r \in Owing(p) /\ rows'[p] = rows[p] + 1
      BY <1>2, <2>1
    <2>5. QED
      BY <1>1, <1>2, <2>2, <2>3, <2>4
  <1>6. ASSUME NEW r \in Requests, NEW q \in Prefixes, Present(r, q)
        PROVE  rows'[p] + Cardinality(Owing(p)') <= episodes'[p]
    <2>1. Owing(p)' = Owing(p) /\ rows' = rows /\ episodes' = episodes
      BY <1>6, PresentIsTyped DEF Present, limits
    <2>2. QED
      BY <1>2, <2>1
  <1>7. ASSUME NEW r \in Requests,
               \/ LacksScope(r) \/ AcceptKey(r) \/ TakeToken(r) \/ ReceiveUpload(r)
               \/ EnterWork(r) \/ GiveUpWaiting(r) \/ EndWork(r) \/ Answer(r)
        PROVE  rows'[p] + Cardinality(Owing(p)') <= episodes'[p]
    <2>1. Owing(p)' = Owing(p)
      BY <1>7, ServeIsTyped
    <2>2. rows' = rows /\ episodes' = episodes
      BY <1>7 DEF LacksScope, AcceptKey, TakeToken, ReceiveUpload, EnterWork, GiveUpWaiting, EndWork, Answer, limits
    <2>3. QED
      BY <1>2, <2>1, <2>2
  <1>8. ASSUME UNCHANGED <<req, rows, episodes>> PROVE rows'[p] + Cardinality(Owing(p)') <= episodes'[p]
    BY <1>2, <1>8 DEF Owing
  <1>9. QED
    BY <1>3, <1>4, <1>5, <1>6, <1>7, <1>8 DEF Next, Serve, Mint, Revoke, Advance, vars, limits

-----------------------------------------------------------------------------
(* The theorems.                                                           *)

LEMMA InitInv ==
  ASSUME Init
  PROVE  Inv
  <1>1. /\ now = 0 /\ throttle = ThrottleEmpty /\ buckets = <<>>
        /\ req = [r \in Requests |-> Idle] /\ admitted = [p \in Prefixes |-> <<>>]
        /\ rows = [p \in Prefixes |-> 0] /\ episodes = [p \in Prefixes |-> 0]
    BY DEF Init
  <1>2. throttle \in [entries : Seq(Entry), purge : Nat] /\ DOMAIN throttle.entries = {}
    BY <1>1 DEF ThrottleEmpty
  <1>3. buckets \in Seq([key : Prefixes, tokens : 0..(Burst * Token), updated : 0..now]) /\ DOMAIN buckets = {}
    BY <1>1
  <1>4. \A r \in Requests : req[r].at # "log"
    BY <1>1 DEF Idle
  <1>5. TypeOK
    <2>1. permits \in Int
      BY ApiAssumption DEF Init, ApiAssumption
    <2>2. QED
      BY <1>1, <1>2, <1>3, <1>4, <2>1 DEF Init, TypeOK, Entry
  <1>6. RowsAreOwed
    <2>1. \A p : Owing(p) = {}
      BY <1>4 DEF Owing
    <2>2. \A p \in Prefixes : rows[p] = 0 /\ episodes[p] = 0
      BY <1>1
    <2>3. QED
      BY <2>1, <2>2, FS_EmptySet DEF RowsAreOwed
  <1>7. RateIsKept
    BY <1>3 DEF RateIsKept, Elements
  <1>8. RateIsBounded
    BY <1>1 DEF RateIsBounded
  <1>9. QED
    BY <1>2, <1>3, <1>5, <1>6, <1>7, <1>8 DEF Inv, OneEach

\* The inductive invariant holds throughout.
THEOREM ApiInvariant == Spec => []Inv
  <1>1. Init => Inv
    BY InitInv
  <1>2. Inv /\ [Next]_vars => Inv'
    BY TypeStep, RowsStep DEF Inv
  <1>3. QED
    BY <1>1, <1>2, PTL DEF Spec

\* Keys, limits and requests keep their types: a bucket never holds more than a burst
\* nor a time that is still to come.
THEOREM ApiTypeCorrect == Spec => []TypeOK
  <1>1. Inv => TypeOK
    BY DEF Inv
  <1>2. QED
    BY <1>1, ApiInvariant, PTL

\* A lockout costs at most one usage row, however many requests were under way.
THEOREM LockoutsCostOneRow == Spec => []OneRowPerLockout
  <1>1. Inv => OneRowPerLockout
    <2> SUFFICES ASSUME Inv, NEW p \in Prefixes PROVE rows[p] <= episodes[p]
      BY DEF OneRowPerLockout
    <2>1. Owing(p) \in SUBSET Requests /\ IsFiniteSet(Requests)
      BY ApiAssumption DEF Owing, ApiAssumption
    <2>2. Cardinality(Owing(p)) \in Nat
      BY <2>1, FS_Subset, FS_CardinalityType
    <2>3. rows[p] \in Nat /\ episodes[p] \in Nat /\ rows[p] + Cardinality(Owing(p)) <= episodes[p]
      BY DEF Inv, TypeOK, RowsAreOwed
    <2>4. QED
      BY <2>2, <2>3
  <1>2. QED
    BY <1>1, ApiInvariant, PTL

\* Over any stretch of time a key is let through at most a burst and what the rate
\* refills, while its bucket is tracked.
THEOREM AdmissionsAreBounded == Spec => []RateIsBounded
  <1>1. Inv => RateIsBounded
    BY DEF Inv
  <1>2. QED
    BY <1>1, ApiInvariant, PTL

\* Whoever waits the seconds a refusal names is let in.
THEOREM WaitsAreEnough == Spec => []WaitIsEnough
  <1>1. Inv => WaitIsEnough
    <2> SUFFICES ASSUME Inv, NEW p \in Prefixes
                 PROVE  /\ LockedOut(throttle, p, now) =>
                             ~LockedOut(throttle, p, now + RetryAfter(throttle, p, now) * Tick)
                        /\ ~Allows(buckets, p, now) =>
                             Allows(buckets, p, now + WaitFor(buckets, p, now) * Tick)
      BY DEF WaitIsEnough
    <2>1. now \in Nat /\ IsThrottle(throttle) /\ buckets \in Seq(Bucket(now)) /\ OneEach(buckets)
      BY DEF Inv, TypeOK, IsThrottle, Bucket, Entry
    <2>2. QED
      BY <2>1, LockoutEnds, RefusalEnds
  <1>2. QED
    BY <1>1, ApiInvariant, PTL

\* A lockout ends with its time, with a success of its own key, or when all that is
\* tracked is locked out: no flood of other prefixes clears one.
THEOREM FloodsClearNoLockout == Spec => LockoutStands
  <1> DEFINE A == \A p \in Prefixes :
       LockedOut(throttle, p, now) /\ ~LockedOut(throttle', p, now')
         => \/ now' > now
            \/ \E r \in Requests : AcceptKey(r) /\ req[r].prefix = p
            \/ \A q \in Keys(throttle'.entries) : LockedOut(throttle', q, now')
  <1>1. Inv /\ [Next]_vars => [A]_vars
    <2> SUFFICES ASSUME Inv, Next, NEW p \in Prefixes,
                        LockedOut(throttle, p, now), ~LockedOut(throttle', p, now')
                 PROVE  \/ now' > now
                        \/ \E r \in Requests : AcceptKey(r) /\ req[r].prefix = p
                        \/ \A q \in Keys(throttle'.entries) : LockedOut(throttle', q, now')
      OBVIOUS
    <2>1. now \in Nat /\ IsThrottle(throttle) /\ TypeOK
      BY DEF Inv, TypeOK, IsThrottle, Entry
    <2>2. ASSUME NEW r \in Requests, UnknownKey(r) \/ RejectKey(r)
          PROVE  \A q \in Keys(throttle'.entries) : LockedOut(throttle', q, now')
      <3>1. req[r] \in Busy
        BY <2>1, <2>2 DEF UnknownKey, RejectKey, TypeOK, Idle
      <3>2. /\ req[r].prefix \in Prefixes /\ now' = now
            /\ throttle' = Failed(throttle, req[r].prefix, now)
        BY <2>2, <3>1 DEF UnknownKey, RejectKey, CountFailure, Busy
      <3>3. QED
        BY <2>1, <3>2, FailedKeepsLockouts
    <2>3. ASSUME NEW r \in Requests, AcceptKey(r) PROVE req[r].prefix = p
      <3>1. throttle' = Forgotten(throttle, req[r].prefix) /\ now' = now
        BY <2>3 DEF AcceptKey
      <3>2. QED
        BY <2>1, <3>1, ForgottenKeepsOthers
    <2>4. CASE Advance
      BY <2>1, <2>4 DEF Advance
    <2>5. CASE UNCHANGED <<throttle, now>>
      BY <2>5
    <2>6. QED
      BY <2>2, <2>3, <2>4, <2>5
         DEF Next, Serve, Present, LacksScope, LogRefusal, TakeToken, ReceiveUpload, EnterWork,
             GiveUpWaiting, EndWork, Answer, Mint, Revoke, limits
  <1>2. QED
    BY <1>1, ApiInvariant, PTL DEF Spec, LockoutStands
=============================================================================
