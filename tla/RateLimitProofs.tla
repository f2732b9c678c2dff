-------------------------- MODULE RateLimitProofs --------------------------
(***************************************************************************)
(* Proofs about RateLimit, for any addresses, names, windows and limits.   *)
(* What the queues are for is a bound on the failures within a window, and *)
(* the failures are not all in the queues: old ones have been dropped.     *)
(* The inductive invariant is that every failure still in its window has a *)
(* place of its own in its queue, which is no longer than the limit.       *)
(***************************************************************************)
EXTENDS RateLimit, SequenceTheorems, FiniteSetTheorems, WellFoundedInduction, TLAPS

Failures(t) == [ip: Ips, account: Names, at: 0..t]
FromIp(f, ip) == {i \in DOMAIN f : f[i].ip = ip}
OfAccount(f, n, c) == {i \in DOMAIN f : f[i].account = n /\ i > c}

(* Each of the failures I of f that is in its window at t has a place in q.*)
Keeps(f, q, I, window, t) ==
  \E g \in [DOMAIN q -> DOMAIN f] :
    \A i \in I : t - f[i].at <= window * Second => \E k \in DOMAIN q : g[k] = i /\ q[k] = f[i].at

IpsKept(f, by, t) ==
  /\ by \in [Ips -> Seq(0..t)]
  /\ \A ip \in Ips : Len(by[ip]) <= MaxIp /\ Keeps(f, by[ip], FromIp(f, ip), IpWindow, t)
UsersKept(f, by, c, t) ==
  /\ by \in [Names -> Seq(0..t)]
  /\ \A n \in Names : /\ Len(by[n]) <= MaxUser
                      /\ Keeps(f, by[n], OfAccount(f, n, c[n]), UserWindow, t)

IInv ==
  /\ now \in 0..MaxTime /\ tries \in 0..MaxTries
  /\ failed \in Seq(Failures(now)) /\ Len(failed) <= tries
  /\ cleared \in [Names -> 0..MaxTries]
  /\ IpsKept(failed, byIp, now)
  /\ UsersKept(failed, byUser, cleared, now)

-----------------------------------------------------------------------------
(* Numbers *)

(* A set of numbers that is not empty has a least one.                     *)
LEMMA LeastNat ==
  ASSUME NEW T \in SUBSET Nat, T # {}
  PROVE  \E m \in T : \A k \in T : m <= k
<1>1. PICK m \in T : \A k \in T : ~ (<<k, m>> \in OpToRel(<, Nat))
  BY NatLessThanWellFounded, WFMin
<1>2. \A k \in T : ~ (k < m)
  BY <1>1 DEF OpToRel
<1>. QED
  BY ONLY <1>2, T \in SUBSET Nat, m \in T

(* d whole seconds fit in a units exactly when d is no more than the       *)
(* quotient.                                                               *)
LEMMA WholeSeconds ==
  ASSUME NEW a \in Nat, NEW s \in Nat \ {0}, NEW d \in Nat
  PROVE  a \div s \in Nat /\ d * s \in Nat /\ (d * s <= a <=> d <= a \div s)
<1>. DEFINE k == a \div s
<1>1. k \in Nat /\ k * s <= a /\ a < k * s + s
  OBVIOUS
<1>2. d * s \in Nat /\ k * s \in Nat
  BY <1>1
<1>. HIDE DEF k
<1>3. CASE d <= k
  <2>1. d * s <= k * s
    BY <1>1, <1>3
  <2>. QED
    BY <1>1, <1>2, <1>3, <2>1 DEF k
<1>4. CASE k < d
  <2>1. k * s + s <= d * s
    BY <1>1, <1>4
  <2>. QED
    BY <1>1, <1>2, <1>4, <2>1 DEF k
<1>. QED
  BY <1>1, <1>3, <1>4

-----------------------------------------------------------------------------
(* One queue *)

(* _prune stops, and what it drops is too old.                             *)
LEMMA DroppedFacts ==
  ASSUME NEW q \in Seq(Nat), NEW window \in Nat, NEW t \in Nat
  PROVE  LET k == Dropped(q, window, t) IN
         /\ k \in 0..Len(q)
         /\ \A j \in 1..k : t - q[j] > window * Second
         /\ k < Len(q) => t - q[k + 1] <= window * Second
<1>. DEFINE W == window * Second
            T == {j \in 1..Len(q) : t - q[j] <= W}
            Stops(k) == /\ \A j \in 1..k : t - q[j] > W
                        /\ k < Len(q) => t - q[k + 1] <= W
<1>0. W \in Nat /\ Len(q) \in Nat /\ \A j \in 1..Len(q) : q[j] \in Nat
  BY LimitsAssumption, LenProperties, ElementOfSeq
<1>1. \E k \in 0..Len(q) : Stops(k)
  <2>. HIDE DEF W
  <2>1. CASE T = {}
    <3>1. Stops(Len(q)) /\ Len(q) \in 0..Len(q)
      BY <1>0, <2>1
    <3>. QED
      BY <3>1
  <2>2. CASE T # {}
    <3>0. T \in SUBSET Nat
      BY <1>0
    <3>1. PICK m \in T : \A k \in T : m <= k
      <4>. HIDE DEF T
      <4>. QED
        BY <2>2, <3>0, LeastNat
    <3>2. m - 1 \in 0..Len(q) /\ m \in 1..Len(q) /\ t - q[m] <= W
      BY <1>0, <3>1
    <3>3. ASSUME NEW j \in 1..(m - 1) PROVE t - q[j] > W
      <4>1. j \in 1..Len(q) /\ j < m /\ q[j] \in Nat
        BY <1>0, <3>2
      <4>2. j \notin T
        <5>. HIDE DEF T
        <5>. QED
          BY <3>0, <3>1, <4>1
      <4>. QED
        BY <1>0, <4>1, <4>2
    <3>4. Stops(m - 1)
      BY <1>0, <3>2, <3>3
    <3>. QED
      BY <3>2, <3>4
  <2>. QED
    BY <2>1, <2>2
<1>2. Dropped(q, window, t) = CHOOSE k \in 0..Len(q) : Stops(k)
  BY DEF Dropped
<1>. HIDE DEF Stops
<1>3. Dropped(q, window, t) \in 0..Len(q) /\ Stops(Dropped(q, window, t))
  BY <1>1, <1>2
<1>. QED
  BY <1>3 DEF Stops

(* What _prune leaves is the rest of the queue.                            *)
LEMMA PrunedFacts ==
  ASSUME NEW u \in Nat, NEW q \in Seq(0..u), NEW window \in Nat, NEW t \in Nat
  PROVE  LET k == Dropped(q, window, t)
             p == Pruned(q, window, t)
         IN  /\ p \in Seq(0..u) /\ k \in 0..Len(q) /\ Len(p) = Len(q) - k
             /\ \A i \in 1..Len(p) : p[i] = q[i + k]
<1>. DEFINE k == Dropped(q, window, t)
            p == Pruned(q, window, t)
<1>1. q \in Seq(Nat) /\ Len(q) \in Nat /\ \A j \in 1..Len(q) : q[j] \in 0..u
  BY LenProperties, ElementOfSeq
<1>2. k \in 0..Len(q)
  BY <1>1, DroppedFacts
<1>3. p = SubSeq(q, k + 1, Len(q))
  BY DEF Pruned
<1>. HIDE DEF k, p
<1>4. k + 1 \in Int /\ Len(q) \in Int /\ \A i \in (k + 1)..Len(q) : q[i] \in 0..u
  BY <1>1, <1>2
<1>5. /\ p \in Seq(0..u)
      /\ Len(p) = IF k + 1 <= Len(q) THEN Len(q) - (k + 1) + 1 ELSE 0
      /\ \A i \in 1..(Len(q) - (k + 1) + 1) : p[i] = q[(k + 1) + i - 1]
  BY ONLY <1>3, <1>4, SubSeqProperties
<1>6. Len(p) = Len(q) - k
  BY <1>1, <1>2, <1>5
<1>7. \A i \in 1..Len(p) : p[i] = q[i + k]
  <2>1. \A i \in 1..(Len(q) - k) : (k + 1) + i - 1 = i + k /\ i \in 1..(Len(q) - (k + 1) + 1)
    BY <1>1, <1>2
  <2>. QED
    BY <1>5, <1>6, <2>1
<1>. QED
  BY <1>2, <1>5, <1>6, <1>7 DEF k, p

(* A queue blocks when it is full and its oldest failure is in its window. *)
LEMMA ReachedWhen ==
  ASSUME NEW u \in Nat, NEW q \in Seq(0..u), NEW window \in Nat, NEW t \in Nat,
         NEW limit \in Nat \ {0}, Len(q) <= limit
  PROVE  LET p == Pruned(q, window, t) IN
         /\ Reached(p, limit) <=> (Len(q) = limit /\ t - q[1] <= window * Second)
         /\ Reached(p, limit) => Head(p) = q[1]
         /\ Len(p) <= Len(q)
<1>. DEFINE k == Dropped(q, window, t)
            p == Pruned(q, window, t)
            W == window * Second
<1>1. q \in Seq(Nat) /\ Len(q) \in Nat /\ W \in Nat
  BY LimitsAssumption, LenProperties
<1>2. /\ \A j \in 1..k : t - q[j] > W
      /\ k < Len(q) => t - q[k + 1] <= W
  BY <1>1, DroppedFacts
<1>3. /\ p \in Seq(0..u) /\ k \in 0..Len(q) /\ Len(p) = Len(q) - k
      /\ \A i \in 1..Len(p) : p[i] = q[i + k]
  BY PrunedFacts
<1>4. \A j \in 1..Len(q) : q[j] \in Nat
  BY <1>1, ElementOfSeq
<1>5. Reached(p, limit) <=> Len(q) - k >= limit
  BY <1>3 DEF Reached
<1>. HIDE DEF k, p, W
<1>6. Reached(p, limit) => k = 0 /\ Len(q) = limit /\ t - q[1] <= W
  BY <1>1, <1>2, <1>3, <1>5
<1>7. Len(q) = limit /\ t - q[1] <= W => k = 0
  <2>. SUFFICES ASSUME Len(q) = limit, t - q[1] <= W, k # 0 PROVE FALSE
    OBVIOUS
  <2>1. 1 \in 1..k /\ 1 \in 1..Len(q)
    BY <1>1, <1>3
  <2>2. t - q[1] > W /\ q[1] \in Nat
    BY <1>2, <1>4, <2>1
  <2>. QED
    BY <1>1, <2>2
<1>8. Reached(p, limit) <=> (Len(q) = limit /\ t - q[1] <= W)
  BY <1>1, <1>5, <1>6, <1>7
<1>9. Reached(p, limit) => Head(p) = q[1]
  <2>. SUFFICES ASSUME Reached(p, limit) PROVE Head(p) = q[1]
    OBVIOUS
  <2>1. k = 0 /\ Len(p) = limit /\ 1 \in 1..Len(p)
    BY <1>1, <1>3, <1>6
  <2>2. p[1] = q[1]
    BY <1>3, <2>1
  <2>3. Head(p) = p[1]
    BY <1>3, <2>1
  <2>. QED
    BY <2>2, <2>3
<1>. QED
  BY <1>1, <1>3, <1>8, <1>9 DEF k, p, W

(* A wait ends after as many whole seconds as it says, and no sooner.      *)
LEMMA WaitExact ==
  ASSUME NEW t \in Nat, NEW q \in Seq(0..t), NEW window \in Nat,
         NEW limit \in Nat \ {0}, Len(q) <= limit
  PROVE  /\ Wait(q, window, limit, t) \in Nat
         /\ \A d \in Nat :
              /\ Wait(q, window, limit, t + d * Second) \in Nat
              /\ Wait(q, window, limit, t + d * Second) = 0 <=> Wait(q, window, limit, t) <= d
         /\ Wait(q, window, limit, t) = 0 <=> ~Reached(Pruned(q, window, t), limit)
<1>. DEFINE W == window * Second
            a == W - (t - q[1])
            Full(x) == Len(q) = limit /\ x - q[1] <= W
<1>1. W \in Nat /\ Len(q) \in Nat /\ Second \in Nat \ {0}
  BY LimitsAssumption, LenProperties
<1>2. Len(q) = limit => q[1] \in 0..t
  BY <1>1, ElementOfSeq
<1>3. ASSUME NEW x \in Nat
      PROVE  /\ Wait(q, window, limit, x) = IF Full(x) THEN (W - (x - q[1])) \div Second + 1 ELSE 0
             /\ Reached(Pruned(q, window, x), limit) <=> Full(x)
  <2>1. /\ Reached(Pruned(q, window, x), limit) <=> Full(x)
        /\ Reached(Pruned(q, window, x), limit) => Head(Pruned(q, window, x)) = q[1]
    BY <1>3, ReachedWhen
  <2>. QED
    BY <2>1 DEF Wait
<1>. HIDE DEF W
<1>4. ASSUME NEW x \in Nat, x >= t
      PROVE  Wait(q, window, limit, x) \in Nat /\ (Wait(q, window, limit, x) = 0 <=> ~Full(x))
  <2>1. CASE Full(x)
    <3>1. W - (x - q[1]) \in Nat
      BY <1>1, <1>2, <1>4, <2>1
    <3>2. (W - (x - q[1])) \div Second \in Nat
      BY <1>1, <3>1, WholeSeconds
    <3>. QED
      BY <1>3, <2>1, <3>2
  <2>2. CASE ~Full(x)
    BY <1>3, <2>2
  <2>. QED
    BY <2>1, <2>2
<1>5. ASSUME NEW d \in Nat
      PROVE  /\ Wait(q, window, limit, t + d * Second) \in Nat
             /\ Wait(q, window, limit, t + d * Second) = 0 <=> Wait(q, window, limit, t) <= d
  <2>. DEFINE e == d * Second
              x == t + e
  <2>1. e \in Nat
    BY <1>1
  <2>. HIDE DEF e
  <2>2. x \in Nat /\ x >= t
    BY <2>1
  <2>3. Wait(q, window, limit, x) \in Nat /\ (Wait(q, window, limit, x) = 0 <=> ~Full(x))
    BY <1>4, <2>2
  <2>4. CASE Full(t)
    <3>1. a \in Nat
      BY <1>1, <1>2, <2>4
    <3>2. a \div Second \in Nat /\ (e <= a <=> d <= a \div Second)
      <4>. HIDE DEF a
      <4>. QED
        BY <1>1, <3>1, WholeSeconds DEF e
    <3>3. Full(x) <=> e <= a
      BY <1>1, <1>2, <2>1, <2>4
    <3>4. Wait(q, window, limit, t) = a \div Second + 1
      BY <1>3, <2>4
    <3>. HIDE DEF a
    <3>5. Full(x) <=> ~(Wait(q, window, limit, t) <= d)
      BY <3>2, <3>3, <3>4
    <3>. QED
      BY <2>3, <3>5 DEF e
  <2>5. CASE ~Full(t)
    <3>1. ~Full(x)
      BY <1>1, <1>2, <2>1, <2>5
    <3>2. Wait(q, window, limit, t) = 0
      BY <1>3, <2>5
    <3>. QED
      BY <2>3, <3>1, <3>2 DEF e
  <2>. QED
    BY <2>4, <2>5
<1>6. /\ Wait(q, window, limit, t) \in Nat
      /\ Wait(q, window, limit, t) = 0 <=> ~Full(t)
      /\ Reached(Pruned(q, window, t), limit) <=> Full(t)
  BY <1>3, <1>4
<1>. HIDE DEF Full
<1>. QED
  BY ONLY <1>5, <1>6

-----------------------------------------------------------------------------
(* The places of the failures *)

(* With no failures to keep, nothing is needed.                            *)
LEMMA KeepsNone ==
  ASSUME NEW f, NEW window, NEW t
  PROVE  Keeps(f, <<>>, {}, window, t)
<1>1. [k \in {} |-> 0] \in [DOMAIN <<>> -> DOMAIN f]
  OBVIOUS
<1>. QED
  BY <1>1 DEF Keeps

(* What _prune drops is out of its window, so it needed no place.          *)
LEMMA KeepsPruned ==
  ASSUME NEW t \in Nat, NEW f \in Seq(Failures(t)), NEW q \in Seq(0..t), NEW window \in Nat,
         NEW I \in SUBSET DOMAIN f, Keeps(f, q, I, window, t)
  PROVE  Keeps(f, Pruned(q, window, t), I, window, t)
<1>. DEFINE k == Dropped(q, window, t)
            p == Pruned(q, window, t)
            W == window * Second
<1>1. PICK g \in [DOMAIN q -> DOMAIN f] :
        \A i \in I : t - f[i].at <= W => \E j \in DOMAIN q : g[j] = i /\ q[j] = f[i].at
  BY DEF Keeps
<1>2. /\ p \in Seq(0..t) /\ k \in 0..Len(q) /\ Len(p) = Len(q) - k
      /\ \A i \in 1..Len(p) : p[i] = q[i + k]
  BY PrunedFacts
<1>3. q \in Seq(Nat) /\ Len(q) \in Nat /\ W \in Nat /\ DOMAIN q = 1..Len(q)
      /\ DOMAIN p = 1..Len(p)
  BY <1>2, LimitsAssumption, LenProperties
<1>4. \A j \in 1..k : t - q[j] > W
  BY <1>3, DroppedFacts
<1>5. \A i \in I : f[i].at \in 0..t
  <2>1. f \in [1..Len(f) -> Failures(t)] /\ DOMAIN f = 1..Len(f)
    BY LenProperties
  <2>. QED
    BY <2>1 DEF Failures
<1>. DEFINE h == [i \in DOMAIN p |-> g[i + k]]
<1>. HIDE DEF k, p, W
<1>6. h \in [DOMAIN p -> DOMAIN f]
  <2>1. \A i \in DOMAIN p : i + k \in DOMAIN q
    BY <1>2, <1>3
  <2>. QED
    BY <1>1, <2>1
<1>7. ASSUME NEW i \in I, t - f[i].at <= W
      PROVE  \E j \in DOMAIN p : h[j] = i /\ p[j] = f[i].at
  <2>1. PICK j \in DOMAIN q : g[j] = i /\ q[j] = f[i].at
    BY <1>1, <1>7
  <2>2. j \notin 1..k
    BY <1>3, <1>4, <1>5, <1>7, <2>1
  <2>3. j - k \in DOMAIN p /\ (j - k) + k = j
    BY <1>2, <1>3, <2>1, <2>2
  <2>4. h[j - k] = i /\ p[j - k] = f[i].at
    BY <1>2, <1>3, <2>1, <2>3
  <2>. QED
    BY <2>3, <2>4
<1>. QED
  BY <1>6, <1>7 DEF Keeps, p, W

(* Time passes, and failures leave their windows.                          *)
LEMMA KeepsLater ==
  ASSUME NEW t \in Nat, NEW f \in Seq(Failures(t)), NEW q, NEW window \in Nat,
         NEW I \in SUBSET DOMAIN f, Keeps(f, q, I, window, t)
  PROVE  Keeps(f, q, I, window, t + 1)
<1>. DEFINE W == window * Second
<1>1. PICK g \in [DOMAIN q -> DOMAIN f] :
        \A i \in I : t - f[i].at <= W => \E j \in DOMAIN q : g[j] = i /\ q[j] = f[i].at
  BY DEF Keeps
<1>2. \A i \in I : f[i].at \in 0..t
  <2>1. f \in [1..Len(f) -> Failures(t)] /\ DOMAIN f = 1..Len(f)
    BY LenProperties
  <2>. QED
    BY <2>1 DEF Failures
<1>3. W \in Nat
  BY LimitsAssumption
<1>. HIDE DEF W
<1>4. \A i \in I : (t + 1) - f[i].at <= W => t - f[i].at <= W
  BY <1>2, <1>3
<1>5. \A i \in I : (t + 1) - f[i].at <= W => \E j \in DOMAIN q : g[j] = i /\ q[j] = f[i].at
  BY <1>1, <1>4
<1>. QED
  BY <1>1, <1>5 DEF Keeps, W

(* A failure is added to the history: the queues that do not count it stay *)
(* as they are, and those that do give it a place at their end.            *)
LEMMA KeepsAppended ==
  ASSUME NEW t \in Nat, NEW f \in Seq(Failures(t)), NEW q \in Seq(0..t), NEW window \in Nat,
         NEW I \in SUBSET DOMAIN f, Keeps(f, q, I, window, t),
         NEW e \in Failures(t), NEW J
  PROVE  /\ J = I => Keeps(Append(f, e), q, J, window, t)
         /\ J \subseteq I \cup {Len(f) + 1} /\ e.at = t =>
              Keeps(Append(f, e), Append(q, t), J, window, t)
<1>. DEFINE W == window * Second
            f2 == Append(f, e)
            q2 == Append(q, t)
<1>1. PICK g \in [DOMAIN q -> DOMAIN f] :
        \A i \in I : t - f[i].at <= W => \E j \in DOMAIN q : g[j] = i /\ q[j] = f[i].at
  BY DEF Keeps
<1>2. /\ Len(f) \in Nat /\ DOMAIN f = 1..Len(f) /\ DOMAIN f2 = 1..(Len(f) + 1)
      /\ \A i \in 1..Len(f) : f2[i] = f[i]
      /\ f2[Len(f) + 1] = e
  <2>1. f2 \in Seq(Failures(t)) /\ Len(f2) = Len(f) + 1
    BY AppendProperties
  <2>. QED
    BY <2>1, LenProperties, AppendProperties
<1>3. /\ Len(q) \in Nat /\ DOMAIN q = 1..Len(q) /\ DOMAIN q2 = 1..(Len(q) + 1)
      /\ \A i \in 1..Len(q) : q2[i] = q[i]
      /\ q2[Len(q) + 1] = t
  <2>0. t \in 0..t
    OBVIOUS
  <2>1. q2 \in Seq(0..t) /\ Len(q2) = Len(q) + 1
    BY <2>0, AppendProperties
  <2>. QED
    BY <2>0, <2>1, LenProperties, AppendProperties
<1>. HIDE DEF W, f2, q2
<1>4. ASSUME J = I PROVE Keeps(f2, q, J, window, t)
  <2>1. g \in [DOMAIN q -> DOMAIN f2]
    BY <1>2
  <2>2. \A i \in J : f2[i] = f[i]
    BY <1>2, <1>4
  <2>3. \A i \in J : t - f2[i].at <= W => \E j \in DOMAIN q : g[j] = i /\ q[j] = f2[i].at
    BY <1>1, <1>4, <2>2
  <2>. QED
    BY <2>1, <2>3 DEF Keeps, W
<1>5. ASSUME J \subseteq I \cup {Len(f) + 1}, e.at = t PROVE Keeps(f2, q2, J, window, t)
  <2>. DEFINE h == [k \in DOMAIN q2 |-> IF k \in DOMAIN q THEN g[k] ELSE Len(f) + 1]
  <2>1. h \in [DOMAIN q2 -> DOMAIN f2]
    BY <1>1, <1>2, <1>3
  <2>2. ASSUME NEW i \in J, t - f2[i].at <= W
        PROVE  \E j \in DOMAIN q2 : h[j] = i /\ q2[j] = f2[i].at
    <3>1. CASE i \in I
      <4>1. f2[i] = f[i]
        BY <1>2, <3>1
      <4>2. PICK j \in DOMAIN q : g[j] = i /\ q[j] = f[i].at
        BY <1>1, <2>2, <3>1, <4>1
      <4>3. j \in DOMAIN q2 /\ h[j] = i /\ q2[j] = f2[i].at
        BY <1>3, <4>1, <4>2
      <4>. QED
        BY <4>3
    <3>2. CASE i = Len(f) + 1
      <4>1. Len(q) + 1 \in DOMAIN q2 /\ Len(q) + 1 \notin DOMAIN q
        BY <1>3
      <4>2. h[Len(q) + 1] = i /\ q2[Len(q) + 1] = f2[i].at
        BY <1>2, <1>3, <1>5, <3>2, <4>1
      <4>. QED
        BY <4>1, <4>2
    <3>. QED
      BY <1>5, <3>1, <3>2
  <2>. QED
    BY <2>1, <2>2 DEF Keeps, W
<1>. QED
  BY <1>4, <1>5 DEF f2, q2

(* The failures in their window are no more than their places.             *)
LEMMA KeepsBudget ==
  ASSUME NEW t \in Nat, NEW f, NEW q \in Seq(0..t), NEW window,
         NEW I, Keeps(f, q, I, window, t)
  PROVE  Cardinality({i \in I : t - f[i].at <= window * Second}) <= Len(q)
<1>. DEFINE R == {i \in I : t - f[i].at <= window * Second}
<1>1. PICK g \in [DOMAIN q -> DOMAIN f] :
        \A i \in I : t - f[i].at <= window * Second =>
          \E j \in DOMAIN q : g[j] = i /\ q[j] = f[i].at
  BY DEF Keeps
<1>2. Len(q) \in Nat /\ DOMAIN q = 1..Len(q)
  BY LenProperties
<1>3. \A i \in R : \E j \in 1..Len(q) : g[j] = i
  BY <1>1, <1>2
<1>. DEFINE P == {j \in 1..Len(q) : g[j] \in R}
            h == [j \in P |-> g[j]]
<1>4. h \in Surjection(P, R)
  <2>. HIDE DEF R
  <2>. QED
    BY <1>3 DEF Surjection
<1>. HIDE DEF R, h
<1>5. IsFiniteSet(1..Len(q)) /\ Cardinality(1..Len(q)) = Len(q)
  <2>. DEFINE n == Len(q)
  <2>1. n \in Int /\ 1 \in Int /\ n \in Nat
    BY <1>2
  <2>. HIDE DEF n
  <2>2. IsFiniteSet(1..n) /\ Cardinality(1..n) = IF 1 > n THEN 0 ELSE n - 1 + 1
    BY ONLY <2>1, FS_Interval
  <2>3. Cardinality(1..n) = n
    BY <2>1, <2>2
  <2>. QED
    BY <2>2, <2>3 DEF n
<1>6. P \in SUBSET (1..Len(q))
  OBVIOUS
<1>. HIDE DEF P
<1>7. IsFiniteSet(P) /\ Cardinality(P) <= Len(q)
  BY <1>5, <1>6, FS_Subset
<1>8. IsFiniteSet(R) /\ Cardinality(R) <= Cardinality(P)
  BY <1>4, <1>7, FS_Surjection
<1>9. Cardinality(R) \in Nat /\ Cardinality(P) \in Nat
  BY <1>7, <1>8, FS_CardinalityType
<1>. QED
  BY <1>2, <1>7, <1>8, <1>9 DEF R

-----------------------------------------------------------------------------
(* Steps *)

(* An attempt is looked at exactly when neither of its queues blocks.      *)
LEMMA RetryWhen ==
  ASSUME IInv, NEW ip \in Ips, NEW name \in Names
  PROVE  /\ RetryAfter(ip, name, now) \in Nat
         /\ RetryAfter(ip, name, now) = 0 =>
              /\ Len(Pruned(byIp[ip], IpWindow, now)) < MaxIp
              /\ Len(Pruned(byUser[Lower[name]], UserWindow, now)) < MaxUser
<1>. DEFINE q == byIp[ip]
            u == byUser[Lower[name]]
            a == Wait(q, IpWindow, MaxIp, now)
            b == Wait(u, UserWindow, MaxUser, now)
<1>1. now \in Nat /\ Lower[name] \in Names
  BY NamesAssumption DEF IInv
<1>2. q \in Seq(0..now) /\ Len(q) <= MaxIp /\ u \in Seq(0..now) /\ Len(u) <= MaxUser
  BY <1>1 DEF IInv, IpsKept, UsersKept
<1>3. a \in Nat /\ (a = 0 <=> ~Reached(Pruned(q, IpWindow, now), MaxIp))
  BY <1>1, <1>2, LimitsAssumption, WaitExact
<1>4. b \in Nat /\ (b = 0 <=> ~Reached(Pruned(u, UserWindow, now), MaxUser))
  BY <1>1, <1>2, LimitsAssumption, WaitExact
<1>5. /\ Len(Pruned(q, IpWindow, now)) \in Nat
      /\ Len(Pruned(u, UserWindow, now)) \in Nat
  <2>1. Pruned(q, IpWindow, now) \in Seq(0..now)
    BY <1>1, <1>2, LimitsAssumption, PrunedFacts
  <2>2. Pruned(u, UserWindow, now) \in Seq(0..now)
    BY <1>1, <1>2, LimitsAssumption, PrunedFacts
  <2>. QED
    BY <2>1, <2>2, LenProperties
<1>6. RetryAfter(ip, name, now) = Larger(a, b)
  BY DEF RetryAfter
<1>. HIDE DEF a, b, q, u
<1>7. RetryAfter(ip, name, now) \in Nat /\ (RetryAfter(ip, name, now) = 0 => a = 0 /\ b = 0)
  BY <1>3, <1>4, <1>6 DEF Larger
<1>8. a = 0 => Len(Pruned(q, IpWindow, now)) < MaxIp
  BY <1>3, <1>5, LimitsAssumption DEF Reached
<1>9. b = 0 => Len(Pruned(u, UserWindow, now)) < MaxUser
  BY <1>4, <1>5, LimitsAssumption DEF Reached
<1>. QED
  BY <1>7, <1>8, <1>9 DEF q, u

(* The failures looked for are some of those there were.                   *)
LEMMA FromIpType ==
  ASSUME NEW f, NEW ip PROVE FromIp(f, ip) \in SUBSET DOMAIN f
BY DEF FromIp

(* Those of an account, too.                                               *)
LEMMA OfAccountType ==
  ASSUME NEW f, NEW n, NEW c PROVE OfAccount(f, n, c) \in SUBSET DOMAIN f
BY DEF OfAccount

(* retry_after leaves the queues of the address as good as they were.      *)
LEMMA PrunedIpsKept ==
  ASSUME IInv, NEW ip \in Ips
  PROVE  /\ IpsKept(failed, PrunedIps(ip), now)
         /\ PrunedIps(ip)[ip] = Pruned(byIp[ip], IpWindow, now)
<1>0. /\ now \in Nat /\ failed \in Seq(Failures(now)) /\ byIp \in [Ips -> Seq(0..now)]
      /\ \A k \in Ips : Len(byIp[k]) <= MaxIp
                        /\ Keeps(failed, byIp[k], FromIp(failed, k), IpWindow, now)
  BY DEF IInv, IpsKept
<1>. DEFINE p == Pruned(byIp[ip], IpWindow, now)
            P == PrunedIps(ip)
<1>1. P = [byIp EXCEPT ![ip] = p]
  BY DEF PrunedIps
<1>2. p \in Seq(0..now) /\ Len(p) <= MaxIp
  <2>1. byIp[ip] \in Seq(0..now) /\ Len(byIp[ip]) \in Nat
    BY <1>0, LenProperties
  <2>2. p \in Seq(0..now) /\ Dropped(byIp[ip], IpWindow, now) \in Nat
        /\ Len(p) = Len(byIp[ip]) - Dropped(byIp[ip], IpWindow, now)
    BY <1>0, <2>1, LimitsAssumption, PrunedFacts
  <2>. QED
    BY <1>0, <2>1, <2>2, LimitsAssumption
<1>3. Keeps(failed, p, FromIp(failed, ip), IpWindow, now)
  BY <1>0, FromIpType, LimitsAssumption, KeepsPruned
<1>. HIDE DEF p, P
<1>4. P \in [Ips -> Seq(0..now)]
  BY <1>0, <1>1, <1>2
<1>5. P[ip] = p /\ \A k \in Ips : k # ip => P[k] = byIp[k]
  BY <1>0, <1>1
<1>6. \A k \in Ips : Len(P[k]) <= MaxIp
                     /\ Keeps(failed, P[k], FromIp(failed, k), IpWindow, now)
  BY <1>0, <1>2, <1>3, <1>5
<1>. QED
  BY <1>4, <1>5, <1>6 DEF IpsKept, p, P

(* And those of the account.                                               *)
LEMMA PrunedUsersKept ==
  ASSUME IInv, NEW name \in Names
  PROVE  /\ UsersKept(failed, PrunedUsers(name), cleared, now)
         /\ PrunedUsers(name)[Lower[name]] = Pruned(byUser[Lower[name]], UserWindow, now)
<1>. DEFINE m == Lower[name]
            p == Pruned(byUser[m], UserWindow, now)
            P == PrunedUsers(name)
<1>0. /\ now \in Nat /\ failed \in Seq(Failures(now)) /\ byUser \in [Names -> Seq(0..now)]
      /\ \A k \in Names :
           /\ Len(byUser[k]) <= MaxUser
           /\ Keeps(failed, byUser[k], OfAccount(failed, k, cleared[k]), UserWindow, now)
      /\ m \in Names
  BY NamesAssumption DEF IInv, UsersKept
<1>1. P = [byUser EXCEPT ![m] = p]
  BY DEF PrunedUsers
<1>. HIDE DEF m
<1>2. p \in Seq(0..now) /\ Len(p) <= MaxUser
  <2>1. byUser[m] \in Seq(0..now) /\ Len(byUser[m]) \in Nat
    BY <1>0, LenProperties
  <2>2. p \in Seq(0..now) /\ Dropped(byUser[m], UserWindow, now) \in Nat
        /\ Len(p) = Len(byUser[m]) - Dropped(byUser[m], UserWindow, now)
    BY <1>0, <2>1, LimitsAssumption, PrunedFacts
  <2>. QED
    BY <1>0, <2>1, <2>2, LimitsAssumption
<1>3. Keeps(failed, p, OfAccount(failed, m, cleared[m]), UserWindow, now)
  BY <1>0, OfAccountType, LimitsAssumption, KeepsPruned
<1>. HIDE DEF p, P
<1>4. P \in [Names -> Seq(0..now)]
  BY <1>0, <1>1, <1>2
<1>5. P[m] = p /\ \A k \in Names : k # m => P[k] = byUser[k]
  BY <1>0, <1>1
<1>6. \A k \in Names : /\ Len(P[k]) <= MaxUser
                       /\ Keeps(failed, P[k], OfAccount(failed, k, cleared[k]), UserWindow, now)
  BY <1>0, <1>2, <1>3, <1>5
<1>. QED
  BY <1>4, <1>5, <1>6 DEF UsersKept, m, p, P

(* A sequence over a set is one over a larger set.                         *)
LEMMA SeqWithin ==
  ASSUME NEW S, NEW T, S \subseteq T, NEW s \in Seq(S)
  PROVE  s \in Seq(T)
BY DEF Seq

(* Nothing is in the queues, and nothing has failed.                       *)
LEMMA EmptyKept ==
  ASSUME NEW t \in Nat, NEW c
  PROVE  /\ IpsKept(<<>>, [ip \in Ips |-> <<>>], t)
         /\ UsersKept(<<>>, [n \in Names |-> <<>>], c, t)
<1>1. <<>> \in Seq(0..t) /\ Len(<<>>) = 0 /\ DOMAIN <<>> = {}
  OBVIOUS
<1>2. \A ip \in Ips : FromIp(<<>>, ip) = {}
  BY <1>1 DEF FromIp
<1>3. \A n \in Names : OfAccount(<<>>, n, c[n]) = {}
  BY <1>1 DEF OfAccount
<1>4. IpsKept(<<>>, [ip \in Ips |-> <<>>], t)
  <2>. DEFINE by == [ip \in Ips |-> <<>>]
  <2>1. by \in [Ips -> Seq(0..t)] /\ \A ip \in Ips : by[ip] = <<>>
    BY <1>1
  <2>2. Keeps(<<>>, <<>>, {}, IpWindow, t)
    BY KeepsNone
  <2>. HIDE DEF by
  <2>3. ASSUME NEW ip \in Ips
        PROVE  Len(by[ip]) <= MaxIp /\ Keeps(<<>>, by[ip], FromIp(<<>>, ip), IpWindow, t)
    <3>1. Len(by[ip]) <= MaxIp
      BY <1>1, <2>1, LimitsAssumption
    <3>2. Keeps(<<>>, by[ip], FromIp(<<>>, ip), IpWindow, t)
      BY ONLY <1>2, <2>1, <2>2, ip \in Ips, Zenon
    <3>. QED
      BY <3>1, <3>2
  <2>4. IpsKept(<<>>, by, t)
    BY ONLY <2>1, <2>3 DEF IpsKept
  <2>. QED
    BY <2>4 DEF by
<1>5. UsersKept(<<>>, [n \in Names |-> <<>>], c, t)
  <2>. DEFINE by == [n \in Names |-> <<>>]
  <2>1. by \in [Names -> Seq(0..t)] /\ \A n \in Names : by[n] = <<>>
    BY <1>1
  <2>2. Keeps(<<>>, <<>>, {}, UserWindow, t)
    BY KeepsNone
  <2>. HIDE DEF by
  <2>3. ASSUME NEW n \in Names
        PROVE  Len(by[n]) <= MaxUser /\ Keeps(<<>>, by[n], OfAccount(<<>>, n, c[n]), UserWindow, t)
    <3>1. Len(by[n]) <= MaxUser
      BY <1>1, <2>1, LimitsAssumption
    <3>2. Keeps(<<>>, by[n], OfAccount(<<>>, n, c[n]), UserWindow, t)
      BY ONLY <1>3, <2>1, <2>2, n \in Names, Zenon
    <3>. QED
      BY <3>1, <3>2
  <2>4. UsersKept(<<>>, by, c, t)
    BY ONLY <2>1, <2>3 DEF UsersKept
  <2>. QED
    BY <2>4 DEF by
<1>. QED
  BY <1>4, <1>5

(* The service starts with nothing.                                        *)
LEMMA InitIInv == Init => IInv
<1>. SUFFICES ASSUME Init PROVE IInv
  OBVIOUS
<1>1. now \in 0..MaxTime /\ now \in Nat /\ tries \in 0..MaxTries /\ failed = <<>>
      /\ cleared \in [Names -> 0..MaxTries] /\ tries = 0
  BY BoundsAssumption DEF Init
<1>2. failed \in Seq(Failures(now)) /\ Len(failed) <= tries
  BY <1>1
<1>3. IpsKept(failed, byIp, now) /\ UsersKept(failed, byUser, cleared, now)
  BY <1>1, EmptyKept DEF Init
<1>. QED
  BY <1>1, <1>2, <1>3 DEF IInv

(* The invariant of the next state, spelt out.                             *)
LEMMA NextIInv ==
  ASSUME now' \in 0..MaxTime, tries' \in 0..MaxTries,
         failed' \in Seq(Failures(now')), Len(failed') <= tries',
         cleared' \in [Names -> 0..MaxTries],
         IpsKept(failed', byIp', now'), UsersKept(failed', byUser', cleared', now')
  PROVE  IInv'
<1>1. IpsKept(failed, byIp, now)'
  BY DEF IpsKept, Keeps, FromIp
<1>2. UsersKept(failed, byUser, cleared, now)'
  BY DEF UsersKept, Keeps, OfAccount
<1>3. (failed \in Seq(Failures(now)))'
  BY DEF Failures
<1>. QED
  BY <1>1, <1>2, <1>3 DEF IInv

(* The clock moves.                                                        *)
LEMMA TickIInv ==
  ASSUME IInv, Tick
  PROVE  IInv'
<1>0. /\ now \in Nat /\ now' = now + 1 /\ now' \in 0..MaxTime /\ 0..now \subseteq 0..(now + 1)
      /\ UNCHANGED <<byIp, byUser, tries, failed, cleared>>
  BY BoundsAssumption DEF IInv, Tick
<1>1. failed \in Seq(Failures(now)) /\ failed \in Seq(Failures(now + 1))
  <2>1. Failures(now) \subseteq Failures(now + 1)
    BY <1>0 DEF Failures
  <2>. QED
    BY <2>1, SeqWithin DEF IInv
<1>2. Seq(0..now) \subseteq Seq(0..(now + 1))
  BY <1>0, SeqWithin
<1>3. IpsKept(failed, byIp, now + 1)
  <2>1. byIp \in [Ips -> Seq(0..(now + 1))]
    BY <1>2 DEF IInv, IpsKept
  <2>2. ASSUME NEW ip \in Ips
        PROVE  Len(byIp[ip]) <= MaxIp
               /\ Keeps(failed, byIp[ip], FromIp(failed, ip), IpWindow, now + 1)
    <3>1. Len(byIp[ip]) <= MaxIp /\ Keeps(failed, byIp[ip], FromIp(failed, ip), IpWindow, now)
      BY DEF IInv, IpsKept
    <3>. QED
      BY <1>0, <1>1, <3>1, FromIpType, LimitsAssumption, KeepsLater
  <2>. QED
    BY <2>1, <2>2 DEF IpsKept
<1>4. UsersKept(failed, byUser, cleared, now + 1)
  <2>1. byUser \in [Names -> Seq(0..(now + 1))]
    BY <1>2 DEF IInv, UsersKept
  <2>2. ASSUME NEW n \in Names
        PROVE  /\ Len(byUser[n]) <= MaxUser
               /\ Keeps(failed, byUser[n], OfAccount(failed, n, cleared[n]), UserWindow, now + 1)
    <3>1. Len(byUser[n]) <= MaxUser
          /\ Keeps(failed, byUser[n], OfAccount(failed, n, cleared[n]), UserWindow, now)
      BY DEF IInv, UsersKept
    <3>. QED
      BY <1>0, <1>1, <3>1, OfAccountType, LimitsAssumption, KeepsLater
  <2>. QED
    BY <2>1, <2>2 DEF UsersKept
<1>5. IpsKept(failed', byIp', now') /\ UsersKept(failed', byUser', cleared', now')
  BY <1>0, <1>3, <1>4
<1>6. failed' \in Seq(Failures(now')) /\ Len(failed') <= tries' /\ tries' \in 0..MaxTries
      /\ cleared' \in [Names -> 0..MaxTries]
  BY <1>0, <1>1 DEF IInv
<1>. QED
  BY <1>0, <1>5, <1>6, NextIInv

(* A restart forgets the failures and the queues at once.                  *)
LEMMA RestartIInv ==
  ASSUME IInv, Restart
  PROVE  IInv'
<1>1. /\ now' \in 0..MaxTime /\ now' \in Nat /\ tries' \in 0..MaxTries
      /\ failed' = <<>> /\ byIp' = [ip \in Ips |-> <<>>] /\ byUser' = [n \in Names |-> <<>>]
  BY DEF IInv, Restart
<1>2. cleared' \in [Names -> 0..MaxTries]
  BY BoundsAssumption DEF Restart
<1>3. failed' \in Seq(Failures(now')) /\ Len(failed') <= tries'
  BY <1>1
<1>4. IpsKept(failed', byIp', now') /\ UsersKept(failed', byUser', cleared', now')
  BY <1>1, EmptyKept
<1>. QED
  BY <1>1, <1>2, <1>3, <1>4, NextIInv

(* An attempt that changes nothing but the queues it has pruned.           *)
LEMMA PrunesIInv ==
  ASSUME IInv, NEW ip \in Ips, NEW name \in Names, Blocked(ip, name) \/ Inactive(ip, name)
  PROVE  IInv'
<1>1. /\ byIp' = PrunedIps(ip) /\ byUser' = PrunedUsers(name)
      /\ UNCHANGED <<now, failed, cleared>> /\ tries' \in 0..MaxTries /\ tries' >= tries
  BY BoundsAssumption DEF IInv, Blocked, Inactive, Verifies
<1>2. IpsKept(failed', byIp', now') /\ UsersKept(failed', byUser', cleared', now')
  BY <1>1, PrunedIpsKept, PrunedUsersKept
<1>3. /\ now' \in 0..MaxTime /\ failed' \in Seq(Failures(now')) /\ Len(failed') <= tries'
      /\ cleared' \in [Names -> 0..MaxTries]
  <2>1. Len(failed) \in Nat /\ Len(failed) <= tries
    BY LenProperties DEF IInv
  <2>. QED
    BY <1>1, <2>1 DEF IInv
<1>. QED
  BY <1>1, <1>2, <1>3, NextIInv

(* A login: the account starts again, the address does not.                *)
LEMMA SucceedIInv ==
  ASSUME IInv, NEW ip \in Ips, NEW name \in Names, Succeed(ip, name)
  PROVE  IInv'
<1>. DEFINE m == Lower[name]
<1>1. /\ byIp' = PrunedIps(ip) /\ byUser' = [byUser EXCEPT ![m] = <<>>]
      /\ cleared' = [cleared EXCEPT ![m] = Len(failed)]
      /\ UNCHANGED <<now, failed>> /\ tries < MaxTries /\ tries' = tries + 1
  BY DEF Succeed, Verifies
<1>2. m \in Names /\ now \in Nat /\ Len(failed) \in Nat /\ Len(failed) <= tries
      /\ now \in 0..MaxTime /\ tries \in 0..MaxTries /\ failed \in Seq(Failures(now))
      /\ cleared \in [Names -> 0..MaxTries] /\ UsersKept(failed, byUser, cleared, now)
  BY NamesAssumption, LenProperties DEF IInv
<1>. HIDE DEF m
<1>3. tries' \in 0..MaxTries /\ Len(failed) <= tries'
  BY <1>1, <1>2, BoundsAssumption
<1>4. cleared' \in [Names -> 0..MaxTries] /\ cleared'[m] = Len(failed)
      /\ \A n \in Names : n # m => cleared'[n] = cleared[n]
  BY <1>1, <1>2, BoundsAssumption
<1>5. byUser' \in [Names -> Seq(0..now)] /\ byUser'[m] = <<>>
      /\ \A n \in Names : n # m => byUser'[n] = byUser[n]
  <2>1. <<>> \in Seq(0..now)
    OBVIOUS
  <2>2. byUser \in [Names -> Seq(0..now)]
    BY <1>2 DEF UsersKept
  <2>. QED
    BY <1>1, <1>2, <2>1, <2>2
<1>6. ASSUME NEW n \in Names
      PROVE  /\ Len(byUser'[n]) <= MaxUser
             /\ Keeps(failed, byUser'[n], OfAccount(failed, n, cleared'[n]), UserWindow, now)
  <2>1. CASE n = m
    <3>1. DOMAIN failed = 1..Len(failed)
      BY <1>2, LenProperties
    <3>2. OfAccount(failed, n, cleared'[n]) = {}
      BY <1>2, <1>4, <2>1, <3>1 DEF OfAccount
    <3>3. Keeps(failed, <<>>, {}, UserWindow, now)
      BY KeepsNone
    <3>4. Keeps(failed, byUser'[n], OfAccount(failed, n, cleared'[n]), UserWindow, now)
      BY ONLY <1>5, <2>1, <3>2, <3>3, Zenon
    <3>5. Len(byUser'[n]) = 0
      BY <1>5, <2>1
    <3>. QED
      BY <3>4, <3>5, LimitsAssumption
  <2>2. CASE n # m
    BY <1>2, <1>4, <1>5, <2>2 DEF UsersKept
  <2>. QED
    BY <2>1, <2>2
<1>7. UsersKept(failed, byUser', cleared', now)
  BY <1>5, <1>6 DEF UsersKept
<1>8. IpsKept(failed, byIp', now)
  BY <1>1, PrunedIpsKept
<1>. QED
  BY <1>1, <1>2, <1>3, <1>4, <1>7, <1>8, NextIInv

(* A failure, which both queues had room for.                              *)
LEMMA FailIInv ==
  ASSUME IInv, NEW ip \in Ips, NEW name \in Names, Fail(ip, name)
  PROVE  IInv'
<1>. DEFINE m == Lower[name]
            e == [ip |-> ip, account |-> m, at |-> now]
            P == PrunedIps(ip)
            U == PrunedUsers(name)
            f2 == Append(failed, e)
<1>1. /\ byIp' = [P EXCEPT ![ip] = Append(@, now)]
      /\ byUser' = [U EXCEPT ![m] = Append(@, now)]
      /\ failed' = f2 /\ UNCHANGED <<now, cleared>>
      /\ tries < MaxTries /\ tries' = tries + 1 /\ RetryAfter(ip, name, now) = 0
  BY DEF Fail, Verifies
<1>2. m \in Names /\ now \in Nat /\ Len(failed) \in Nat /\ Len(failed) <= tries
      /\ now \in 0..MaxTime /\ tries \in 0..MaxTries /\ failed \in Seq(Failures(now))
      /\ cleared \in [Names -> 0..MaxTries]
  BY NamesAssumption, LenProperties DEF IInv
<1>3. /\ IpsKept(failed, P, now) /\ P[ip] = Pruned(byIp[ip], IpWindow, now)
      /\ UsersKept(failed, U, cleared, now) /\ U[m] = Pruned(byUser[m], UserWindow, now)
  BY PrunedIpsKept, PrunedUsersKept
<1>4. Len(P[ip]) < MaxIp /\ Len(U[m]) < MaxUser
  BY <1>1, <1>3, RetryWhen
<1>5. e \in Failures(now) /\ e.ip = ip /\ e.account = m /\ e.at = now
  BY <1>2 DEF Failures
<1>. HIDE DEF m, e, P, U, f2
<1>6. f2 \in Seq(Failures(now)) /\ Len(f2) = Len(failed) + 1
      /\ (\A i \in 1..Len(failed) : f2[i] = failed[i]) /\ f2[Len(failed) + 1] = e
      /\ DOMAIN f2 = 1..(Len(failed) + 1) /\ DOMAIN failed = 1..Len(failed)
  <2>1. f2 \in Seq(Failures(now)) /\ Len(f2) = Len(failed) + 1
        /\ (\A i \in 1..Len(failed) : f2[i] = failed[i]) /\ f2[Len(failed) + 1] = e
    BY <1>2, <1>5, AppendProperties DEF f2
  <2>. QED
    BY <1>2, <2>1, LenProperties
<1>7. tries' \in 0..MaxTries /\ Len(f2) <= tries'
  BY <1>1, <1>2, <1>6, BoundsAssumption
<1>8. IpsKept(f2, byIp', now)
  <2>1. P \in [Ips -> Seq(0..now)] /\ now \in 0..now
    BY <1>2, <1>3 DEF IpsKept
  <2>2. Append(P[ip], now) \in Seq(0..now) /\ Len(Append(P[ip], now)) = Len(P[ip]) + 1
        /\ Len(P[ip]) \in Nat
    BY <2>1, AppendProperties, LenProperties
  <2>3. byIp' \in [Ips -> Seq(0..now)] /\ byIp'[ip] = Append(P[ip], now)
        /\ \A k \in Ips : k # ip => byIp'[k] = P[k]
    BY <1>1, <2>1, <2>2
  <2>4. ASSUME NEW k \in Ips
        PROVE  Len(byIp'[k]) <= MaxIp /\ Keeps(f2, byIp'[k], FromIp(f2, k), IpWindow, now)
    <3>0. /\ Keeps(failed, P[k], FromIp(failed, k), IpWindow, now) /\ P[k] \in Seq(0..now)
          /\ Len(P[k]) <= MaxIp /\ FromIp(failed, k) \in SUBSET DOMAIN failed /\ IpWindow \in Nat
      BY <1>3, <2>1, FromIpType, LimitsAssumption DEF IpsKept
    <3>1. CASE k = ip
      <4>1. FromIp(f2, k) \subseteq FromIp(failed, k) \cup {Len(failed) + 1}
        BY <1>2, <1>6 DEF FromIp
      <4>2. Keeps(f2, Append(P[k], now), FromIp(f2, k), IpWindow, now)
        BY <1>2, <1>5, <3>0, <4>1, KeepsAppended DEF f2
      <4>3. byIp'[k] = Append(P[k], now)
        BY <2>3, <3>1
      <4>4. Len(byIp'[k]) <= MaxIp
        BY <1>4, <2>2, <3>1, <4>3, LimitsAssumption
      <4>. QED
        BY ONLY <4>2, <4>3, <4>4
    <3>2. CASE k # ip
      <4>1. FromIp(f2, k) = FromIp(failed, k)
        BY <1>2, <1>5, <1>6, <3>2 DEF FromIp
      <4>2. Keeps(f2, P[k], FromIp(f2, k), IpWindow, now)
        BY <1>2, <1>5, <3>0, <4>1, KeepsAppended DEF f2
      <4>. QED
        BY <2>3, <3>0, <3>2, <4>2
    <3>. QED
      BY <3>1, <3>2
  <2>. QED
    BY <2>3, <2>4 DEF IpsKept
<1>9. UsersKept(f2, byUser', cleared, now)
  <2>1. U \in [Names -> Seq(0..now)] /\ now \in 0..now
    BY <1>2, <1>3 DEF UsersKept
  <2>2. Append(U[m], now) \in Seq(0..now) /\ Len(Append(U[m], now)) = Len(U[m]) + 1
        /\ Len(U[m]) \in Nat
    BY <1>2, <2>1, AppendProperties, LenProperties
  <2>3. byUser' \in [Names -> Seq(0..now)] /\ byUser'[m] = Append(U[m], now)
        /\ \A k \in Names : k # m => byUser'[k] = U[k]
    BY <1>1, <1>2, <2>1, <2>2
  <2>4. ASSUME NEW k \in Names
        PROVE  /\ Len(byUser'[k]) <= MaxUser
               /\ Keeps(f2, byUser'[k], OfAccount(f2, k, cleared[k]), UserWindow, now)
    <3>0. /\ Keeps(failed, U[k], OfAccount(failed, k, cleared[k]), UserWindow, now)
          /\ U[k] \in Seq(0..now) /\ Len(U[k]) <= MaxUser
          /\ OfAccount(failed, k, cleared[k]) \in SUBSET DOMAIN failed /\ UserWindow \in Nat
      BY <1>3, <2>1, OfAccountType, LimitsAssumption DEF UsersKept
    <3>1. CASE k = m
      <4>1. OfAccount(f2, k, cleared[k])
              \subseteq OfAccount(failed, k, cleared[k]) \cup {Len(failed) + 1}
        BY <1>2, <1>6 DEF OfAccount
      <4>2. Keeps(f2, Append(U[k], now), OfAccount(f2, k, cleared[k]), UserWindow, now)
        BY <1>2, <1>5, <3>0, <4>1, KeepsAppended DEF f2
      <4>3. byUser'[k] = Append(U[k], now)
        BY <2>3, <3>1
      <4>4. Len(byUser'[k]) <= MaxUser
        BY <1>4, <2>2, <3>1, <4>3, LimitsAssumption
      <4>. QED
        BY ONLY <4>2, <4>3, <4>4
    <3>2. CASE k # m
      <4>1. OfAccount(f2, k, cleared[k]) = OfAccount(failed, k, cleared[k])
        BY <1>2, <1>5, <1>6, <3>2 DEF OfAccount
      <4>2. Keeps(f2, U[k], OfAccount(f2, k, cleared[k]), UserWindow, now)
        BY <1>2, <1>5, <3>0, <4>1, KeepsAppended DEF f2
      <4>. QED
        BY <2>3, <3>0, <3>2, <4>2
    <3>. QED
      BY <3>1, <3>2
  <2>. QED
    BY <2>3, <2>4 DEF UsersKept
<1>. QED
  BY <1>1, <1>2, <1>6, <1>7, <1>8, <1>9, NextIInv

(* Every step keeps the invariant.                                         *)
LEMMA StepIInv == IInv /\ [Next]_vars => IInv'
<1>. SUFFICES ASSUME IInv, [Next]_vars PROVE IInv'
  OBVIOUS
<1>1. ASSUME NEW ip \in Ips, NEW name \in Names,
             Blocked(ip, name) \/ Fail(ip, name) \/ Succeed(ip, name) \/ Inactive(ip, name)
      PROVE  IInv'
  BY <1>1, PrunesIInv, FailIInv, SucceedIInv
<1>2. CASE Tick
  BY <1>2, TickIInv
<1>3. CASE Restart
  BY <1>3, RestartIInv
<1>4. CASE UNCHANGED vars
  <2>1. UNCHANGED <<now, byIp, byUser, tries, failed, cleared>>
    BY <1>4 DEF vars
  <2>2. /\ now' \in 0..MaxTime /\ tries' \in 0..MaxTries
        /\ failed' \in Seq(Failures(now')) /\ Len(failed') <= tries'
        /\ cleared' \in [Names -> 0..MaxTries]
        /\ IpsKept(failed', byIp', now') /\ UsersKept(failed', byUser', cleared', now')
    BY <2>1 DEF IInv
  <2>. QED
    BY <2>2, NextIInv
<1>. QED
  BY <1>1, <1>2, <1>3, <1>4 DEF Next

-----------------------------------------------------------------------------
(* Theorems *)

(* At all times every failure still in its window has a place of its own   *)
(* in the queue of its address and, unless its account has logged in       *)
(* since, in that of its account (app/ratelimit.py).                       *)
THEOREM Invariant == Spec => []IInv
<1>1. Init => IInv
  BY InitIInv
<1>2. IInv /\ [Next]_vars => IInv'
  BY StepIInv
<1>. QED
  BY <1>1, <1>2, PTL DEF Spec

(* The queues hold times in the past and are never longer than their       *)
(* limits (retry_after, record_failure).                                   *)
THEOREM TypeCorrect == Spec => []TypeOK
<1>1. IInv => TypeOK
  BY DEF IInv, IpsKept, UsersKept, TypeOK, Failures
<1>. QED
  BY <1>1, Invariant, PTL

(* Within any window an address has no more than its limit of passwords    *)
(* refused, whatever logins succeed in between (record_success).           *)
THEOREM AddressBudget == Spec => []IpBudget
<1>1. IInv => IpBudget
  <2>. SUFFICES ASSUME IInv, NEW ip \in Ips
                PROVE  Cardinality({i \in DOMAIN failed :
                                      failed[i].ip = ip /\ Recent(i, IpWindow)}) <= MaxIp
    BY DEF IpBudget
  <2>. DEFINE q == byIp[ip]
              I == FromIp(failed, ip)
              R == {i \in I : now - failed[i].at <= IpWindow * Second}
  <2>1. /\ now \in Nat /\ q \in Seq(0..now) /\ Len(q) <= MaxIp /\ Len(q) \in Nat
        /\ Keeps(failed, q, I, IpWindow, now)
    BY LenProperties DEF IInv, IpsKept
  <2>2. Cardinality(R) <= Len(q)
    BY <2>1, KeepsBudget
  <2>3. {i \in DOMAIN failed : failed[i].ip = ip /\ Recent(i, IpWindow)} = R
    BY DEF FromIp, Recent
  <2>4. Cardinality(R) \in Nat
    <3>1. IsFiniteSet(DOMAIN failed)
      <4>1. DOMAIN failed = 1..Len(failed) /\ Len(failed) \in Nat
        BY LenProperties DEF IInv
      <4>. QED
        BY <4>1, FS_Interval
    <3>2. R \in SUBSET DOMAIN failed
      BY FromIpType
    <3>. HIDE DEF R
    <3>. QED
      BY <3>1, <3>2, FS_Subset, FS_CardinalityType
  <2>. HIDE DEF R, q
  <2>5. Cardinality(R) <= MaxIp
    BY <2>1, <2>2, <2>4, LimitsAssumption
  <2>. QED
    BY ONLY <2>3, <2>5, Zenon
<1>. QED
  BY <1>1, Invariant, PTL

(* Within any window an account has no more than its limit of passwords    *)
(* refused since its last login, from any addresses and however its name   *)
(* is capitalised (retry_after, record_failure).                           *)
THEOREM AccountKept == Spec => []AccountBudget
<1>1. IInv => AccountBudget
  <2>. SUFFICES ASSUME IInv, NEW n \in Names
                PROVE  Cardinality({i \in DOMAIN failed : /\ failed[i].account = n
                                                          /\ i > cleared[n]
                                                          /\ Recent(i, UserWindow)}) <= MaxUser
    BY DEF AccountBudget
  <2>. DEFINE q == byUser[n]
              I == OfAccount(failed, n, cleared[n])
              R == {i \in I : now - failed[i].at <= UserWindow * Second}
  <2>1. /\ now \in Nat /\ q \in Seq(0..now) /\ Len(q) <= MaxUser /\ Len(q) \in Nat
        /\ Keeps(failed, q, I, UserWindow, now)
    BY LenProperties DEF IInv, UsersKept
  <2>2. Cardinality(R) <= Len(q)
    BY <2>1, KeepsBudget
  <2>3. {i \in DOMAIN failed : failed[i].account = n /\ i > cleared[n] /\ Recent(i, UserWindow)} = R
    BY DEF OfAccount, Recent
  <2>4. Cardinality(R) \in Nat
    <3>1. IsFiniteSet(DOMAIN failed)
      <4>1. DOMAIN failed = 1..Len(failed) /\ Len(failed) \in Nat
        BY LenProperties DEF IInv
      <4>. QED
        BY <4>1, FS_Interval
    <3>2. R \in SUBSET DOMAIN failed
      BY OfAccountType
    <3>. HIDE DEF R
    <3>. QED
      BY <3>1, <3>2, FS_Subset, FS_CardinalityType
  <2>. HIDE DEF R, q
  <2>5. Cardinality(R) <= MaxUser
    BY <2>1, <2>2, <2>4, LimitsAssumption
  <2>. QED
    BY ONLY <2>3, <2>5, Zenon
<1>. QED
  BY <1>1, Invariant, PTL

(* A client that waits as long as Retry-After says is let in, and a second *)
(* less is not enough (retry_after, login).                                *)
THEOREM RetryExact == Spec => []RetryAfterExact
<1>1. IInv => RetryAfterExact
  <2>. SUFFICES ASSUME IInv, NEW ip \in Ips, NEW name \in Names,
                       RetryAfter(ip, name, now) # 0
                PROVE  LET wait == RetryAfter(ip, name, now)
                       IN  /\ RetryAfter(ip, name, now + wait * Second) = 0
                           /\ RetryAfter(ip, name, now + (wait - 1) * Second) # 0
    BY DEF RetryAfterExact
  <2>. DEFINE q == byIp[ip]
              u == byUser[Lower[name]]
              A(t) == Wait(q, IpWindow, MaxIp, t)
              B(t) == Wait(u, UserWindow, MaxUser, t)
              wait == RetryAfter(ip, name, now)
  <2>1. now \in Nat /\ Lower[name] \in Names
    BY NamesAssumption DEF IInv
  <2>2. q \in Seq(0..now) /\ Len(q) <= MaxIp /\ u \in Seq(0..now) /\ Len(u) <= MaxUser
    BY <2>1 DEF IInv, IpsKept, UsersKept
  <2>3. A(now) \in Nat /\ \A d \in Nat : A(now + d * Second) \in Nat
                                          /\ (A(now + d * Second) = 0 <=> A(now) <= d)
    BY <2>1, <2>2, LimitsAssumption, WaitExact
  <2>4. B(now) \in Nat /\ \A d \in Nat : B(now + d * Second) \in Nat
                                          /\ (B(now + d * Second) = 0 <=> B(now) <= d)
    BY <2>1, <2>2, LimitsAssumption, WaitExact
  <2>5. \A t : RetryAfter(ip, name, t) = Larger(A(t), B(t))
    BY DEF RetryAfter
  <2>6. wait = Larger(A(now), B(now)) /\ wait # 0
    BY <2>5
  <2>. HIDE DEF q, u, A, B, wait
  <2>7. wait \in Nat \ {0} /\ A(now) <= wait /\ B(now) <= wait
        /\ ~(A(now) <= wait - 1 /\ B(now) <= wait - 1)
    BY <2>3, <2>4, <2>6 DEF Larger
  <2>8. ASSUME NEW d \in Nat
        PROVE  RetryAfter(ip, name, now + d * Second) = 0 <=> A(now) <= d /\ B(now) <= d
    <3>. DEFINE t == now + d * Second
    <3>1. /\ A(t) \in Nat /\ (A(t) = 0 <=> A(now) <= d)
          /\ B(t) \in Nat /\ (B(t) = 0 <=> B(now) <= d)
      BY <2>3, <2>4
    <3>2. RetryAfter(ip, name, t) = Larger(A(t), B(t))
      BY <2>5
    <3>. HIDE DEF t
    <3>3. RetryAfter(ip, name, t) = 0 <=> A(now) <= d /\ B(now) <= d
      BY <3>1, <3>2 DEF Larger
    <3>. QED
      BY <3>3 DEF t
  <2>9. wait - 1 \in Nat /\ wait \in Nat
    BY <2>7
  <2>10. RetryAfter(ip, name, now + wait * Second) = 0
    BY ONLY <2>7, <2>8, <2>9
  <2>11. RetryAfter(ip, name, now + (wait - 1) * Second) # 0
    BY ONLY <2>7, <2>8, <2>9
  <2>. QED
    BY <2>10, <2>11 DEF wait
<1>. QED
  BY <1>1, Invariant, PTL
=============================================================================
