---------------------------- MODULE ExchangeProofs ----------------------------
(***************************************************************************)
(* What CcxtBroker and BaseBroker ask of the exchange, for any callers,    *)
(* grain of time, capacity, operations, attempts, breakers, prices and     *)
(* markets: no more requests than RequestsBounded allows, and no other     *)
(* orders than asked.                                                      *)
(*                                                                         *)
(* A request is paid for with a token or with a sleep.  Tokens are earned  *)
(* by time.  How often a caller has slept is bounded by the earliest time  *)
(* it can have woken for the n-th time: with CcxtBroker the wakes of a     *)
(* caller are a unit apart, because somebody must have taken a token       *)
(* between two of its sleeps; with BaseBroker every other wake is, because *)
(* a wake leaves the bucket empty as of the time before the sleep.         *)
(*                                                                         *)
(* The quotes, for any readers, symbols, times to live and size of a       *)
(* store: a quote is at most Flight old when it arrives, and each cache it *)
(* is in adds the time it keeps it.                                        *)
(***************************************************************************)
EXTENDS Exchange, Quotes, FiniteSetTheorems, SequenceTheorems, TLAPS

(* A record of a call; what is in it matters little.                       *)
IsCall(r) ==
  r = [op |-> r.op, stage |-> r.stage, plan |-> r.plan, tries |-> r.tries,
       wake |-> r.wake, price |-> r.price, amount |-> r.amount]

Buckets == [tokens : Nat, last : Nat]

Typed ==
  /\ now \in Nat /\ sent \in Nat /\ broker \in {"base", "ccxt"}
  /\ bucket \in Buckets /\ bucket.last <= now
  /\ call = [c \in Callers |-> call[c]]
  /\ \A c \in Callers : IsCall(call[c])

(* What a bucket holds at time 0 of those that hold as much as it ever     *)
(* after: it never grows.                                                  *)
Worth(b) == b.tokens - b.last

(* The earliest time of the n-th wake of one caller.                       *)
EarliestBase(n) == (n \div 2) * Unit + (n % 2)
EarliestCcxt(n) == IF n = 0 THEN 0 ELSE (n - 1) * Unit + 1

(* BaseBroker: a caller r that woke n times by time t.                     *)
SinceBase(r, b, t, n) ==
  /\ EarliestBase(n) <= t
  /\ n > 0 => Worth(b) <= -EarliestBase(n - 1)
  /\ r.stage = "sleep" => /\ r.wake \in Int /\ EarliestBase(n + 1) <= r.wake
                          /\ EarliestBase(n) <= b.last

(* CcxtBroker: a sleep until w was begun, and if the bucket has not been   *)
(* touched since, it will hold a token at w.                               *)
Planned(b, w) ==
  /\ Worth(b) <= Unit - w
  /\ Worth(b) <= -w \/ Worth(b) = Unit - w \/ b.tokens >= Unit \/ Capacity = 0

SinceCcxt(r, b, t, n) ==
  /\ n > 0 => \E w \in Nat : EarliestCcxt(n) <= w /\ w <= t /\ Planned(b, w)
  /\ r.stage = "sleep" => r.wake \in Nat /\ EarliestCcxt(n + 1) <= r.wake /\ Planned(b, r.wake)

Since(r, b, t, n) ==
  /\ broker = "base" => SinceBase(r, b, t, n)
  /\ broker = "ccxt" => SinceCcxt(r, b, t, n)

Sleeps(N) == {p \in Callers \X (Nat \ {0}) : p[2] <= N[p[1]]}

(* T requests were paid for with a token, the others with a sleep.         *)
PaidBy(N, T) ==
  /\ IsFiniteSet(Sleeps(N)) /\ sent <= T + Cardinality(Sleeps(N))
  /\ Unit * T + Worth(bucket) <= Capacity * Unit

IInv ==
  /\ Typed
  /\ \E N \in [Callers -> Nat], T \in Nat :
       PaidBy(N, T) /\ \A c \in Callers : Since(call[c], bucket, now, N[c])

-----------------------------------------------------------------------------
(* Arithmetic.                                                             *)
LEMMA EarliestOfBase ==
  /\ EarliestBase(0) = 0 /\ EarliestBase(1) = 1
  /\ \A n \in Nat : EarliestBase(n) \in Nat /\ EarliestBase(n + 2) = EarliestBase(n) + Unit
<1>1. EarliestBase(0) = 0 /\ EarliestBase(1) = 1
  BY BucketOK DEF EarliestBase
<1>2. ASSUME NEW n \in Nat
      PROVE  EarliestBase(n) \in Nat /\ EarliestBase(n + 2) = EarliestBase(n) + Unit
  <2>. DEFINE h == n \div 2
  <2>1. h \in Nat /\ n % 2 \in {0, 1} /\ (n + 2) \div 2 = h + 1 /\ (n + 2) % 2 = n % 2
    OBVIOUS
  <2>. HIDE DEF h
  <2>2. h * Unit \in Nat /\ (h + 1) * Unit = h * Unit + Unit
    BY <2>1, BucketOK
  <2>3. EarliestBase(n) = h * Unit + (n % 2) /\ EarliestBase(n + 2) = (h + 1) * Unit + (n % 2)
    BY <2>1 DEF EarliestBase, h
  <2>. QED
    BY <2>1, <2>2, <2>3, BucketOK
<1>. QED
  BY <1>1, <1>2

LEMMA EarliestOfCcxt ==
  /\ EarliestCcxt(0) = 0 /\ EarliestCcxt(1) = 1
  /\ \A n \in Nat : EarliestCcxt(n) \in Nat
  /\ \A n \in Nat \ {0} : EarliestCcxt(n + 1) = EarliestCcxt(n) + Unit
<1>1. EarliestCcxt(0) = 0 /\ EarliestCcxt(1) = 1
  BY BucketOK DEF EarliestCcxt
<1>2. ASSUME NEW n \in Nat \ {0}
      PROVE  EarliestCcxt(n) \in Nat /\ EarliestCcxt(n + 1) = EarliestCcxt(n) + Unit
  <2>. DEFINE h == n - 1
  <2>1. h \in Nat /\ n + 1 - 1 = h + 1
    OBVIOUS
  <2>. HIDE DEF h
  <2>2. h * Unit \in Nat /\ (h + 1) * Unit = h * Unit + Unit
    BY <2>1, BucketOK
  <2>3. EarliestCcxt(n) = h * Unit + 1 /\ EarliestCcxt(n + 1) = (h + 1) * Unit + 1
    BY <2>1 DEF EarliestCcxt, h
  <2>. QED
    BY <2>2, <2>3, BucketOK
<1>. QED
  BY <1>1, <1>2

LEMMA Divides ==
  ASSUME NEW a \in Int, NEW b \in Int, Unit * a <= Unit * b
  PROVE  a <= b
<1>1. SUFFICES ASSUME a >= b + 1 PROVE FALSE
  OBVIOUS
<1>. DEFINE d == a - b - 1
<1>2. d \in Nat /\ a = b + 1 + d
  BY <1>1
<1>. HIDE DEF d
<1>3. Unit * d \in Nat /\ Unit * a = Unit * b + Unit + Unit * d
  BY <1>2, BucketOK
<1>4. Unit * b \in Int
  BY BucketOK
<1>. QED
  BY <1>3, <1>4, BucketOK

LEMMA BegunUnits ==
  ASSUME now \in Nat
  PROVE  Begun \in Nat /\ now <= Unit * Begun
<1>. DEFINE q == (now + Unit - 1) \div Unit
<1>1. now + Unit - 1 \in Nat /\ Unit \in Nat \ {0}
  BY BucketOK
<1>. DEFINE m == now + Unit - 1
            r == m % Unit
<1>2. q \in Nat /\ Unit * q + r = m /\ r \in 0..(Unit - 1)
  <2>1. m \in Nat /\ Unit \in Nat \ {0} /\ q = m \div Unit
    BY <1>1
  <2>. HIDE DEF m, q
  <2>. QED
    BY <2>1
<1>. HIDE DEF q, r
<1>3. Unit * q \in Nat
  BY <1>1, <1>2
<1>4. now <= Unit * q
  BY <1>1, <1>2, <1>3
<1>. QED
  BY <1>2, <1>4 DEF Begun, q

\* A caller that can have woken n times was given time for them.
LEMMA WakesBounded ==
  ASSUME now \in Nat, NEW n \in Nat
  PROVE  /\ EarliestBase(n) <= now => n <= 2 * Begun
         /\ EarliestCcxt(n) <= now => n <= Begun
<1>1. Begun \in Nat /\ now <= Unit * Begun /\ Unit * Begun \in Nat
  BY BegunUnits, BucketOK
<1>2. ASSUME EarliestBase(n) <= now PROVE n <= 2 * Begun
  <2>. DEFINE h == n \div 2
  <2>1. h \in Nat /\ (n = 2 * h \/ (n = 2 * h + 1 /\ n % 2 = 1)) /\ n % 2 \in {0, 1}
    OBVIOUS
  <2>2. h * Unit + (n % 2) <= now
    BY <1>2 DEF EarliestBase
  <2>. HIDE DEF h
  <2>3. h * Unit = Unit * h /\ Unit * h \in Nat /\ Unit * (h + 1) = Unit * h + Unit
        /\ Unit * (Begun + 1) = Unit * Begun + Unit
    BY <1>1, <2>1, BucketOK
  <2>. DEFINE k == Unit * h
              b == Unit * Begun
  <2>8. k \in Nat /\ b \in Nat /\ now <= b /\ k + (n % 2) <= now
    BY <1>1, <2>2, <2>3
  <2>. HIDE DEF k, b
  <2>4. k <= b
    BY <2>1, <2>8
  <2>5. h <= Begun
    BY <1>1, <2>1, <2>4, Divides DEF k, b
  <2>6. CASE n = 2 * h
    BY <1>1, <2>1, <2>5, <2>6
  <2>7. CASE n = 2 * h + 1 /\ n % 2 = 1
    <3>1. k + 1 <= b
      BY <2>1, <2>8, <2>7
    <3>2. h # Begun
      BY <3>1, <2>8 DEF k, b
    <3>. QED
      BY <3>2, <1>1, <2>1, <2>5, <2>7
  <2>. QED
    BY <2>1, <2>6, <2>7
<1>3. ASSUME EarliestCcxt(n) <= now, n # 0 PROVE n <= Begun
  <2>. DEFINE h == n - 1
  <2>1. h \in Nat /\ n = h + 1
    BY <1>3
  <2>2. h * Unit + 1 <= now
    BY <1>3 DEF EarliestCcxt
  <2>. HIDE DEF h
  <2>3. h * Unit = Unit * h /\ Unit * h \in Nat
    BY <2>1, BucketOK
  <2>4. Unit * h <= Unit * Begun /\ Unit * h # Unit * Begun
    BY <1>1, <2>2, <2>3
  <2>5. h <= Begun
    BY <1>1, <2>1, <2>4, Divides
  <2>. QED
    BY <1>1, <2>1, <2>4, <2>5
<1>. QED
  BY <1>1, <1>2, <1>3

-----------------------------------------------------------------------------
(* Counting.                                                               *)
LEMMA SleepsFew ==
  ASSUME NEW N \in [Callers -> Nat], NEW n \in Nat, \A c \in Callers : N[c] <= n
  PROVE  /\ IsFiniteSet(Sleeps(N)) /\ Cardinality(Sleeps(N)) \in Nat
         /\ Cardinality(Sleeps(N)) <= Cardinality(Callers) * n
<1>1. IsFiniteSet(1..n) /\ Cardinality(1..n) = n
  BY FS_Interval
<1>2. /\ IsFiniteSet(Callers \X (1..n))
      /\ Cardinality(Callers \X (1..n)) = Cardinality(Callers) * n
  BY <1>1, FS_Product, BucketOK
<1>3. Sleeps(N) \subseteq Callers \X (1..n)
  <2>. SUFFICES ASSUME NEW p \in Sleeps(N) PROVE p \in Callers \X (1..n)
    OBVIOUS
  <2>1. p \in Callers \X (Nat \ {0}) /\ p[2] <= N[p[1]]
    BY DEF Sleeps
  <2>2. p = <<p[1], p[2]>> /\ p[1] \in Callers /\ p[2] \in Nat \ {0}
    BY <2>1
  <2>3. p[2] \in 1..n
    BY <2>1, <2>2
  <2>. QED
    BY <2>2, <2>3
<1>. QED
  BY <1>2, <1>3, FS_Subset, FS_CardinalityType

LEMMA OneMoreSleep ==
  ASSUME NEW N \in [Callers -> Nat], NEW c \in Callers, IsFiniteSet(Sleeps(N)),
         NEW V \in [Callers -> Nat], V[c] = N[c] + 1, \A d \in Callers \ {c} : V[d] = N[d]
  PROVE  /\ IsFiniteSet(Sleeps(V)) /\ Cardinality(Sleeps(N)) \in Nat
         /\ Cardinality(Sleeps(V)) = Cardinality(Sleeps(N)) + 1
<1>. DEFINE p == <<c, N[c] + 1>>
<1>2. p \notin Sleeps(N)
  BY DEF Sleeps
<1>3. Sleeps(V) = Sleeps(N) \cup {p}
  <2>1. ASSUME NEW x \in Callers, NEW i \in Nat \ {0}
        PROVE  i <= V[x] <=> (i <= N[x] \/ <<x, i>> = p)
    OBVIOUS
  <2>2. \A q \in Callers \X (Nat \ {0}) : q[2] <= V[q[1]] <=> (q[2] <= N[q[1]] \/ q = p)
    BY <2>1
  <2>3. p \in Callers \X (Nat \ {0})
    OBVIOUS
  <2>. QED
    BY <2>2, <2>3 DEF Sleeps
<1>4. Cardinality(Sleeps(N)) \in Nat
  BY FS_CardinalityType
<1>. HIDE DEF p
<1>5. IsFiniteSet(Sleeps(V)) /\ Cardinality(Sleeps(V)) = Cardinality(Sleeps(N)) + 1
  <2>. DEFINE S == Sleeps(N)
  <2>1. IsFiniteSet(S) /\ p \notin S /\ Sleeps(V) = S \cup {p}
    BY <1>2, <1>3
  <2>. HIDE DEF S
  <2>2. IsFiniteSet(S \cup {p}) /\ Cardinality(S \cup {p}) = Cardinality(S) + 1
    BY <2>1, FS_AddElement
  <2>. QED
    BY <2>1, <2>2 DEF S
<1>. QED
  BY <1>4, <1>5

(* Records stay records.                                                   *)
LEMMA CallChanged ==
  ASSUME NEW r, IsCall(r), NEW x
  PROVE  /\ IsCall([r EXCEPT !.stage = x]) /\ [r EXCEPT !.stage = x].stage = x
         /\ IsCall([r EXCEPT !.plan = x]) /\ [r EXCEPT !.plan = x].stage = r.stage
         /\ IsCall([r EXCEPT !.tries = x]) /\ [r EXCEPT !.tries = x].stage = r.stage
         /\ IsCall([r EXCEPT !.price = x]) /\ [r EXCEPT !.price = x].stage = r.stage
         /\ IsCall([r EXCEPT !.amount = x]) /\ [r EXCEPT !.amount = x].stage = r.stage
         /\ IsCall([r EXCEPT !.op = x]) /\ [r EXCEPT !.op = x].stage = r.stage
         /\ IsCall([r EXCEPT !.wake = x]) /\ [r EXCEPT !.wake = x].stage = r.stage
            /\ [r EXCEPT !.wake = x].wake = x
BY DEF IsCall

LEMMA CallChangedTwice ==
  ASSUME NEW r, IsCall(r), NEW x, NEW y
  PROVE  /\ IsCall([r EXCEPT !.price = x, !.amount = y])
         /\ IsCall([r EXCEPT !.stage = x, !.plan = y])
         /\ [r EXCEPT !.stage = x, !.plan = y].stage = x
<1>1. [r EXCEPT !.price = x, !.amount = y] = [[r EXCEPT !.price = x] EXCEPT !.amount = y]
  OBVIOUS
<1>2. [r EXCEPT !.stage = x, !.plan = y] = [[r EXCEPT !.stage = x] EXCEPT !.plan = y]
  OBVIOUS
<1>3. IsCall([r EXCEPT !.price = x]) /\ IsCall([r EXCEPT !.stage = x]) /\ [r EXCEPT !.stage = x].stage = x
  BY CallChanged
<1>4. IsCall([[r EXCEPT !.price = x] EXCEPT !.amount = y])
  BY <1>3, CallChanged
<1>5. /\ IsCall([[r EXCEPT !.stage = x] EXCEPT !.plan = y])
      /\ [[r EXCEPT !.stage = x] EXCEPT !.plan = y].stage = x
  BY <1>3, CallChanged
<1>. QED
  BY <1>1, <1>2, <1>4, <1>5

\* What a call begins with, in CcxtBroker and in BaseBroker.
Opened(op, stage, plan) == [Idle EXCEPT !.op = op, !.stage = stage, !.plan = plan]
OpenedBase(op, plan, stage) == [Idle EXCEPT !.op = op, !.plan = plan, !.stage = stage]

LEMMA CallBegun ==
  ASSUME NEW op, NEW stage, NEW plan
  PROVE  /\ IsCall(Opened(op, stage, plan)) /\ Opened(op, stage, plan).stage = stage
         /\ IsCall(OpenedBase(op, plan, stage)) /\ OpenedBase(op, plan, stage).stage = stage
<1>. DEFINE named == [Idle EXCEPT !.op = op]
<1>1. IsCall(Idle)
  BY DEF IsCall, Idle
<1>2. IsCall(named)
  BY <1>1, CallChanged
<1>3. /\ Opened(op, stage, plan) = [named EXCEPT !.stage = stage, !.plan = plan]
      /\ OpenedBase(op, plan, stage) = [[named EXCEPT !.plan = plan] EXCEPT !.stage = stage]
  BY DEF Opened, OpenedBase
<1>4. IsCall([named EXCEPT !.plan = plan])
  BY <1>2, CallChanged
<1>5. /\ IsCall([named EXCEPT !.stage = stage, !.plan = plan])
      /\ [named EXCEPT !.stage = stage, !.plan = plan].stage = stage
  BY <1>2, CallChangedTwice
<1>6. /\ IsCall([[named EXCEPT !.plan = plan] EXCEPT !.stage = stage])
      /\ [[named EXCEPT !.plan = plan] EXCEPT !.stage = stage].stage = stage
  BY <1>4, CallChanged
<1>. QED
  BY <1>3, <1>5, <1>6

LEMMA StageChanged ==
  ASSUME Typed, NEW c \in Callers, NEW s
  PROVE  IsCall(StageOf(c, s)) /\ StageOf(c, s).stage = s
<1>1. IsCall(call[c])
  BY DEF Typed
<1>. QED
  BY <1>1, CallChanged DEF StageOf

\* After a failure a caller pauses or is through; it does not ask for a token.
LEMMA FailureChanged ==
  ASSUME Typed, NEW c \in Callers
  PROVE  IsCall(AfterFailure(c)) /\ AfterFailure(c).stage # "sleep"
<1>1. CASE AfterFailure(c) = StageOf(c, "failed")
  BY <1>1, StageChanged
<1>2. CASE AfterFailure(c) = [StageOf(c, "backoff") EXCEPT !.tries = @ + 1, !.wake = now + Backoff * 2 ^ call[c].tries]
  <2>1. IsCall(StageOf(c, "backoff")) /\ StageOf(c, "backoff").stage = "backoff"
    BY StageChanged
  <2>. QED
    BY <2>1, <1>2 DEF IsCall
<1>. QED
  BY <1>1, <1>2 DEF AfterFailure

-----------------------------------------------------------------------------
(* What happens to a bucket, and what that leaves of the accounts.         *)

\* The bucket b became n: it is worth no more, and what was planned on is there.
Kept(b, n) ==
  /\ n \in Buckets /\ Worth(n) <= Worth(b) /\ b.last <= n.last
  /\ broker = "ccxt" => \A w \in Nat : Planned(b, w) => Planned(n, w)

LEMMA WorthOf ==
  ASSUME NEW b \in Buckets
  PROVE  Worth(b) \in Int /\ b.tokens \in Nat /\ b.last \in Nat /\ b.tokens = Worth(b) + b.last
BY DEF Buckets, Worth

LEMMA CapacityIs ==
  /\ Capacity * Unit \in Nat /\ Capacity \in Nat /\ Unit \in Nat \ {0}
  /\ Capacity # 0 => Capacity * Unit >= Unit
<1>1. Capacity \in Nat /\ Unit \in Nat \ {0} /\ Capacity * Unit \in Nat
  BY BucketOK
<1>2. ASSUME Capacity # 0 PROVE Capacity * Unit >= Unit
  <2>1. Unit * 1 = Unit /\ Unit * Capacity = Capacity * Unit
    BY <1>1
  <2>. DEFINE d == Capacity - 1
  <2>2. d \in Nat /\ Capacity = d + 1
    BY <1>1, <1>2
  <2>. HIDE DEF d
  <2>3. Capacity * Unit = d * Unit + Unit /\ d * Unit \in Nat
    BY <1>1, <2>2
  <2>. QED
    BY <1>1, <2>3
<1>. QED
  BY <1>1, <1>2

LEMMA RefilledBucket ==
  ASSUME Typed
  PROVE  /\ Refilled \in Buckets /\ Refilled.last = now /\ Kept(bucket, Refilled)
<1>. DEFINE full == Capacity * Unit
            earned == bucket.tokens + now - bucket.last
            r == Refilled
<1>1. full \in Nat /\ (Capacity # 0 => full >= Unit) /\ Unit \in Nat \ {0}
  BY CapacityIs
<1>2. bucket \in Buckets /\ now \in Nat /\ bucket.last <= now
  BY DEF Typed
<1>3. earned \in Nat /\ earned >= bucket.tokens /\ earned - now = Worth(bucket)
  BY <1>2 DEF Buckets, Worth
<1>4. r = [tokens |-> IF earned < full THEN earned ELSE full, last |-> now]
  BY DEF Refilled
<1>. HIDE DEF full, earned, r
<1>5. r \in Buckets /\ r.last = now
  BY <1>1, <1>2, <1>3, <1>4 DEF Buckets
<1>6. \/ r.tokens = earned /\ Worth(r) = Worth(bucket)
      \/ r.tokens = full /\ Worth(r) <= Worth(bucket)
  BY <1>1, <1>2, <1>3, <1>4 DEF Worth
<1>7. ASSUME NEW w \in Nat, Planned(bucket, w) PROVE Planned(r, w)
  <2>1. Worth(bucket) \in Int /\ Worth(r) \in Int /\ bucket.tokens \in Nat
    BY <1>2, <1>5, WorthOf
  <2>2. CASE r.tokens = earned /\ Worth(r) = Worth(bucket)
    BY <2>1, <2>2, <1>1, <1>3, <1>7 DEF Planned
  <2>3. CASE r.tokens = full /\ Worth(r) <= Worth(bucket)
    BY <2>1, <2>3, <1>1, <1>7 DEF Planned
  <2>. QED
    BY <2>2, <2>3, <1>6
<1>8. Worth(r) <= Worth(bucket)
  BY <1>2, <1>5, <1>6, WorthOf
<1>. QED
  BY <1>2, <1>5, <1>7, <1>8 DEF Kept, r

\* A token is taken of a bucket that holds one.
LEMMA TakenBucket ==
  ASSUME Typed, Refilled.tokens >= Unit
  PROVE  LET n == [Refilled EXCEPT !.tokens = @ - Unit] IN
         Kept(bucket, n) /\ n.last = now /\ Worth(n) + Unit <= Worth(bucket)
<1>. DEFINE b == Refilled
            n == [b EXCEPT !.tokens = b.tokens - Unit]
<1>1. /\ b \in Buckets /\ b.last = now /\ Kept(bucket, b) /\ b.tokens >= Unit
      /\ bucket \in Buckets /\ Unit \in Nat \ {0}
  BY RefilledBucket, BucketOK DEF Typed
<1>. HIDE DEF b
<1>2. n = [tokens |-> b.tokens - Unit, last |-> b.last] /\ b.tokens - Unit \in Nat
  BY <1>1 DEF Buckets
<1>3. n \in Buckets /\ n.last = now /\ Worth(n) = Worth(b) - Unit
  BY <1>1, <1>2 DEF Buckets, Worth
<1>4. Worth(n) \in Int /\ Worth(b) \in Int /\ Worth(bucket) \in Int /\ Worth(b) <= Worth(bucket)
  BY <1>1, <1>3, WorthOf DEF Kept
<1>. HIDE DEF n
<1>5. ASSUME NEW w \in Nat, Planned(b, w) PROVE Planned(n, w)
  <2>1. Worth(n) <= -w
    BY <1>1, <1>3, <1>4, <1>5 DEF Planned
  <2>. QED
    BY <2>1, <1>1, <1>4 DEF Planned
<1>6. Kept(bucket, n)
  BY <1>1, <1>3, <1>4, <1>5 DEF Kept
<1>. QED
  BY <1>1, <1>3, <1>4, <1>6 DEF b, n

LEMMA SameBucket ==
  ASSUME Typed
  PROVE  Kept(bucket, bucket)
BY WorthOf DEF Typed, Kept

\* A caller that does not fall asleep stays as often woken as it was.
LEMMA SinceKept ==
  ASSUME NEW r, NEW b \in Buckets, NEW s, NEW n \in Buckets, NEW t \in Nat, NEW u \in Nat,
         NEW i \in Nat, Kept(b, n), t <= u, s = r \/ s.stage # "sleep", Since(r, b, t, i)
  PROVE  Since(s, n, u, i)
<1>1. Worth(b) \in Int /\ Worth(n) \in Int /\ b.last \in Nat /\ n.last \in Nat
      /\ Worth(n) <= Worth(b) /\ b.last <= n.last
  BY WorthOf DEF Kept
<1>2. ASSUME broker = "base" PROVE SinceBase(s, n, u, i)
  <2>1. SinceBase(r, b, t, i)
    BY <1>2 DEF Since
  <2>2. EarliestBase(i) \in Nat /\ (i > 0 => EarliestBase(i - 1) \in Nat)
    BY EarliestOfBase
  <2>. QED
    BY <1>1, <2>1, <2>2 DEF SinceBase
<1>3. ASSUME broker = "ccxt" PROVE SinceCcxt(s, n, u, i)
  <2>1. SinceCcxt(r, b, t, i) /\ \A w \in Nat : Planned(b, w) => Planned(n, w)
    BY <1>3 DEF Since, Kept
  <2>2. ASSUME i > 0 PROVE \E w \in Nat : EarliestCcxt(i) <= w /\ w <= u /\ Planned(n, w)
    <3>1. PICK w \in Nat : EarliestCcxt(i) <= w /\ w <= t /\ Planned(b, w)
      BY <2>1, <2>2 DEF SinceCcxt
    <3>. QED
      BY <2>1, <3>1
  <2>3. ASSUME s.stage = "sleep"
        PROVE  s.wake \in Nat /\ EarliestCcxt(i + 1) <= s.wake /\ Planned(n, s.wake)
    BY <2>1, <2>3 DEF SinceCcxt
  <2>. QED
    BY <2>2, <2>3 DEF SinceCcxt
<1>. QED
  BY <1>2, <1>3 DEF Since

-----------------------------------------------------------------------------
(* Steps of a caller, by what they do to the account of requests.          *)
LEMMA InitInv == ExchangeInit => IInv
<1>. SUFFICES ASSUME ExchangeInit PROVE IInv
  OBVIOUS
<1>. DEFINE N == [c \in Callers |-> 0]
<1>1. Typed
  BY BucketOK, CapacityIs DEF ExchangeInit, Typed, Idle, IsCall, Buckets
<1>2. N \in [Callers -> Nat] /\ \A c \in Callers : N[c] = 0
  OBVIOUS
<1>. HIDE DEF N
<1>3. Sleeps(N) = {}
  BY <1>2 DEF Sleeps
<1>4. Worth(bucket) = Capacity * Unit /\ Unit * 0 = 0
  BY CapacityIs DEF ExchangeInit, Worth
<1>5. PaidBy(N, 0)
  BY <1>3, <1>4, FS_EmptySet, CapacityIs DEF ExchangeInit, PaidBy
<1>6. ASSUME NEW c \in Callers PROVE Since(call[c], bucket, now, N[c])
  <2>1. N[c] = 0 /\ call[c].stage = "idle" /\ now = 0
    BY <1>2 DEF ExchangeInit, Idle
  <2>. QED
    BY <2>1, EarliestOfBase DEF Since, SinceBase, SinceCcxt
<1>. QED
  BY <1>1, <1>2, <1>5, <1>6 DEF IInv

\* A caller becomes another record.
LEMMA Becoming ==
  ASSUME Typed, NEW c \in Callers, NEW r, IsCall(r), Become(c, r)
  PROVE  /\ call' = [d \in Callers |-> call'[d]]
         /\ \A d \in Callers : IsCall(call'[d])
         /\ call'[c] = r /\ \A d \in Callers \ {c} : call'[d] = call[d]
BY DEF Typed, Become

LEMMA TypedKept ==
  ASSUME Typed, NEW c \in Callers, NEW r, IsCall(r), Become(c, r),
         bucket' \in Buckets, bucket'.last <= now, sent' \in Nat, UNCHANGED <<now, broker>>
  PROVE  Typed'
BY Becoming DEF Typed

\* The account after a step: of each caller, and of what was sent.
LEMMA Accounted ==
  ASSUME Typed', NEW N \in [Callers -> Nat], NEW T \in Nat, UNCHANGED broker,
         IsFiniteSet(Sleeps(N)), sent' <= T + Cardinality(Sleeps(N)),
         Unit * T + Worth(bucket') <= Capacity * Unit,
         \A c \in Callers : Since(call'[c], bucket', now', N[c])
  PROVE  IInv'
<1>1. PaidBy(N, T)'
  BY DEF PaidBy, Worth, Sleeps
<1>2. \A c \in Callers : Since(call[c], bucket, now, N[c])'
  BY DEF Since, SinceBase, SinceCcxt, Planned, Worth, EarliestBase, EarliestCcxt
<1>. QED
  BY <1>1, <1>2 DEF IInv

\* A step that sends nothing, and lets no token come from nowhere.
LEMMA QuietInv ==
  ASSUME IInv, NEW c \in Callers, NEW r, IsCall(r), Become(c, r), r.stage # "sleep",
         Kept(bucket, bucket'), bucket'.last <= now, UNCHANGED <<now, sent, broker>>
  PROVE  IInv'
<1>1. Typed /\ Typed' /\ bucket \in Buckets /\ bucket' \in Buckets /\ now \in Nat
  BY TypedKept DEF IInv, Typed, Kept
<1>2. PICK N \in [Callers -> Nat], T \in Nat :
        PaidBy(N, T) /\ \A d \in Callers : Since(call[d], bucket, now, N[d])
  BY DEF IInv
<1>3. Worth(bucket) \in Int /\ Worth(bucket') \in Int /\ Worth(bucket') <= Worth(bucket)
  BY <1>1, WorthOf DEF Kept
<1>4. Unit * T \in Nat /\ Capacity * Unit \in Nat
  BY CapacityIs
<1>5. Unit * T + Worth(bucket') <= Capacity * Unit
  BY <1>2, <1>3, <1>4 DEF PaidBy
<1>6. ASSUME NEW d \in Callers PROVE Since(call'[d], bucket', now', N[d])
  <2>1. call'[d] = call[d] \/ call'[d].stage # "sleep"
    BY <1>1, Becoming
  <2>. QED
    BY <2>1, <1>1, <1>2, SinceKept
<1>. QED
  BY <1>1, <1>2, <1>5, <1>6, Accounted DEF PaidBy

LEMMA UntouchedInv ==
  ASSUME IInv, NEW c \in Callers, NEW r, IsCall(r), Become(c, r), r.stage # "sleep",
         UNCHANGED <<now, bucket, sent, broker>>
  PROVE  IInv'
BY QuietInv, SameBucket DEF IInv, Typed

\* A request that a token pays for.
LEMMA SentForToken ==
  ASSUME IInv, NEW c \in Callers, Become(c, StageOf(c, "flight")), sent' = sent + 1,
         Kept(bucket, bucket'), bucket'.last <= now, Worth(bucket') + Unit <= Worth(bucket),
         UNCHANGED <<now, broker>>
  PROVE  IInv'
<1>. DEFINE r == StageOf(c, "flight")
<1>0. IsCall(r) /\ r.stage = "flight" /\ Become(c, r)
  BY StageChanged DEF IInv
<1>. HIDE DEF r
<1>1. Typed /\ Typed' /\ bucket \in Buckets /\ bucket' \in Buckets /\ now \in Nat /\ sent \in Nat
  BY <1>0, TypedKept DEF IInv, Typed, Kept
<1>2. PICK N \in [Callers -> Nat], T \in Nat :
        PaidBy(N, T) /\ \A d \in Callers : Since(call[d], bucket, now, N[d])
  BY DEF IInv
<1>3. Worth(bucket) \in Int /\ Worth(bucket') \in Int
  BY <1>1, WorthOf
<1>4. Unit * T \in Nat /\ Capacity * Unit \in Nat /\ Unit \in Nat /\ Unit * (T + 1) = Unit * T + Unit
  BY BucketOK
<1>5. Unit * (T + 1) + Worth(bucket') <= Capacity * Unit
  BY <1>2, <1>3, <1>4 DEF PaidBy
<1>6. ASSUME NEW d \in Callers PROVE Since(call'[d], bucket', now', N[d])
  <2>1. call'[d] = call[d] \/ call'[d].stage # "sleep"
    BY <1>0, <1>1, Becoming
  <2>. QED
    BY <2>1, <1>1, <1>2, SinceKept
<1>7. Cardinality(Sleeps(N)) \in Nat /\ sent' <= (T + 1) + Cardinality(Sleeps(N))
  BY <1>1, <1>2, FS_CardinalityType DEF PaidBy
<1>. QED
  BY <1>1, <1>2, <1>5, <1>6, <1>7, Accounted DEF PaidBy

\* A caller that falls asleep will wake no earlier than a caller can that has
\* woken as often.
LEMMA AsleepSince ==
  ASSUME Typed, NEW r, NEW i \in Nat, Since(r, bucket, now, i),
         NEW s, s.wake = now + (Unit - Refilled.tokens), Refilled.tokens < Unit
  PROVE  Since(s, Refilled, now, i)
<1>. DEFINE b == Refilled
            o == Worth(b)
<1>1. /\ bucket \in Buckets /\ b \in Buckets /\ b.last = now /\ Kept(bucket, b) /\ b.tokens < Unit
      /\ now \in Nat /\ Unit \in Nat \ {0} /\ s.wake = now + (Unit - b.tokens)
  BY RefilledBucket, BucketOK DEF Typed
<1>. HIDE DEF b
<1>2. o \in Int /\ b.tokens \in Nat /\ b.tokens = o + now /\ s.wake = Unit - o /\ s.wake > now
      /\ s.wake \in Nat
  BY <1>1 DEF Worth, Buckets
<1>. DEFINE idle == [stage |-> "idle"]
<1>3. Since(idle, b, now, i)
  <2>1. idle.stage # "sleep"
    OBVIOUS
  <2>. HIDE DEF idle
  <2>. QED
    BY <1>1, <2>1, SinceKept
<1>. HIDE DEF o
<1>4. ASSUME broker = "base" PROVE SinceBase(s, b, now, i)
  <2>1. EarliestBase(i) <= now /\ (i > 0 => o <= -EarliestBase(i - 1))
    BY <1>3, <1>4 DEF Since, SinceBase, o
  <2>2. EarliestBase(i + 1) <= s.wake
    <3>1. CASE i = 0
      BY <1>1, <1>2, <3>1, EarliestOfBase
    <3>2. CASE i # 0
      <4>. DEFINE j == i - 1
      <4>1. j \in Nat /\ j + 2 = i + 1 /\ i > 0
        BY <3>2
      <4>2. EarliestBase(j) \in Nat /\ EarliestBase(j + 2) = EarliestBase(j) + Unit
        BY <4>1, EarliestOfBase
      <4>. QED
        BY <1>1, <1>2, <2>1, <4>1, <4>2
    <3>. QED
      BY <3>1, <3>2
  <2>. QED
    BY <1>1, <1>2, <2>1, <2>2 DEF SinceBase, o
<1>5. ASSUME broker = "ccxt" PROVE SinceCcxt(s, b, now, i)
  <2>1. i > 0 => \E w \in Nat : EarliestCcxt(i) <= w /\ w <= now /\ Planned(b, w)
    BY <1>3, <1>5 DEF Since, SinceCcxt
  <2>2. EarliestCcxt(i + 1) <= s.wake
    <3>1. CASE i = 0
      BY <1>1, <1>2, <3>1, EarliestOfCcxt
    <3>2. CASE i # 0
      <4>1. PICK w \in Nat : EarliestCcxt(i) <= w /\ w <= now /\ Planned(b, w)
        BY <2>1, <3>2
      <4>2. EarliestCcxt(i) \in Nat /\ EarliestCcxt(i + 1) = EarliestCcxt(i) + Unit
        BY <3>2, EarliestOfCcxt
      <4>3. w + Unit <= s.wake
        <5>1. CASE o <= -w
          BY <1>1, <1>2, <5>1
        <5>2. CASE o = Unit - w
          BY <1>1, <1>2, <4>1, <5>2
        <5>3. CASE b.tokens >= Unit
          BY <1>1, <1>2, <5>3
        <5>4. CASE Capacity = 0
          <6>1. b.tokens = 0
            BY <5>4, <1>2, BucketOK DEF b, Refilled, Typed, Buckets
          <6>. QED
            BY <6>1, <1>1, <1>2, <4>1
        <5>. QED
          BY <4>1, <5>1, <5>2, <5>3, <5>4 DEF Planned, o
      <4>. QED
        BY <1>1, <1>2, <4>1, <4>2, <4>3
    <3>. QED
      BY <3>1, <3>2
  <2>3. Planned(b, s.wake)
    BY <1>1, <1>2 DEF Planned, o
  <2>. QED
    BY <1>2, <2>1, <2>2, <2>3 DEF SinceCcxt
<1>. QED
  BY <1>4, <1>5 DEF Since, b

LEMMA AsleepInv ==
  ASSUME IInv, NEW c \in Callers, Refilled.tokens < Unit,
         Become(c, [StageOf(c, "sleep") EXCEPT !.wake = now + (Unit - Refilled.tokens)]),
         bucket' = Refilled, UNCHANGED <<now, sent, broker>>
  PROVE  IInv'
<1>. DEFINE r == [StageOf(c, "sleep") EXCEPT !.wake = now + (Unit - Refilled.tokens)]
<1>0. IsCall(r) /\ r.wake = now + (Unit - Refilled.tokens) /\ Become(c, r)
  <2>1. IsCall(StageOf(c, "sleep"))
    BY StageChanged DEF IInv
  <2>. QED
    BY <2>1, CallChanged
<1>. HIDE DEF r
<1>1. Typed /\ Refilled \in Buckets /\ Refilled.last = now /\ Kept(bucket, Refilled)
  BY RefilledBucket DEF IInv
<1>2. Typed' /\ bucket \in Buckets /\ bucket' \in Buckets /\ now \in Nat
  BY <1>0, <1>1, TypedKept DEF Typed
<1>3. PICK N \in [Callers -> Nat], T \in Nat :
        PaidBy(N, T) /\ \A d \in Callers : Since(call[d], bucket, now, N[d])
  BY DEF IInv
<1>4. Worth(bucket) \in Int /\ Worth(bucket') \in Int /\ Worth(bucket') <= Worth(bucket)
  BY <1>1, <1>2, WorthOf DEF Kept
<1>5. Unit * T \in Nat /\ Capacity * Unit \in Nat
  BY CapacityIs
<1>6. Unit * T + Worth(bucket') <= Capacity * Unit
  BY <1>3, <1>4, <1>5 DEF PaidBy
<1>7. ASSUME NEW d \in Callers PROVE Since(call'[d], bucket', now', N[d])
  <2>1. CASE d = c
    <3>1. call'[c] = r /\ N[c] \in Nat
      BY <1>0, <1>1, Becoming
    <3>2. Since(r, Refilled, now, N[c])
      BY <1>0, <1>1, <1>3, <3>1, AsleepSince
    <3>. QED
      BY <2>1, <3>1, <3>2
  <2>2. CASE d # c
    <3>1. call'[d] = call[d]
      BY <1>0, <1>1, <2>2, Becoming
    <3>. QED
      BY <3>1, <1>1, <1>2, <1>3, SinceKept
  <2>. QED
    BY <2>1, <2>2
<1>. QED
  BY <1>2, <1>3, <1>6, <1>7, Accounted DEF PaidBy

\* A caller that has slept has woken once more.
LEMMA WokenSince ==
  ASSUME Typed, NEW r, r.stage = "sleep", now >= r.wake, NEW i \in Nat, Since(r, bucket, now, i),
         NEW n \in Buckets, n = IF broker = "base" THEN [bucket EXCEPT !.tokens = 0] ELSE bucket,
         NEW s, s.stage # "sleep"
  PROVE  Since(s, n, now, i + 1)
<1>1. bucket \in Buckets /\ now \in Nat /\ i + 1 \in Nat /\ i + 1 > 0 /\ i + 1 - 1 = i
  BY DEF Typed
<1>2. ASSUME broker = "base" PROVE SinceBase(s, n, now, i + 1)
  <2>1. SinceBase(r, bucket, now, i) /\ Worth(n) = -bucket.last /\ bucket.last \in Nat
    BY <1>1, <1>2 DEF Since, Worth, Buckets
  <2>2. EarliestBase(i) \in Nat /\ EarliestBase(i + 1) \in Nat
    BY <1>1, EarliestOfBase
  <2>. QED
    BY <1>1, <2>1, <2>2 DEF SinceBase
<1>3. ASSUME broker = "ccxt" PROVE SinceCcxt(s, n, now, i + 1)
  BY <1>1, <1>3 DEF Since, SinceCcxt
<1>. QED
  BY <1>2, <1>3 DEF Since

LEMMA WokenBucket ==
  ASSUME Typed
  PROVE  LET n == IF broker = "base" THEN [bucket EXCEPT !.tokens = 0] ELSE bucket IN
         n \in Buckets /\ Kept(bucket, n) /\ n.last = bucket.last
<1>1. CASE broker = "base"
  BY <1>1 DEF Typed, Kept, Worth, Buckets
<1>2. CASE broker # "base"
  BY <1>2, SameBucket DEF Typed
<1>. QED
  BY <1>1, <1>2

\* A request that is sent after a sleep is paid for with the sleep.
LEMMA SentForSleep ==
  ASSUME IInv, NEW c \in Callers, call[c].stage = "sleep", now >= call[c].wake,
         Become(c, StageOf(c, "flight")), sent' = sent + 1,
         bucket' = IF broker = "base" THEN [bucket EXCEPT !.tokens = 0] ELSE bucket,
         UNCHANGED <<now, broker>>
  PROVE  IInv'
<1>. DEFINE r == StageOf(c, "flight")
<1>0. IsCall(r) /\ r.stage = "flight" /\ Become(c, r)
  BY StageChanged DEF IInv
<1>. HIDE DEF r
<1>1. Typed /\ Kept(bucket, bucket') /\ bucket \in Buckets /\ bucket' \in Buckets
      /\ now \in Nat /\ sent \in Nat /\ bucket'.last <= now
  BY WokenBucket DEF IInv, Typed
<1>2. Typed'
  BY <1>0, <1>1, TypedKept
<1>3. PICK N \in [Callers -> Nat], T \in Nat :
        PaidBy(N, T) /\ \A d \in Callers : Since(call[d], bucket, now, N[d])
  BY DEF IInv
<1>. DEFINE V == [N EXCEPT ![c] = N[c] + 1]
<1>4. /\ V \in [Callers -> Nat] /\ V[c] = N[c] + 1 /\ \A d \in Callers \ {c} : V[d] = N[d]
      /\ IsFiniteSet(Sleeps(V)) /\ Cardinality(Sleeps(N)) \in Nat
      /\ Cardinality(Sleeps(V)) = Cardinality(Sleeps(N)) + 1
  <2>1. IsFiniteSet(Sleeps(N))
    BY <1>3 DEF PaidBy
  <2>2. N \in [Callers -> Nat]
    BY <1>3
  <2>3. V \in [Callers -> Nat] /\ V[c] = N[c] + 1 /\ \A d \in Callers \ {c} : V[d] = N[d]
    BY <2>2
  <2>. HIDE DEF V
  <2>. QED
    BY <2>1, <2>2, <2>3, OneMoreSleep
<1>. HIDE DEF V
<1>5. Worth(bucket) \in Int /\ Worth(bucket') \in Int /\ Worth(bucket') <= Worth(bucket)
  BY <1>1, WorthOf DEF Kept
<1>6. Unit * T \in Nat /\ Capacity * Unit \in Nat
  BY CapacityIs
<1>7. Unit * T + Worth(bucket') <= Capacity * Unit
  BY <1>3, <1>5, <1>6 DEF PaidBy
<1>8. sent' <= T + Cardinality(Sleeps(V))
  BY <1>1, <1>3, <1>4 DEF PaidBy
<1>9. ASSUME NEW d \in Callers PROVE Since(call'[d], bucket', now', V[d])
  <2>1. CASE d = c
    <3>1. call'[c] = r /\ N[c] \in Nat
      BY <1>0, <1>1, Becoming
    <3>2. Since(r, bucket', now, N[c] + 1)
      BY <1>0, <1>1, <1>3, <3>1, WokenSince
    <3>. QED
      BY <2>1, <3>1, <3>2, <1>4
  <2>2. CASE d # c
    <3>1. call'[d] = call[d] /\ V[d] = N[d]
      BY <1>0, <1>1, <1>4, <2>2, Becoming
    <3>. QED
      BY <3>1, <1>1, <1>3, SinceKept
  <2>. QED
    BY <2>1, <2>2
<1>. QED
  BY <1>2, <1>3, <1>4, <1>7, <1>8, <1>9, Accounted

-----------------------------------------------------------------------------
(* The actions.                                                            *)
LEMMA AskInv ==
  ASSUME IInv, NEW c \in Callers, Ask(c)
  PROVE  IInv'
<1>1. Typed /\ now \in Nat /\ Refilled \in Buckets /\ Unit \in Nat \ {0} /\ UNCHANGED <<now, broker>>
  BY RefilledBucket, BucketOK DEF IInv, Typed, Ask
<1>2. CASE Refilled.tokens >= Unit
  <2>1. bucket' = [Refilled EXCEPT !.tokens = @ - Unit] /\ Leave(c)
    BY <1>2 DEF Ask
  <2>2. Kept(bucket, bucket') /\ bucket'.last = now /\ Worth(bucket') + Unit <= Worth(bucket)
    BY <2>1, <1>1, <1>2, TakenBucket
  <2>3. CASE Shut(KindOf(c))
    BY <2>1, <2>2, <2>3, <1>1, FailureChanged, QuietInv DEF Leave
  <2>4. CASE ~Shut(KindOf(c))
    BY <2>1, <2>2, <2>4, <1>1, SentForToken DEF Leave
  <2>. QED
    BY <2>3, <2>4
<1>3. CASE ~(Refilled.tokens >= Unit)
  <2>1. /\ bucket' = Refilled /\ UNCHANGED sent
        /\ Become(c, [StageOf(c, "sleep") EXCEPT !.wake = now + (Unit - Refilled.tokens)])
    BY <1>3 DEF Ask
  <2>2. Refilled.tokens < Unit
    BY <1>1, <1>3 DEF Buckets
  <2>. QED
    BY <2>1, <2>2, <1>1, AsleepInv
<1>. QED
  BY <1>2, <1>3

LEMMA ProceedInv ==
  ASSUME IInv, NEW c \in Callers, Proceed(c)
  PROVE  IInv'
<1>1. Typed /\ IsCall(call[c]) /\ call[c].stage = "plan"
  BY DEF IInv, Typed, Proceed
<1>2. CASE Ask(c)
  BY <1>2, AskInv
<1>3. CASE Become(c, StageOf(c, "done")) /\ UNCHANGED <<now, bucket, sent, broker>>
  <2>1. IsCall(StageOf(c, "done")) /\ StageOf(c, "done").stage # "sleep"
    BY <1>1, StageChanged
  <2>. QED
    BY <1>3, <2>1, UntouchedInv
<1>4. CASE Become(c, [call[c] EXCEPT !.plan = Tail(@)]) /\ UNCHANGED <<now, bucket, sent, broker>>
  <2>. DEFINE r == [call[c] EXCEPT !.plan = Tail(call[c].plan)]
  <2>1. IsCall(r) /\ r.stage = call[c].stage
    BY <1>1, CallChanged
  <2>2. Become(c, r) /\ r.stage # "sleep"
    BY <1>1, <1>4, <2>1
  <2>. HIDE DEF r
  <2>. QED
    BY <1>4, <2>1, <2>2, UntouchedInv
<1>. QED
  BY <1>2, <1>3, <1>4 DEF Proceed

LEMMA WakeUpInv ==
  ASSUME IInv, NEW c \in Callers, WakeUp(c)
  PROVE  IInv'
<1>1. Typed /\ call[c].stage = "sleep" /\ now >= call[c].wake /\ Leave(c) /\ UNCHANGED <<now, broker>>
      /\ bucket' = IF broker = "base" THEN [bucket EXCEPT !.tokens = 0] ELSE bucket
  BY DEF IInv, WakeUp
<1>2. Kept(bucket, bucket') /\ bucket'.last <= now
  BY <1>1, WokenBucket DEF Typed
<1>3. CASE Shut(KindOf(c))
  BY <1>1, <1>2, <1>3, FailureChanged, QuietInv DEF Leave
<1>4. CASE ~Shut(KindOf(c))
  BY <1>1, <1>4, SentForSleep DEF Leave
<1>. QED
  BY <1>3, <1>4

LEMMA AnsweredInv ==
  ASSUME IInv, NEW c \in Callers, NEW filled \in BOOLEAN, NEW price \in Prices,
         Answered(c, filled, price)
  PROVE  IInv'
<1>. DEFINE after == IF KindOf(c) = "ticker" THEN Sized(c, price) ELSE call[c]
            r == [after EXCEPT !.stage = IF @ = "failed" THEN @ ELSE "plan", !.plan = Tail(@)]
<1>1. Typed /\ IsCall(call[c])
  BY DEF IInv, Typed
<1>2. IsCall(after)
  <2>1. IsCall(StageOf(c, "failed"))
    BY <1>1, StageChanged
  <2>2. IsCall([call[c] EXCEPT !.price = price, !.amount = Amount(c, price)])
    BY <1>1, CallChangedTwice
  <2>. QED
    BY <1>1, <2>1, <2>2 DEF Sized
<1>3. Become(c, r) /\ UNCHANGED <<now, bucket, sent, broker>>
  BY DEF Answered
<1>. HIDE DEF after
<1>4. r = [after EXCEPT !.stage = IF after.stage = "failed" THEN "failed" ELSE "plan",
                        !.plan = Tail(after.plan)]
  OBVIOUS
<1>5. IsCall(r) /\ r.stage # "sleep"
  BY <1>2, <1>4, CallChangedTwice
<1>. HIDE DEF r
<1>. QED
  BY <1>3, <1>5, UntouchedInv

LEMMA CalledInv ==
  ASSUME IInv, NEW c \in Callers,
         \/ \E op \in Operations : Call(c, op)
         \/ \E valid \in BOOLEAN : CallBase(c, valid)
  PROVE  IInv'
<1>1. ASSUME NEW op \in Operations, Call(c, op) PROVE IInv'
  <2>. DEFINE r == Opened(op, "plan", Requests[op])
  <2>1. IsCall(r) /\ r.stage = "plan"
    BY CallBegun
  <2>2. Become(c, r) /\ UNCHANGED <<now, bucket, sent, broker>>
    BY <1>1 DEF Call, Opened
  <2>. HIDE DEF r
  <2>. QED
    BY <2>1, <2>2, UntouchedInv
<1>2. ASSUME NEW valid \in BOOLEAN, CallBase(c, valid) PROVE IInv'
  <2>. DEFINE r == OpenedBase("base", <<"order">>, IF valid THEN "plan" ELSE "failed")
  <2>1. IsCall(r) /\ r.stage # "sleep"
    BY CallBegun
  <2>2. Become(c, r) /\ UNCHANGED <<now, bucket, sent, broker>>
    BY <1>2 DEF CallBase, OpenedBase
  <2>. HIDE DEF r
  <2>. QED
    BY <2>1, <2>2, UntouchedInv
<1>. QED
  BY <1>1, <1>2

\* Time passes: it earns nothing until somebody looks at the bucket.
LEMMA PassInv ==
  ASSUME IInv, Pass
  PROVE  IInv'
<1>1. PICK N \in [Callers -> Nat], T \in Nat :
        PaidBy(N, T) /\ \A d \in Callers : Since(call[d], bucket, now, N[d])
  BY DEF IInv
<1>2. Typed /\ bucket \in Buckets /\ now \in Nat /\ now' = now + 1
      /\ bucket' = bucket /\ call' = call /\ sent' = sent /\ broker' = broker
  BY DEF Pass, IInv, Typed
<1>4. Typed'
  BY <1>2 DEF Typed, Buckets
<1>3. ASSUME NEW d \in Callers PROVE Since(call'[d], bucket', now', N[d])
  BY <1>1, <1>2, SameBucket, SinceKept
<1>. QED
  BY <1>1, <1>2, <1>3, <1>4, Accounted DEF PaidBy

LEMMA NextInv ==
  ASSUME IInv, [ExchangeNext]_exchangeVars
  PROVE  IInv'
<1>1. ASSUME NEW c \in Callers, Failed(c) PROVE IInv'
  BY <1>1, FailureChanged, UntouchedInv DEF Failed, IInv
<1>2. ASSUME NEW c \in Callers, Again(c) PROVE IInv'
  BY <1>2, AskInv DEF Again
<1>3. CASE UNCHANGED exchangeVars
  <2>1. PICK N \in [Callers -> Nat], T \in Nat :
          PaidBy(N, T) /\ \A d \in Callers : Since(call[d], bucket, now, N[d])
    BY DEF IInv
  <2>. QED
    BY <2>1, <1>3, Accounted DEF exchangeVars, PaidBy, IInv, Typed
<1>. QED
  BY <1>1, <1>2, <1>3, CalledInv, ProceedInv, WakeUpInv, AnsweredInv, PassInv DEF ExchangeNext

\* The account gives the bound: a bucket never owes, and no caller can have
\* woken more often than units of time were begun, or twice as often.
LEMMA PaidIsBounded == IInv => RequestsBounded
<1>. SUFFICES ASSUME IInv PROVE RequestsBounded
  OBVIOUS
<1>. DEFINE k == IF broker = "base" THEN 2 ELSE 1
            m == k * Begun
<1>1. PICK N \in [Callers -> Nat], T \in Nat :
        PaidBy(N, T) /\ \A c \in Callers : Since(call[c], bucket, now, N[c])
  BY DEF IInv
<1>2. /\ now \in Nat /\ sent \in Nat /\ broker \in {"base", "ccxt"}
      /\ bucket \in Buckets /\ bucket.last <= now
  BY DEF IInv, Typed
<1>3. Begun \in Nat /\ now <= Unit * Begun /\ Unit * Begun \in Nat /\ k \in Nat /\ m \in Nat
  BY <1>2, BegunUnits, BucketOK
<1>4. ASSUME NEW c \in Callers PROVE N[c] <= m
  <2>1. CASE broker = "base"
    <3>1. EarliestBase(N[c]) <= now
      BY <1>1, <2>1 DEF Since, SinceBase
    <3>. QED
      BY <3>1, <2>1, <1>2, WakesBounded
  <2>2. CASE broker = "ccxt"
    <3>1. EarliestCcxt(N[c]) <= now
      <4>1. N[c] > 0 => \E w \in Nat : EarliestCcxt(N[c]) <= w /\ w <= now
        BY <1>1, <2>2 DEF Since, SinceCcxt
      <4>2. EarliestCcxt(N[c]) \in Nat /\ EarliestCcxt(0) = 0
        BY EarliestOfCcxt
      <4>. QED
        BY <4>1, <4>2, <1>2
    <3>2. m = Begun
      BY <2>2, <1>3
    <3>. QED
      BY <3>1, <3>2, <1>2, WakesBounded
  <2>. QED
    BY <2>1, <2>2, <1>2
<1>. HIDE DEF m
<1>5. Cardinality(Sleeps(N)) \in Nat /\ Cardinality(Sleeps(N)) <= Cardinality(Callers) * m
  BY <1>3, <1>4, SleepsFew
<1>6. T <= Capacity + Begun
  <2>1. Worth(bucket) \in Int /\ Worth(bucket) >= -now
    BY <1>2 DEF Worth, Buckets
  <2>2. Unit * T \in Nat /\ Capacity * Unit \in Nat
        /\ Unit * (Capacity + Begun) = Capacity * Unit + Unit * Begun
    BY <1>3, BucketOK
  <2>3. Unit * T <= Unit * (Capacity + Begun)
    BY <1>1, <1>2, <1>3, <2>1, <2>2 DEF PaidBy
  <2>. QED
    BY <2>3, <1>3, BucketOK, Divides
<1>7. Cardinality(Callers) \in Nat
  BY FS_CardinalityType, BucketOK
<1>. DEFINE n == Cardinality(Callers)
<1>8. Begun * (1 + n * k) = Begun + n * m
  <2>. HIDE DEF n, k
  <2>1. n \in Nat /\ k \in Nat /\ Begun \in Nat
    BY <1>3, <1>7 DEF n
  <2>2. n * (k * Begun) = (n * k) * Begun
    BY <2>1
  <2>3. n * k \in Nat
    BY <2>1
  <2>. DEFINE p == n * k
  <2>4. Begun * (1 + p) = Begun + p * Begun
    <3>. HIDE DEF p
    <3>. QED
      BY <2>1, <2>3 DEF p
  <2>. QED
    BY <2>2, <2>4 DEF m
<1>9. n * m \in Nat
  BY <1>3, <1>7
<1>10. sent <= T + n * m
  BY <1>1, <1>2, <1>5, <1>9 DEF PaidBy
<1>11. sent <= Capacity + (Begun + n * m)
  <2>. HIDE DEF n
  <2>. QED
    BY <1>2, <1>3, <1>6, <1>9, <1>10, BucketOK
<1>. QED
  BY <1>8, <1>11 DEF RequestsBounded

-----------------------------------------------------------------------------
(* What is left of each call at the exchange.  A plan is what is left of   *)
(* its operation's requests: an order comes last, so a call that has none  *)
(* left has made its order.  While it is there, the exchange has taken no  *)
(* more orders of this call than it has been tried again.                  *)
OrderPlans == {<<"markets", "markets", "ticker", "create">>,
               <<"markets", "ticker", "create">>, <<"ticker", "create">>, <<"create">>, <<>>}
OtherPlans == {<<"markets", "ticker">>, <<"markets", "balance">>, <<"markets", "order">>,
               <<"ticker">>, <<"balance">>, <<"order">>, <<>>}

Within(r) ==
  IF r.op = "create_market_buy_quote" THEN r.amount * r.price <= 10 * Quote
  ELSE r.amount <= Asked

\* A call r of broker b of which the exchange has taken n orders.
CallOK(r, n, b) ==
  /\ r.op \in Orders => b = "ccxt"
  /\ b # "ccxt" => n = 0
  /\ n \in 0..Attempts /\ (r.op \in Named => n <= 1)
  /\ r.tries \in 0..(Attempts - 1)
  /\ r.plan \in IF r.op \in Orders THEN OrderPlans ELSE OtherPlans
  /\ r.stage = "idle" => n = 0
  /\ r.stage \in {"sleep", "flight", "backoff"} => r.plan # <<>>
  /\ r.stage # "failed" => IF r.plan # <<>> THEN n <= r.tries ELSE r.op \in Orders => n > 0
  /\ r.stage = "done" => r.plan = <<>>

CallsOK ==
  /\ market \in Markets
  /\ booked = [c \in Callers |-> booked[c]]
  /\ \A c \in Callers : CallOK(call[c], booked[c], broker) /\ Within(call[c])

LEMMA Plans ==
  /\ \A p \in OrderPlans : p # <<>> =>
       Tail(p) \in OrderPlans /\ (Head(p) = "create" <=> Tail(p) = <<>>)
  /\ \A p \in OtherPlans : p # <<>> => Tail(p) \in OtherPlans /\ Head(p) # "create"
BY DEF OrderPlans, OtherPlans

LEMMA RequestPlans ==
  \A op \in Operations :
    Requests[op] # <<>> /\ Requests[op] \in IF op \in Orders THEN OrderPlans ELSE OtherPlans
BY ExchangeConstantsOK DEF Requests, Orders, OrderPlans, OtherPlans

\* Records with some fields changed.
LEMMA FieldChanged ==
  ASSUME NEW r, IsCall(r), NEW x
  PROVE  /\ [r EXCEPT !.stage = x] =
              [op |-> r.op, stage |-> x, plan |-> r.plan, tries |-> r.tries, wake |-> r.wake, price |-> r.price, amount |-> r.amount]
         /\ [r EXCEPT !.plan = x] =
              [op |-> r.op, stage |-> r.stage, plan |-> x, tries |-> r.tries, wake |-> r.wake, price |-> r.price, amount |-> r.amount]
         /\ [r EXCEPT !.tries = x] =
              [op |-> r.op, stage |-> r.stage, plan |-> r.plan, tries |-> x, wake |-> r.wake, price |-> r.price, amount |-> r.amount]
         /\ [r EXCEPT !.wake = x] =
              [op |-> r.op, stage |-> r.stage, plan |-> r.plan, tries |-> r.tries, wake |-> x, price |-> r.price, amount |-> r.amount]
         /\ [r EXCEPT !.price = x] =
              [op |-> r.op, stage |-> r.stage, plan |-> r.plan, tries |-> r.tries, wake |-> r.wake, price |-> x, amount |-> r.amount]
         /\ [r EXCEPT !.amount = x] =
              [op |-> r.op, stage |-> r.stage, plan |-> r.plan, tries |-> r.tries, wake |-> r.wake, price |-> r.price, amount |-> x]
<1>. DEFINE o == r.op  st == r.stage  p == r.plan  t == r.tries
            w == r.wake  pr == r.price  a == r.amount
<1>1. r = [op |-> o, stage |-> st, plan |-> p, tries |-> t, wake |-> w, price |-> pr, amount |-> a]
  BY DEF IsCall
<1>. HIDE DEF o, st, p, t, w, pr, a
<1>2. [r EXCEPT !.stage = x] =
       [op |-> r.op, stage |-> x, plan |-> r.plan, tries |-> r.tries, wake |-> r.wake, price |-> r.price, amount |-> r.amount]
  BY <1>1
<1>3. [r EXCEPT !.plan = x] =
       [op |-> r.op, stage |-> r.stage, plan |-> x, tries |-> r.tries, wake |-> r.wake, price |-> r.price, amount |-> r.amount]
  BY <1>1
<1>4. [r EXCEPT !.tries = x] =
       [op |-> r.op, stage |-> r.stage, plan |-> r.plan, tries |-> x, wake |-> r.wake, price |-> r.price, amount |-> r.amount]
  BY <1>1
<1>5. [r EXCEPT !.wake = x] =
       [op |-> r.op, stage |-> r.stage, plan |-> r.plan, tries |-> r.tries, wake |-> x, price |-> r.price, amount |-> r.amount]
  BY <1>1
<1>6. [r EXCEPT !.price = x] =
       [op |-> r.op, stage |-> r.stage, plan |-> r.plan, tries |-> r.tries, wake |-> r.wake, price |-> x, amount |-> r.amount]
  BY <1>1
<1>7. [r EXCEPT !.amount = x] =
       [op |-> r.op, stage |-> r.stage, plan |-> r.plan, tries |-> r.tries, wake |-> r.wake, price |-> r.price, amount |-> x]
  BY <1>1
<1>. QED
  BY <1>2, <1>3, <1>4, <1>5, <1>6, <1>7

LEMMA FieldsChanged ==
  ASSUME NEW r, IsCall(r), NEW x, NEW y
  PROVE  /\ [r EXCEPT !.price = x, !.amount = y] =
              [op |-> r.op, stage |-> r.stage, plan |-> r.plan, tries |-> r.tries, wake |-> r.wake, price |-> x, amount |-> y]
         /\ [r EXCEPT !.tries = x, !.wake = y] =
              [op |-> r.op, stage |-> r.stage, plan |-> r.plan, tries |-> x, wake |-> y, price |-> r.price, amount |-> r.amount]
<1>1. [r EXCEPT !.price = x, !.amount = y] = [[r EXCEPT !.price = x] EXCEPT !.amount = y]
  OBVIOUS
<1>2. [[r EXCEPT !.price = x] EXCEPT !.amount = y] =
       [op |-> r.op, stage |-> r.stage, plan |-> r.plan, tries |-> r.tries, wake |-> r.wake, price |-> x, amount |-> y]
  <2>. DEFINE q == [r EXCEPT !.price = x]
  <2>0. IsCall(q)
    BY CallChanged
  <2>1. q = [op |-> r.op, stage |-> r.stage, plan |-> r.plan, tries |-> r.tries, wake |-> r.wake, price |-> x, amount |-> r.amount]
    BY FieldChanged
  <2>. HIDE DEF q
  <2>2. [q EXCEPT !.amount = y] =
         [op |-> q.op, stage |-> q.stage, plan |-> q.plan, tries |-> q.tries, wake |-> q.wake, price |-> q.price, amount |-> y]
    BY <2>0, FieldChanged
  <2>3. [q EXCEPT !.amount = y] =
         [op |-> r.op, stage |-> r.stage, plan |-> r.plan, tries |-> r.tries, wake |-> r.wake, price |-> x, amount |-> y]
    BY <2>1, <2>2
  <2>. QED
    BY <2>3 DEF q
<1>3. [r EXCEPT !.tries = x, !.wake = y] = [[r EXCEPT !.tries = x] EXCEPT !.wake = y]
  OBVIOUS
<1>4. [[r EXCEPT !.tries = x] EXCEPT !.wake = y] =
       [op |-> r.op, stage |-> r.stage, plan |-> r.plan, tries |-> x, wake |-> y, price |-> r.price, amount |-> r.amount]
  <2>. DEFINE q == [r EXCEPT !.tries = x]
  <2>0. IsCall(q)
    BY CallChanged
  <2>1. q = [op |-> r.op, stage |-> r.stage, plan |-> r.plan, tries |-> x, wake |-> r.wake, price |-> r.price, amount |-> r.amount]
    BY FieldChanged
  <2>. HIDE DEF q
  <2>2. [q EXCEPT !.wake = y] =
         [op |-> q.op, stage |-> q.stage, plan |-> q.plan, tries |-> q.tries, wake |-> y, price |-> q.price, amount |-> q.amount]
    BY <2>0, FieldChanged
  <2>3. [q EXCEPT !.wake = y] =
         [op |-> r.op, stage |-> r.stage, plan |-> r.plan, tries |-> x, wake |-> y, price |-> r.price, amount |-> r.amount]
    BY <2>1, <2>2
  <2>. QED
    BY <2>3 DEF q
<1>. QED
  BY <1>1, <1>2, <1>3, <1>4

LEMMA Staged ==
  ASSUME Typed, NEW c \in Callers, NEW s
  PROVE  StageOf(c, s) = [op |-> call[c].op, stage |-> s, plan |-> call[c].plan, tries |-> call[c].tries,
           wake |-> call[c].wake, price |-> call[c].price, amount |-> call[c].amount]
<1>1. IsCall(call[c])
  BY DEF Typed
<1>. QED
  BY <1>1, FieldChanged, FieldsChanged DEF StageOf

\* One caller becomes a record that is right; the others keep theirs.
LEMMA CallBecomes ==
  ASSUME Typed, CallsOK, NEW c \in Callers, NEW r, Become(c, r), Within(r),
         NEW n, CallOK(r, n, broker), booked' = [booked EXCEPT ![c] = n], UNCHANGED <<broker, market>>
  PROVE  CallsOK'
<1>1. /\ call'[c] = r /\ \A d \in Callers \ {c} : call'[d] = call[d]
      /\ booked'[c] = n /\ \A d \in Callers \ {c} : booked'[d] = booked[d]
  BY DEF Become, Typed, CallsOK
<1>2. \A d \in Callers : CallOK(call'[d], booked'[d], broker') /\ Within(call'[d])
  BY <1>1 DEF CallsOK
<1>. QED
  BY <1>2 DEF CallsOK

\* What a failure leaves is right if the exchange has taken one order more at
\* most, and that only where the order was under way.
LEMMA FailureOK ==
  ASSUME Typed, CallsOK, NEW c \in Callers, call[c].plan # <<>>, call[c].stage # "failed",
         NEW n \in 0..Attempts, n <= call[c].tries + 1, call[c].op \in Named => n <= 1,
         broker # "ccxt" => n = 0
  PROVE  CallOK(AfterFailure(c), n, broker) /\ Within(AfterFailure(c))
<1>1. CallOK(call[c], booked[c], broker) /\ Within(call[c])
  BY DEF CallsOK
<1>2. CASE AfterFailure(c) = StageOf(c, "failed")
  BY <1>1, <1>2, Staged DEF CallOK, Within
<1>3. CASE /\ call[c].tries + 1 < Attempts
           /\ AfterFailure(c) = [StageOf(c, "backoff") EXCEPT !.tries = @ + 1, !.wake = now + Backoff * 2 ^ call[c].tries]
  <2>. DEFINE q == StageOf(c, "backoff")
  <2>0. /\ AfterFailure(c) = [q EXCEPT !.tries = q.tries + 1, !.wake = now + Backoff * 2 ^ call[c].tries]
        /\ IsCall(q)
        /\ q = [op |-> call[c].op, stage |-> "backoff", plan |-> call[c].plan, tries |-> call[c].tries,
                wake |-> call[c].wake, price |-> call[c].price, amount |-> call[c].amount]
    BY <1>3, StageChanged, Staged
  <2>. HIDE DEF q
  <2>1. [q EXCEPT !.tries = q.tries + 1, !.wake = now + Backoff * 2 ^ call[c].tries] =
          [op |-> q.op, stage |-> q.stage, plan |-> q.plan, tries |-> q.tries + 1,
           wake |-> now + Backoff * 2 ^ call[c].tries, price |-> q.price, amount |-> q.amount]
    BY <2>0, FieldsChanged
  <2>2. AfterFailure(c) = [op |-> call[c].op, stage |-> "backoff", plan |-> call[c].plan,
          tries |-> call[c].tries + 1, wake |-> now + Backoff * 2 ^ call[c].tries,
          price |-> call[c].price, amount |-> call[c].amount]
    BY <2>0, <2>1
  <2>3. call[c].tries + 1 \in 0..(Attempts - 1)
    BY <1>1, <1>3, ExchangeConstantsOK DEF CallOK
  <2>. HIDE DEF q
  <2>. QED
    BY <1>1, <2>2, <2>3 DEF CallOK, Within
<1>. QED
  BY <1>2, <1>3 DEF AfterFailure

\* Leaving, or being refused by a breaker.
LEMMA LeaveOK ==
  ASSUME Typed, CallsOK, NEW c \in Callers, call[c].plan # <<>>, Leave(c),
         call[c].stage \in {"plan", "sleep", "backoff"}, UNCHANGED <<broker, market, booked>>
  PROVE  CallsOK'
<1>1. CallOK(call[c], booked[c], broker) /\ Within(call[c]) /\ booked' = [booked EXCEPT ![c] = booked[c]]
  BY DEF CallsOK
<1>2. CASE Become(c, AfterFailure(c))
  <2>1. CallOK(AfterFailure(c), booked[c], broker) /\ Within(AfterFailure(c))
    BY <1>1, FailureOK, ExchangeConstantsOK DEF CallOK
  <2>. QED
    BY <1>1, <1>2, <2>1, CallBecomes
<1>3. CASE Become(c, StageOf(c, "flight"))
  <2>1. CallOK(StageOf(c, "flight"), booked[c], broker) /\ Within(StageOf(c, "flight"))
    BY <1>1, Staged DEF CallOK, Within
  <2>. QED
    BY <1>1, <1>3, <2>1, CallBecomes
<1>. QED
  BY <1>2, <1>3 DEF Leave

LEMMA AskOK ==
  ASSUME Typed, CallsOK, NEW c \in Callers, call[c].plan # <<>>, Ask(c),
         call[c].stage \in {"plan", "backoff"}
  PROVE  CallsOK'
<1>1. CallOK(call[c], booked[c], broker) /\ Within(call[c]) /\ booked' = [booked EXCEPT ![c] = booked[c]]
  BY DEF CallsOK, Ask
<1>2. CASE Leave(c)
  BY <1>2, LeaveOK DEF Ask
<1>3. CASE Become(c, [StageOf(c, "sleep") EXCEPT !.wake = now + (Unit - Refilled.tokens)])
  <2>. DEFINE q == StageOf(c, "sleep")
              r == [q EXCEPT !.wake = now + (Unit - Refilled.tokens)]
  <2>0. IsCall(q)
    BY StageChanged
  <2>1. q = [op |-> call[c].op, stage |-> "sleep", plan |-> call[c].plan, tries |-> call[c].tries,
             wake |-> call[c].wake, price |-> call[c].price, amount |-> call[c].amount]
    BY Staged
  <2>. HIDE DEF q
  <2>. DEFINE x == now + (Unit - Refilled.tokens)
  <2>. HIDE DEF x
  <2>5. [q EXCEPT !.wake = x] = [op |-> q.op, stage |-> q.stage, plan |-> q.plan, tries |-> q.tries,
             wake |-> x, price |-> q.price, amount |-> q.amount]
    BY <2>0, FieldChanged
  <2>2. r = [op |-> call[c].op, stage |-> "sleep", plan |-> call[c].plan, tries |-> call[c].tries,
             wake |-> now + (Unit - Refilled.tokens), price |-> call[c].price, amount |-> call[c].amount]
    BY <2>1, <2>5 DEF x
  <2>. HIDE DEF r
  <2>3. CallOK(r, booked[c], broker) /\ Within(r)
    BY <1>1, <2>2 DEF CallOK, Within
  <2>. QED
    BY <1>1, <1>3, <2>3, CallBecomes DEF Ask, q, r
<1>. QED
  BY <1>2, <1>3 DEF Ask

LEMMA ProceedOK ==
  ASSUME Typed, CallsOK, NEW c \in Callers, Proceed(c)
  PROVE  CallsOK'
<1>1. CallOK(call[c], booked[c], broker) /\ Within(call[c]) /\ IsCall(call[c]) /\ call[c].stage = "plan"
  BY DEF CallsOK, Typed, Proceed
<1>2. CASE call[c].plan # <<>> /\ Ask(c)
  BY <1>1, <1>2, AskOK
<1>3. ASSUME booked' = booked, UNCHANGED <<broker, market>>, call[c].plan = <<>>,
             Become(c, StageOf(c, "done"))
      PROVE  CallsOK'
  <2>1. CallOK(StageOf(c, "done"), booked[c], broker) /\ Within(StageOf(c, "done"))
    BY <1>1, <1>3, Staged DEF CallOK, Within
  <2>2. booked' = [booked EXCEPT ![c] = booked[c]]
    BY <1>3 DEF CallsOK
  <2>. QED
    BY <1>3, <2>1, <2>2, CallBecomes
<1>4. ASSUME booked' = booked, UNCHANGED <<broker, market>>, call[c].plan # <<>>,
             KindOf(c) = "markets", Become(c, [call[c] EXCEPT !.plan = Tail(@)])
      PROVE  CallsOK'
  <2>. DEFINE r == [call[c] EXCEPT !.plan = Tail(call[c].plan)]
  <2>. DEFINE x == Tail(call[c].plan)
              q == call[c]
  <2>. HIDE DEF x, q
  <2>5. [q EXCEPT !.plan = x] = [op |-> q.op, stage |-> q.stage, plan |-> x, tries |-> q.tries,
             wake |-> q.wake, price |-> q.price, amount |-> q.amount]
    BY <1>1, FieldChanged DEF q
  <2>1. r = [op |-> call[c].op, stage |-> "plan", plan |-> Tail(call[c].plan), tries |-> call[c].tries,
             wake |-> call[c].wake, price |-> call[c].price, amount |-> call[c].amount]
    BY <1>1, <2>5 DEF x, q
  <2>2. Become(c, r)
    BY <1>4
  <2>. HIDE DEF r
  <2>3. CallOK(r, booked[c], broker) /\ Within(r)
    BY <1>1, <1>4, <2>1, Plans DEF CallOK, Within, KindOf
  <2>4. booked' = [booked EXCEPT ![c] = booked[c]]
    BY <1>4 DEF CallsOK
  <2>. QED
    BY <1>4, <2>2, <2>3, <2>4, CallBecomes
<1>. QED
  BY <1>2, <1>3, <1>4 DEF Proceed

LEMMA WakeUpOK ==
  ASSUME Typed, CallsOK, NEW c \in Callers, WakeUp(c)
  PROVE  CallsOK'
<1>1. /\ call[c].stage = "sleep" /\ Leave(c) /\ UNCHANGED <<broker, market, booked>>
      /\ CallOK(call[c], booked[c], broker)
  BY DEF WakeUp, CallsOK
<1>. QED
  BY <1>1, LeaveOK DEF CallOK

LEMMA AgainOK ==
  ASSUME Typed, CallsOK, NEW c \in Callers, Again(c)
  PROVE  CallsOK'
<1>1. call[c].stage = "backoff" /\ Ask(c) /\ CallOK(call[c], booked[c], broker)
  BY DEF Again, CallsOK
<1>. QED
  BY <1>1, AskOK DEF CallOK

\* Amounts are rounded down.
LEMMA RoundedDown ==
  ASSUME NEW x \in Nat, NEW step \in Nat
  PROVE  Quant(x, step) \in Nat /\ Quant(x, step) <= x
<1>1. CASE step = 0
  BY <1>1 DEF Quant
<1>2. CASE step # 0
  <2>. DEFINE q == x \div step
  <2>1. q \in Nat
    BY <1>2
  <2>2. x = step * q + (x % step) /\ x % step \in Nat
    BY <1>2
  <2>3. q * step = step * q /\ step * q \in Nat
    BY <2>1
  <2>. QED
    BY <1>2, <2>2, <2>3 DEF Quant
<1>. QED
  BY <1>1, <1>2

LEMMA AmountFits ==
  ASSUME market \in Markets, NEW c \in Callers, NEW price \in Prices, price > 0
  PROVE  IF Buys(c) THEN Amount(c, price) * price <= 10 * Quote ELSE Amount(c, price) <= Asked
<1>1. price \in Nat \ {0} /\ Quote \in Nat /\ Asked \in Nat
  BY ExchangeConstantsOK
<1>2. \A x \in Nat : ApplyPrecision(x) \in Nat /\ ApplyPrecision(x) <= x
  <2>1. Described \in [tick : Nat, min : Nat, cost : Nat]
    BY ExchangeConstantsOK DEF Described, Nothing
  <2>. QED
    BY <2>1, RoundedDown DEF ApplyPrecision
<1>3. CASE Buys(c)
  <2>. DEFINE n == 10 * Quote
              q == n \div price
              a == ApplyPrecision(q)
  <2>1. n \in Nat
    BY <1>1
  <2>. HIDE DEF n
  <2>2. q \in Nat
    BY <1>1, <2>1
  <2>3. n = price * q + (n % price) /\ n % price \in Nat
    BY <1>1, <2>1
  <2>. HIDE DEF q
  <2>4. a \in Nat /\ a <= q
    BY <1>2, <2>2
  <2>. HIDE DEF a
  <2>5. a * price <= q * price
    BY <1>1, <2>2, <2>4
  <2>6. q * price = price * q /\ q * price \in Nat /\ a * price \in Nat
    BY <1>1, <2>2, <2>4
  <2>7. a * price <= n
    BY <2>1, <2>3, <2>5, <2>6
  <2>. QED
    BY <1>3, <2>7 DEF Amount, a, q, n
<1>4. CASE ~Buys(c)
  BY <1>1, <1>2, <1>4 DEF Amount
<1>. QED
  BY <1>3, <1>4

\* A good answer: what the call becomes is the same call, sized if it is an
\* order that waited for its price, and one request further.
LEMMA AfterAnswer ==
  ASSUME Typed, CallsOK, NEW c \in Callers, NEW price \in Prices, call[c].stage = "flight"
  PROVE  LET a == IF KindOf(c) = "ticker" THEN Sized(c, price) ELSE call[c] IN
         /\ IsCall(a) /\ Within(a)
         /\ a.op = call[c].op /\ a.plan = call[c].plan /\ a.tries = call[c].tries
         /\ a.stage \in {"flight", "failed"}
         /\ KindOf(c) # "ticker" => a = call[c]
<1>1. IsCall(call[c]) /\ Within(call[c])
  BY DEF Typed, CallsOK
<1>2. CASE KindOf(c) # "ticker" \/ call[c].op \notin Orders
  BY <1>1, <1>2 DEF Sized
<1>3. CASE KindOf(c) = "ticker" /\ call[c].op \in Orders
  <2>1. CASE ~Orderable(c, price)
    <3>1. Sized(c, price) = StageOf(c, "failed")
      BY <1>3, <2>1 DEF Sized
    <3>2. IsCall(StageOf(c, "failed"))
      BY StageChanged
    <3>. QED
      BY <1>1, <1>3, <3>1, <3>2, Staged DEF Within
  <2>2. CASE Orderable(c, price)
    <3>. DEFINE r == call[c]
                m == Amount(c, price)
                a == [r EXCEPT !.price = price, !.amount = m]
    <3>1. Sized(c, price) = a
      BY <1>3, <2>2 DEF Sized
    <3>2. IF r.op = "create_market_buy_quote" THEN m * price <= 10 * Quote ELSE m <= Asked
      BY <2>2, AmountFits DEF CallsOK, Orderable, Buys
    <3>. HIDE DEF r, m
    <3>3. IsCall(r)
      BY <1>1 DEF r
    <3>4. /\ IsCall(a)
          /\ a = [op |-> r.op, stage |-> r.stage, plan |-> r.plan,
                  tries |-> r.tries, wake |-> r.wake, price |-> price, amount |-> m]
      BY <3>3, CallChangedTwice, FieldsChanged
    <3>. HIDE DEF a
    <3>5. Within(a)
      BY <3>2, <3>4 DEF Within
    <3>. QED
      BY <1>3, <3>1, <3>4, <3>5 DEF r
  <2>. QED
    BY <2>1, <2>2
<1>. QED
  BY <1>2, <1>3

LEMMA AnsweredOK ==
  ASSUME Typed, CallsOK, NEW c \in Callers, NEW filled \in BOOLEAN, NEW price \in Prices,
         Answered(c, filled, price)
  PROVE  CallsOK'
<1>. DEFINE a == IF KindOf(c) = "ticker" THEN Sized(c, price) ELSE call[c]
            s == IF a.stage = "failed" THEN "failed" ELSE "plan"
            r == [a EXCEPT !.stage = s, !.plan = Tail(a.plan)]
<1>1. /\ call[c].stage = "flight" /\ Become(c, r) /\ UNCHANGED <<broker, market>>
      /\ IF broker = "ccxt" /\ KindOf(c) = "create" THEN Book(c) ELSE UNCHANGED booked
  BY DEF Answered
<1>2. /\ IsCall(a) /\ Within(a)
      /\ a.op = call[c].op /\ a.plan = call[c].plan /\ a.tries = call[c].tries
      /\ a.stage \in {"flight", "failed"} /\ (KindOf(c) # "ticker" => a = call[c])
  BY <1>1, AfterAnswer
<1>. HIDE DEF a
<1>3. s \in {"plan", "failed"}
  OBVIOUS
<1>. HIDE DEF s
<1>4. r = [op |-> a.op, stage |-> s, plan |-> Tail(a.plan), tries |-> a.tries,
           wake |-> a.wake, price |-> a.price, amount |-> a.amount]
  <2>. DEFINE y == Tail(a.plan)
  <2>. HIDE DEF y
  <2>1. [a EXCEPT !.stage = s, !.plan = y] =
          [op |-> a.op, stage |-> s, plan |-> y, tries |-> a.tries,
           wake |-> a.wake, price |-> a.price, amount |-> a.amount]
    <3>. DEFINE q == [a EXCEPT !.stage = s]
    <3>1. [a EXCEPT !.stage = s, !.plan = y] = [q EXCEPT !.plan = y]
      OBVIOUS
    <3>2. IsCall(a)
      BY <1>2
    <3>3. IsCall(q)
      BY <3>2, CallChanged
    <3>4. q = [op |-> a.op, stage |-> s, plan |-> a.plan, tries |-> a.tries,
               wake |-> a.wake, price |-> a.price, amount |-> a.amount]
      BY <3>2, FieldChanged
    <3>. HIDE DEF q
    <3>5. [q EXCEPT !.plan = y] = [op |-> q.op, stage |-> q.stage, plan |-> y, tries |-> q.tries,
               wake |-> q.wake, price |-> q.price, amount |-> q.amount]
      BY <3>3, FieldChanged
    <3>. QED
      BY <3>1, <3>4, <3>5
  <2>. QED
    BY <2>1 DEF y
<1>. HIDE DEF r
<1>5. Within(r)
  BY <1>2, <1>4 DEF Within
<1>6. CallOK(call[c], booked[c], broker) /\ call[c].plan # <<>>
  BY <1>1 DEF CallsOK, CallOK
<1>7. CASE broker = "ccxt" /\ KindOf(c) = "create"
  <2>1. booked' = [booked EXCEPT ![c] = booked[c] + 1] /\ ~(call[c].op \in Named /\ booked[c] > 0)
    BY <1>1, <1>7 DEF Book
  <2>2. call[c].op \in Orders /\ Tail(call[c].plan) = <<>> /\ Tail(call[c].plan) \in OrderPlans
    BY <1>6, <1>7, Plans DEF CallOK, KindOf
  <2>3. booked[c] + 1 \in 0..Attempts /\ booked[c] + 1 > 0 /\ (call[c].op \in Named => booked[c] + 1 <= 1)
    BY <1>1, <1>6, <2>1, ExchangeConstantsOK DEF CallOK
  <2>4. CallOK(r, booked[c] + 1, broker)
    BY <1>2, <1>3, <1>4, <1>6, <2>2, <2>3 DEF CallOK
  <2>. QED
    BY <1>1, <1>5, <2>1, <2>4, CallBecomes
<1>8. CASE ~(broker = "ccxt" /\ KindOf(c) = "create")
  <2>1. booked' = [booked EXCEPT ![c] = booked[c]]
    BY <1>1, <1>8 DEF CallsOK
  <2>2. /\ Tail(call[c].plan) \in IF call[c].op \in Orders THEN OrderPlans ELSE OtherPlans
        /\ call[c].op \in Orders => Tail(call[c].plan) # <<>>
    BY <1>6, <1>8, Plans DEF CallOK, KindOf
  <2>3. CallOK(r, booked[c], broker)
    BY <1>1, <1>2, <1>3, <1>4, <1>6, <2>2 DEF CallOK
  <2>. QED
    BY <1>1, <1>5, <2>1, <2>3, CallBecomes
<1>. QED
  BY <1>7, <1>8

\* A bad answer or none.
LEMMA FailedOK ==
  ASSUME Typed, CallsOK, NEW c \in Callers, Failed(c)
  PROVE  CallsOK'
<1>1. /\ call[c].stage = "flight" /\ Become(c, AfterFailure(c)) /\ UNCHANGED <<broker, market>>
      /\ Book(c) \/ UNCHANGED booked
  BY DEF Failed
<1>2. CallOK(call[c], booked[c], broker) /\ call[c].plan # <<>> /\ booked[c] <= call[c].tries
  BY <1>1 DEF CallsOK, CallOK
<1>3. CASE Book(c)
  <2>1. /\ booked' = [booked EXCEPT ![c] = booked[c] + 1] /\ ~(call[c].op \in Named /\ booked[c] > 0)
        /\ broker = "ccxt"
    BY <1>3 DEF Book
  <2>2. /\ booked[c] + 1 \in 0..Attempts /\ booked[c] + 1 <= call[c].tries + 1
        /\ call[c].op \in Named => booked[c] + 1 <= 1
    BY <1>2, <2>1, ExchangeConstantsOK DEF CallOK
  <2>3. CallOK(AfterFailure(c), booked[c] + 1, broker) /\ Within(AfterFailure(c))
    BY <1>1, <1>2, <2>1, <2>2, FailureOK
  <2>. QED
    BY <1>1, <2>1, <2>3, CallBecomes
<1>4. CASE UNCHANGED booked
  <2>1. booked' = [booked EXCEPT ![c] = booked[c]]
    BY <1>4 DEF CallsOK
  <2>2. /\ booked[c] \in 0..Attempts /\ booked[c] <= call[c].tries + 1
        /\ call[c].op \in Named => booked[c] <= 1
        /\ broker # "ccxt" => booked[c] = 0
    BY <1>2, ExchangeConstantsOK DEF CallOK
  <2>3. CallOK(AfterFailure(c), booked[c], broker) /\ Within(AfterFailure(c))
    BY <1>1, <1>2, <2>2, FailureOK
  <2>. QED
    BY <1>1, <2>1, <2>3, CallBecomes
<1>. QED
  BY <1>1, <1>3, <1>4

\* A call begins with nothing at the exchange.
LEMMA OpenedFields ==
  ASSUME NEW op, NEW stage, NEW plan
  PROVE  /\ Opened(op, stage, plan) = [op |-> op, stage |-> stage, plan |-> plan,
              tries |-> 0, wake |-> 0, price |-> 0, amount |-> 0]
         /\ OpenedBase(op, plan, stage) = Opened(op, stage, plan)
<1>. DEFINE n == [op |-> op, stage |-> "idle", plan |-> <<>>, tries |-> 0, wake |-> 0, price |-> 0, amount |-> 0]
            p == [op |-> op, stage |-> "idle", plan |-> plan, tries |-> 0, wake |-> 0, price |-> 0, amount |-> 0]
<1>1. /\ Opened(op, stage, plan) = [[Idle EXCEPT !.op = op] EXCEPT !.stage = stage, !.plan = plan]
      /\ OpenedBase(op, plan, stage) = [[[Idle EXCEPT !.op = op] EXCEPT !.plan = plan] EXCEPT !.stage = stage]
  BY DEF Opened, OpenedBase
<1>2. [Idle EXCEPT !.op = op] = n
  BY DEF Idle
<1>4. [n EXCEPT !.plan = plan] = p
  OBVIOUS
<1>5. [p EXCEPT !.stage = stage] =
        [op |-> op, stage |-> stage, plan |-> plan, tries |-> 0, wake |-> 0, price |-> 0, amount |-> 0]
  OBVIOUS
<1>6. [n EXCEPT !.stage = stage, !.plan = plan] = [[n EXCEPT !.plan = plan] EXCEPT !.stage = stage]
  OBVIOUS
<1>. HIDE DEF n, p
<1>. QED
  BY <1>1, <1>2, <1>4, <1>5, <1>6

LEMMA CalledOK ==
  ASSUME Typed, CallsOK, NEW c \in Callers,
         \/ \E op \in Operations : Call(c, op)
         \/ \E valid \in BOOLEAN : CallBase(c, valid)
  PROVE  CallsOK'
<1>0. UNCHANGED <<broker, market>>
  BY DEF Call, CallBase
<1>1. ASSUME NEW op \in Operations, Call(c, op) PROVE CallsOK'
  <2>. DEFINE r == Opened(op, "plan", Requests[op])
  <2>1. Become(c, r) /\ broker = "ccxt"
    BY <1>1 DEF Call, Opened
  <2>2. r = [op |-> op, stage |-> "plan", plan |-> Requests[op], tries |-> 0, wake |-> 0, price |-> 0, amount |-> 0]
    BY OpenedFields
  <2>. HIDE DEF r
  <2>3. 0 \in 0..Attempts /\ 0 \in 0..(Attempts - 1) /\ Quote \in Nat /\ Asked \in Nat
    BY ExchangeConstantsOK
  <2>4. Requests[op] # <<>> /\ Requests[op] \in IF op \in Orders THEN OrderPlans ELSE OtherPlans
    BY RequestPlans
  <2>5. CallOK(r, 0, broker) /\ Within(r)
    BY <2>1, <2>2, <2>3, <2>4 DEF CallOK, Within
  <2>6. booked' = [booked EXCEPT ![c] = 0]
    BY <1>1 DEF Call
  <2>. QED
    BY <1>0, <2>1, <2>5, <2>6, CallBecomes
<1>2. ASSUME NEW valid \in BOOLEAN, CallBase(c, valid) PROVE CallsOK'
  <2>. DEFINE s == IF valid THEN "plan" ELSE "failed"
              r == OpenedBase("base", <<"order">>, s)
  <2>1. Become(c, r) /\ booked[c] = 0 /\ booked' = [booked EXCEPT ![c] = booked[c]]
    BY <1>2 DEF CallsOK, CallOK, CallBase, OpenedBase
  <2>2. s \in {"plan", "failed"}
    OBVIOUS
  <2>. HIDE DEF s
  <2>3. r = [op |-> "base", stage |-> s, plan |-> <<"order">>, tries |-> 0, wake |-> 0, price |-> 0, amount |-> 0]
    BY OpenedFields
  <2>. HIDE DEF r
  <2>4. <<"order">> \in OtherPlans /\ <<"order">> # <<>> /\ "base" \notin Orders
    BY DEF OtherPlans, Orders
  <2>5. CallOK(r, booked[c], broker) /\ Within(r)
    BY <2>1, <2>2, <2>3, <2>4, ExchangeConstantsOK DEF CallOK, Within
  <2>. QED
    BY <1>0, <2>1, <2>5, CallBecomes
<1>. QED
  BY <1>1, <1>2

LEMMA InitOK == ExchangeInit => CallsOK
<1>1. <<>> \in OtherPlans /\ "none" \notin Orders
  BY DEF OtherPlans, Orders
<1>. QED
  BY <1>1, ExchangeConstantsOK DEF ExchangeInit, CallsOK, CallOK, Within, Idle

LEMMA NextOK ==
  ASSUME Typed, CallsOK, [ExchangeNext]_exchangeVars
  PROVE  CallsOK'
<1>1. CASE Pass \/ UNCHANGED exchangeVars
  BY <1>1 DEF Pass, exchangeVars, CallsOK
<1>. QED
  BY <1>1, CalledOK, ProceedOK, WakeUpOK, AgainOK, AnsweredOK, FailedOK DEF ExchangeNext
-----------------------------------------------------------------------------
\* The token buckets of base.py and ccxt_adapter.py bound the requests although
\* a caller that slept takes no token.
THEOREM RequestsAreBounded == ExchangeSpec => []RequestsBounded
BY InitInv, NextInv, PaidIsBounded, PTL DEF ExchangeSpec

\* An order is at the exchange once under a client order id, and at most once
\* per attempt without; one that was reported as made is there; and it costs or
\* sells no more than was asked for, whatever the steps, prices and limits of
\* the market (ccxt_adapter.py:188-324).
THEOREM OrdersHold == ExchangeSpec => []OrdersAsAsked
<1>1. IInv => Typed
  BY DEF IInv
<1>2. CallsOK => OrdersAsAsked
  BY DEF CallsOK, CallOK, Within, OrdersAsAsked, Buys
<1>. QED
  BY <1>1, <1>2, InitInv, NextInv, InitOK, NextOK, PTL DEF ExchangeSpec

-----------------------------------------------------------------------------
(* Quotes.  What was given up on its way is not older than a request takes *)
(* and the broker keeps it; the store holds one entry of a symbol, in the  *)
(* order they came in unless use moves them.                               *)
Entries == [symbol : Symbols, made : Int, since : Int]
ReaderStages == {"idle", "asking", "made", "served"}
ReaderRecords == [stage : ReaderStages, symbol : Symbols \cup {"none"},
                  via : {"none", "broker", "market"}, asked : Int, made : Int]
OnItsWay == Flight + (BrokerTtl - 1)

StoreOK(q) ==
  /\ q \in Seq(Entries) /\ Len(q) <= StoreSize
  /\ \A i \in 1..Len(q) : q[i].since <= clock /\ q[i].since - q[i].made <= OnItsWay
  /\ \A i, j \in 1..Len(q) : q[i].symbol = q[j].symbol => i = j
  /\ kind # "lru" => \A i, j \in 1..Len(q) : i < j => q[i].since <= q[j].since

KeptOK(k) == k # None => k.since <= clock /\ k.since - k.made <= Flight

Allowed(via) == OnItsWay + (CASE via = "broker" -> 0
                              [] via # "broker" /\ kind = "market" -> StoreTtl - 1
                              [] OTHER -> StoreTtl)

ReaderOK(x) ==
  /\ x.stage \in {"asking", "made"} => x.symbol \in Symbols /\ x.asked <= clock /\ clock - x.asked <= Flight
  /\ x.stage = "made" => x.asked <= x.made
  /\ x.stage = "served" => clock - x.made <= Allowed(x.via)

QuotesTyped ==
  /\ clock \in Nat /\ kind \in {"market", "ttl", "lru"}
  /\ kept \in [Symbols -> [made : Int, since : Int]]
  /\ reader \in [Readers -> ReaderRecords]

QuotesInv ==
  /\ QuotesTyped /\ StoreOK(store)
  /\ \A s \in Symbols : KeptOK(kept[s])
  /\ \A r \in Readers : ReaderOK(reader[r])

\* A part of a store, in the order of the store.
PartOf(p, q) == \E f \in [1..Len(p) -> 1..Len(q)] :
  /\ \A i \in 1..Len(p) : p[i] = q[f[i]]
  /\ \A i, j \in 1..Len(p) : i < j => f[i] < f[j]

LEMMA PartOfStore ==
  ASSUME NEW q, StoreOK(q), NEW p \in Seq(Entries), Len(p) <= Len(q), PartOf(p, q)
  PROVE  StoreOK(p)
<1>0. PICK f \in [1..Len(p) -> 1..Len(q)] :
        /\ \A i \in 1..Len(p) : p[i] = q[f[i]]
        /\ \A i, j \in 1..Len(p) : i < j => f[i] < f[j]
  BY DEF PartOf
<1>1. Len(p) \in Nat /\ Len(q) \in Nat /\ Len(p) <= StoreSize
  BY TtlsPositive DEF StoreOK
<1>2. \A i \in 1..Len(p) : p[i].since <= clock /\ p[i].since - p[i].made <= OnItsWay
  BY <1>0 DEF StoreOK
<1>3. ASSUME NEW i \in 1..Len(p), NEW j \in 1..Len(p), p[i].symbol = p[j].symbol PROVE i = j
  <2>0. f[i] \in 1..Len(q) /\ f[j] \in 1..Len(q) /\ q[f[i]].symbol = q[f[j]].symbol
    BY <1>0, <1>3
  <2>1. f[i] = f[j]
    BY <2>0 DEF StoreOK
  <2>2. f[i] \in Int /\ f[j] \in Int /\ (i < j => f[i] < f[j]) /\ (j < i => f[j] < f[i])
    BY <1>0, <1>1
  <2>. QED
    BY <1>1, <2>1, <2>2
<1>4. kind # "lru" => \A i, j \in 1..Len(p) : i < j => p[i].since <= p[j].since
  BY <1>0 DEF StoreOK
<1>. QED
  BY <1>1, <1>2, <1>3, <1>4 DEF StoreOK

LEMMA TailOfStore ==
  ASSUME NEW q, StoreOK(q), Len(q) > 0
  PROVE  StoreOK(Tail(q)) /\ Len(Tail(q)) = Len(q) - 1
<1>1. q \in Seq(Entries) /\ q # <<>> /\ Len(q) \in Nat
  BY DEF StoreOK
<1>2. /\ Tail(q) \in Seq(Entries) /\ Len(Tail(q)) = Len(q) - 1
      /\ \A i \in 1..Len(Tail(q)) : Tail(q)[i] = q[i + 1]
  BY <1>1, HeadTailProperties
<1>. DEFINE p == Tail(q)
            f == [i \in 1..Len(p) |-> i + 1]
<1>. HIDE DEF p
<1>3. /\ f \in [1..Len(p) -> 1..Len(q)]
      /\ \A i \in 1..Len(p) : p[i] = q[f[i]]
      /\ \A i, j \in 1..Len(p) : i < j => f[i] < f[j]
  BY <1>1, <1>2 DEF p
<1>. HIDE DEF f
<1>4. PartOf(p, q)
  BY <1>3 DEF PartOf
<1>5. p \in Seq(Entries) /\ Len(p) = Len(q) - 1 /\ Len(p) <= Len(q)
  BY <1>1, <1>2 DEF p
<1>6. StoreOK(p)
  BY <1>4, <1>5, PartOfStore
<1>. QED
  BY <1>5, <1>6 DEF p

LEMMA EndOfStore ==
  ASSUME NEW q, StoreOK(q), NEW n \in 0..Len(q)
  PROVE  StoreOK(SubSeq(q, n + 1, Len(q)))
<1>1. q \in Seq(Entries) /\ Len(q) \in Nat /\ \A i \in (n + 1)..Len(q) : q[i] \in Entries
  BY DEF StoreOK
<1>. DEFINE p == SubSeq(q, n + 1, Len(q))
            f == [i \in 1..Len(p) |-> n + i]
<1>2. /\ p \in Seq(Entries) /\ Len(p) = (IF n + 1 <= Len(q) THEN Len(q) - (n + 1) + 1 ELSE 0)
      /\ \A i \in 1..(Len(q) - (n + 1) + 1) : p[i] = q[(n + 1) + i - 1]
  <2>1. n + 1 \in Int /\ Len(q) \in Int
    BY <1>1
  <2>. QED
    BY <1>1, <2>1, SubSeqProperties
<1>. HIDE DEF p
<1>3. /\ f \in [1..Len(p) -> 1..Len(q)]
      /\ \A i \in 1..Len(p) : p[i] = q[f[i]]
      /\ \A i, j \in 1..Len(p) : i < j => f[i] < f[j]
  <2>1. Len(p) = Len(q) - n /\ \A i \in 1..(Len(q) - n) : p[i] = q[n + i]
    BY <1>1, <1>2
  <2>2. n \in Nat /\ \A i \in 1..Len(p) : n + i \in 1..Len(q) /\ f[i] = n + i
    BY <1>1, <2>1
  <2>3. f \in [1..Len(p) -> 1..Len(q)]
    BY <2>2
  <2>4. \A i \in 1..Len(p) : p[i] = q[f[i]]
    BY <2>1, <2>2
  <2>. QED
    BY <1>1, <2>2, <2>3, <2>4
<1>4. Len(p) <= Len(q)
  BY <1>1, <1>2
<1>. HIDE DEF f
<1>5. PartOf(p, q)
  BY <1>3 DEF PartOf
<1>. QED
  BY <1>2, <1>4, <1>5, PartOfStore DEF p

LEMMA StoreWithout ==
  ASSUME NEW q, StoreOK(q), NEW k \in 1..Len(q)
  PROVE  /\ StoreOK(RemoveAt(q, k)) /\ Len(RemoveAt(q, k)) = Len(q) - 1
         /\ \A i \in 1..Len(RemoveAt(q, k)) : RemoveAt(q, k)[i] = q[IF i < k THEN i ELSE i + 1]
<1>1. q \in Seq(Entries) /\ Len(q) \in Nat /\ k \in Nat /\ 1 <= k /\ k <= Len(q)
  BY DEF StoreOK
<1>. DEFINE a == SubSeq(q, 1, k - 1)
            b == SubSeq(q, k + 1, Len(q))
            p == RemoveAt(q, k)
            f == [i \in 1..Len(p) |-> IF i < k THEN i ELSE i + 1]
<1>2. /\ a \in Seq(Entries) /\ Len(a) = k - 1
      /\ \A i \in 1..(k - 1) : a[i] = q[i]
  <2>1. 1 \in Int /\ k - 1 \in Int /\ \A i \in 1..(k - 1) : q[i] \in Entries
    BY <1>1
  <2>2. /\ a \in Seq(Entries) /\ Len(a) = (IF 1 <= k - 1 THEN k - 1 - 1 + 1 ELSE 0)
        /\ \A i \in 1..(k - 1 - 1 + 1) : a[i] = q[1 + i - 1]
    BY <2>1, SubSeqProperties
  <2>. HIDE DEF a
  <2>. QED
    BY <1>1, <2>2
<1>3. /\ b \in Seq(Entries) /\ Len(b) = Len(q) - k
      /\ \A i \in 1..(Len(q) - k) : b[i] = q[k + i]
  <2>1. k + 1 \in Int /\ Len(q) \in Int /\ \A i \in (k + 1)..Len(q) : q[i] \in Entries
    BY <1>1
  <2>2. /\ b \in Seq(Entries) /\ Len(b) = (IF k + 1 <= Len(q) THEN Len(q) - (k + 1) + 1 ELSE 0)
        /\ \A i \in 1..(Len(q) - (k + 1) + 1) : b[i] = q[(k + 1) + i - 1]
    BY <2>1, SubSeqProperties
  <2>. HIDE DEF b
  <2>. QED
    BY <1>1, <2>2
<1>4. p = a \o b
  BY DEF RemoveAt
<1>. HIDE DEF a, b, p
<1>5. /\ p \in Seq(Entries) /\ Len(p) = Len(a) + Len(b)
      /\ \A i \in 1..(Len(a) + Len(b)) : p[i] = IF i <= Len(a) THEN a[i] ELSE b[i - Len(a)]
  BY <1>2, <1>3, <1>4, ConcatProperties
<1>6. Len(p) = Len(q) - 1
  BY <1>1, <1>2, <1>3, <1>5
<1>7. \A i \in 1..Len(p) : p[i] = q[IF i < k THEN i ELSE i + 1]
  <2>. SUFFICES ASSUME NEW i \in 1..Len(p) PROVE p[i] = q[IF i < k THEN i ELSE i + 1]
    OBVIOUS
  <2>1. CASE i < k
    BY <1>1, <1>2, <1>3, <1>5, <2>1
  <2>2. CASE ~(i < k)
    <3>1. i - Len(a) \in 1..(Len(q) - k) /\ ~(i <= Len(a)) /\ k + (i - Len(a)) = i + 1
      BY <1>1, <1>2, <1>3, <1>5, <2>2
    <3>. QED
      BY <1>3, <1>5, <2>2, <3>1
  <2>. QED
    BY <2>1, <2>2
<1>8. /\ f \in [1..Len(p) -> 1..Len(q)]
      /\ \A i \in 1..Len(p) : p[i] = q[f[i]]
      /\ \A i, j \in 1..Len(p) : i < j => f[i] < f[j]
  BY <1>1, <1>6, <1>7
<1>9. Len(p) <= Len(q)
  BY <1>1, <1>6
<1>. HIDE DEF f
<1>10. PartOf(p, q)
  BY <1>8 DEF PartOf
<1>11. StoreOK(p)
  BY <1>5, <1>9, <1>10, PartOfStore
<1>. QED
  BY <1>6, <1>7, <1>11 DEF p

\* What is left of a store without a symbol.
LEMMA DroppedOK ==
  ASSUME NEW q, StoreOK(q), NEW s \in Symbols
  PROVE  /\ StoreOK(Dropped(q, s)) /\ Of(Dropped(q, s), s) = {}
         /\ Len(Dropped(q, s)) <= Len(q) /\ (Of(q, s) # {} => Len(Dropped(q, s)) < Len(q))
<1>1. q \in Seq(Entries) /\ Len(q) \in Nat /\ DOMAIN q = 1..Len(q)
  BY DEF StoreOK
<1>2. CASE Of(q, s) = {}
  BY <1>1, <1>2 DEF Dropped
<1>3. CASE Of(q, s) # {}
  <2>. DEFINE k == CHOOSE i \in Of(q, s) : TRUE
              p == RemoveAt(q, k)
  <2>1. k \in Of(q, s)
    BY <1>3
  <2>2. k \in 1..Len(q) /\ q[k].symbol = s /\ Dropped(q, s) = p
    BY <1>1, <1>3, <2>1 DEF Of, Dropped
  <2>. HIDE DEF k
  <2>3. StoreOK(p) /\ Len(p) = Len(q) - 1 /\ \A i \in 1..Len(p) : p[i] = q[IF i < k THEN i ELSE i + 1]
    BY <2>2, StoreWithout
  <2>. HIDE DEF p
  <2>4. DOMAIN p = 1..Len(p)
    BY <2>3 DEF StoreOK
  <2>5. ASSUME NEW i \in 1..Len(p), p[i].symbol = s PROVE FALSE
    <3>. DEFINE j == IF i < k THEN i ELSE i + 1
    <3>1. j \in 1..Len(q) /\ j # k /\ p[i] = q[j]
      BY <1>1, <2>2, <2>3
    <3>. HIDE DEF j
    <3>. QED
      BY <2>2, <2>5, <3>1 DEF StoreOK
  <2>6. Of(p, s) = {}
    BY <2>4, <2>5 DEF Of
  <2>. QED
    BY <1>1, <1>3, <2>2, <2>3, <2>6
<1>. QED
  BY <1>2, <1>3

\* A store with room and without the symbol takes one more.
LEMMA AppendOK ==
  ASSUME NEW q, StoreOK(q), NEW e \in Entries, Of(q, e.symbol) = {}, Len(q) < StoreSize,
         e.since <= clock, e.since - e.made <= OnItsWay, e.since = clock \/ kind = "lru"
  PROVE  StoreOK(Append(q, e))
<1>. DEFINE p == Append(q, e)
<1>1. /\ q \in Seq(Entries) /\ Len(q) \in Nat /\ DOMAIN q = 1..Len(q)
      /\ p \in Seq(Entries) /\ Len(p) = Len(q) + 1 /\ p[Len(q) + 1] = e
      /\ \A i \in 1..Len(q) : p[i] = q[i] /\ q[i] \in Entries
  BY DEF StoreOK
<1>. HIDE DEF p
<1>2. Len(p) <= StoreSize
  BY <1>1, TtlsPositive
<1>3. \A i \in 1..Len(p) : i \in 1..Len(q) \/ i = Len(q) + 1
  BY <1>1
<1>4. \A i \in 1..Len(p) : p[i].since <= clock /\ p[i].since - p[i].made <= OnItsWay
  BY <1>1, <1>3 DEF StoreOK
<1>5. \A i \in 1..Len(q) : q[i].symbol # e.symbol
  BY <1>1 DEF Of
<1>6. \A i, j \in 1..Len(p) : p[i].symbol = p[j].symbol => i = j
  BY <1>1, <1>3, <1>5 DEF StoreOK
<1>7. ASSUME kind # "lru", NEW i \in 1..Len(p), NEW j \in 1..Len(p), i < j PROVE p[i].since <= p[j].since
  <2>1. i \in 1..Len(q)
    BY <1>1, <1>7
  <2>2. CASE j \in 1..Len(q)
    BY <1>1, <1>7, <2>1, <2>2 DEF StoreOK
  <2>3. CASE j = Len(q) + 1
    BY <1>1, <1>7, <2>1, <2>3 DEF StoreOK
  <2>. QED
    BY <1>3, <2>2, <2>3
<1>. QED
  BY <1>1, <1>2, <1>4, <1>6, <1>7 DEF StoreOK, p

LEMMA PutOK ==
  ASSUME QuotesInv, NEW s \in Symbols, NEW made \in Int, clock - made <= OnItsWay
  PROVE  StoreOK(Put(s, made))
<1>. DEFINE full == Len(store) >= StoreSize /\ (kind = "market" \/ ~Has(s))
            room == CASE kind = "lru" /\ full -> Tail(store)
                      [] kind # "lru" /\ full -> RemoveAt(store, Oldest)
                      [] OTHER -> store
            e == [symbol |-> s, made |-> made, since |-> clock]
<1>1. /\ StoreOK(store) /\ Len(store) \in Nat /\ DOMAIN store = 1..Len(store)
      /\ \A i \in 1..Len(store) : store[i] \in Entries
      /\ clock \in Nat /\ StoreSize \in Nat \ {0} /\ Len(store) <= StoreSize
  BY TtlsPositive DEF QuotesInv, QuotesTyped, StoreOK
<1>2. CASE full
  <2>1. StoreOK(room) /\ Len(room) < StoreSize
    <3>0. (kind = "lru" => room = Tail(store)) /\ (kind # "lru" => room = RemoveAt(store, Oldest))
      BY <1>2
    <3>. HIDE DEF room
    <3>1. CASE kind = "lru"
      <4>. DEFINE t == Tail(store)
      <4>1. Len(store) > 0
        BY <1>1, <1>2
      <4>2. StoreOK(t) /\ Len(t) = Len(store) - 1 /\ room = t
        BY <1>1, <3>0, <3>1, <4>1, TailOfStore
      <4>. HIDE DEF t
      <4>. QED
        BY <1>1, <4>2
    <3>2. CASE kind # "lru"
      <4>2. Oldest \in 1..Len(store)
        <5>1. \A i, j \in 1..Len(store) : i < j => store[i].since <= store[j].since
          BY <1>1, <3>2 DEF StoreOK
        <5>2. 1 \in 1..Len(store)
          BY <1>1, <1>2
        <5>3. \A j \in 1..Len(store) : store[1].since <= store[j].since
          BY <1>1, <5>1, <5>2 DEF Entries
        <5>4. \E i \in DOMAIN store : \A j \in DOMAIN store : store[i].since <= store[j].since
          BY <1>1, <5>2, <5>3
        <5>5. Oldest \in DOMAIN store
          BY Zenon, <5>4 DEF Oldest
        <5>. QED
          BY <1>1, <5>5
      <4>3. StoreOK(RemoveAt(store, Oldest)) /\ Len(RemoveAt(store, Oldest)) = Len(store) - 1
        BY <1>1, <4>2, StoreWithout
      <4>. QED
        BY <1>1, <3>0, <3>2, <4>3
    <3>. QED
      BY <3>1, <3>2
  <2>. HIDE DEF room
  <2>2. StoreOK(Dropped(room, s)) /\ Of(Dropped(room, s), s) = {} /\ Len(Dropped(room, s)) <= Len(room)
    BY <2>1, DroppedOK
  <2>3. Len(Dropped(room, s)) < StoreSize
    BY <1>1, <2>1, <2>2 DEF StoreOK
  <2>4. StoreOK(Append(Dropped(room, s), e))
    <3>1. e \in Entries /\ e.symbol = s /\ e.since = clock /\ e.made = made
      BY <1>1 DEF Entries
    <3>. HIDE DEF e
    <3>. QED
      BY <1>1, <2>2, <2>3, <3>1, AppendOK
  <2>. QED
    BY <2>4 DEF Put, room
<1>3. CASE ~full
  <2>1. room = store
    BY <1>3
  <2>2. /\ StoreOK(Dropped(store, s)) /\ Of(Dropped(store, s), s) = {}
        /\ Len(Dropped(store, s)) < StoreSize
    <3>1. Len(store) < StoreSize \/ Has(s)
      BY <1>1, <1>3
    <3>2. /\ StoreOK(Dropped(store, s)) /\ Of(Dropped(store, s), s) = {}
          /\ Len(Dropped(store, s)) <= Len(store)
          /\ (Has(s) => Len(Dropped(store, s)) < Len(store))
      BY <1>1, DroppedOK DEF Has
    <3>. QED
      BY <1>1, <3>1, <3>2 DEF StoreOK
  <2>3. StoreOK(Append(Dropped(store, s), e))
    <3>1. e \in Entries /\ e.symbol = s /\ e.since = clock /\ e.made = made
      BY <1>1 DEF Entries
    <3>. HIDE DEF e
    <3>. QED
      BY <1>1, <2>2, <3>1, AppendOK
  <2>4. Put(s, made) = Append(Dropped(room, s), e)
    BY DEF Put
  <2>. QED
    BY <2>1, <2>3, <2>4
<1>. QED
  BY <1>2, <1>3

\* The entry of a symbol that is there.
LEMMA EntryIs ==
  ASSUME QuotesInv, NEW s \in Symbols, Has(s)
  PROVE  /\ Entry(s) \in Entries /\ Entry(s).symbol = s
         /\ Entry(s).since <= clock /\ Entry(s).since - Entry(s).made <= OnItsWay
<1>1. StoreOK(store) /\ DOMAIN store = 1..Len(store) /\ \A i \in 1..Len(store) : store[i] \in Entries
  BY DEF QuotesInv, StoreOK
<1>. DEFINE k == CHOOSE i \in Of(store, s) : TRUE
<1>2. k \in Of(store, s)
  BY DEF Has
<1>3. Entry(s) = store[k]
  BY DEF Entry
<1>. HIDE DEF k
<1>. QED
  BY <1>1, <1>2, <1>3 DEF Of, StoreOK

LEMMA LookedUpOK ==
  ASSUME QuotesInv, NEW s \in Symbols
  PROVE  StoreOK(LookedUp(s))
<1>1. StoreOK(store) /\ clock \in Nat
  BY DEF QuotesInv, QuotesTyped
<1>2. /\ StoreOK(Without(s)) /\ Of(Without(s), s) = {}
      /\ (Has(s) => Len(Without(s)) < Len(store))
  BY <1>1, DroppedOK DEF Without, Has
<1>3. CASE Has(s) /\ ~Alive(Entry(s))
  <2>1. LookedUp(s) = Without(s)
    BY <1>3 DEF LookedUp, Hit
  <2>. QED
    BY <1>2, <2>1
<1>4. CASE Hit(s) /\ kind = "lru"
  <2>1. Has(s) /\ LookedUp(s) = Append(Without(s), Entry(s))
    BY <1>4 DEF LookedUp, Hit
  <2>2. Len(Without(s)) < StoreSize
    BY <1>1, <1>2, <2>1, TtlsPositive DEF StoreOK
  <2>3. /\ Entry(s) \in Entries /\ Entry(s).symbol = s
        /\ Entry(s).since <= clock /\ Entry(s).since - Entry(s).made <= OnItsWay
    BY <2>1, EntryIs
  <2>. QED
    BY <1>2, <1>4, <2>1, <2>2, <2>3, AppendOK
<1>5. CASE ~(Has(s) /\ ~Alive(Entry(s))) /\ ~(Hit(s) /\ kind = "lru")
  BY <1>1, <1>5 DEF LookedUp
<1>. QED
  BY <1>3, <1>4, <1>5

\* What is given from the store or by the broker is young enough.
LEMMA HitAllowed ==
  ASSUME QuotesInv, NEW s \in Symbols, Hit(s)
  PROVE  Entry(s).made \in Int /\ clock - Entry(s).made <= Allowed("market")
<1>1. Has(s) /\ Alive(Entry(s)) /\ clock \in Nat /\ kind \in {"market", "ttl", "lru"}
  BY DEF Hit, QuotesInv, QuotesTyped
<1>2. /\ Entry(s).made \in Int /\ Entry(s).since \in Int /\ OnItsWay \in Int
      /\ Entry(s).since - Entry(s).made <= OnItsWay
  BY <1>1, EntryIs, TtlsPositive DEF Entries, OnItsWay
<1>3. CASE kind = "market"
  <2>1. clock - Entry(s).since < StoreTtl /\ Allowed("market") = OnItsWay + (StoreTtl - 1)
    BY <1>1, <1>3 DEF Alive, Allowed
  <2>. QED
    BY <1>1, <1>2, <2>1, TtlsPositive
<1>4. CASE kind # "market"
  <2>1. clock - Entry(s).since <= StoreTtl /\ Allowed("market") = OnItsWay + StoreTtl
    BY <1>1, <1>4 DEF Alive, Allowed
  <2>. QED
    BY <1>1, <1>2, <2>1, TtlsPositive
<1>. QED
  BY <1>3, <1>4

LEMMA AllowedIs ==
  /\ OnItsWay \in Nat /\ Flight <= OnItsWay
  /\ \A via : OnItsWay <= Allowed(via)
<1>1. OnItsWay \in Nat /\ Flight <= OnItsWay
  BY TtlsPositive DEF OnItsWay
<1>2. ASSUME NEW via PROVE OnItsWay <= Allowed(via)
  <2>1. Allowed(via) \in {OnItsWay + 0, OnItsWay + (StoreTtl - 1), OnItsWay + StoreTtl}
    BY DEF Allowed
  <2>. QED
    BY <1>1, <2>1, TtlsPositive
<1>. QED
  BY <1>1, <1>2

LEMMA KeptFreshAllowed ==
  ASSUME QuotesInv, NEW s \in Symbols, KeptFresh(s)
  PROVE  kept[s].made \in Int /\ clock - kept[s].made <= OnItsWay
<1>1. /\ kept[s] \in [made : Int, since : Int] /\ clock \in Nat
      /\ kept[s].since <= clock /\ kept[s].since - kept[s].made <= Flight
      /\ clock - kept[s].since < BrokerTtl
  BY DEF QuotesInv, QuotesTyped, KeptOK, KeptFresh
<1>. QED
  BY <1>1, TtlsPositive DEF OnItsWay

\* A step of one reader.
LEMMA ReaderStep ==
  ASSUME QuotesInv, NEW r \in Readers, NEW x \in ReaderRecords, ReaderOK(x),
         reader' = [reader EXCEPT ![r] = x], UNCHANGED <<clock, kind>>, StoreOK(store'),
         kept' \in [Symbols -> [made : Int, since : Int]], \A s \in Symbols : KeptOK(kept'[s])
  PROVE  QuotesInv'
<1>1. /\ reader' \in [Readers -> ReaderRecords]
      /\ \A i \in Readers : reader'[i] = IF i = r THEN x ELSE reader[i]
  BY DEF QuotesInv, QuotesTyped
<1>2. QuotesTyped'
  BY <1>1 DEF QuotesInv, QuotesTyped
<1>3. StoreOK(store)'
  BY DEF StoreOK, OnItsWay
<1>4. \A s \in Symbols : KeptOK(kept[s])'
  BY DEF KeptOK
<1>5. ASSUME NEW i \in Readers PROVE ReaderOK(reader[i])'
  <2>1. ReaderOK(reader'[i])
    BY <1>1 DEF QuotesInv
  <2>. QED
    BY <2>1 DEF ReaderOK, Allowed, OnItsWay
<1>. QED
  BY <1>2, <1>3, <1>4, <1>5 DEF QuotesInv

LEMMA FetchTickerInv ==
  ASSUME QuotesInv, NEW r \in Readers, NEW s \in Symbols, FetchTicker(r, s)
  PROVE  QuotesInv'
<1>. DEFINE stage == IF KeptFresh(s) THEN "served" ELSE "asking"
            made  == IF KeptFresh(s) THEN kept[s].made ELSE -1
            y     == [Waiting EXCEPT !.symbol = s, !.via = "broker", !.asked = clock]
            x     == [y EXCEPT !.stage = stage, !.made = made]
<1>1. clock \in Nat /\ UNCHANGED <<clock, kind, kept, store>> /\ Flight \in Nat /\ StoreOK(store)
      /\ kept \in [Symbols -> [made : Int, since : Int]] /\ \A i \in Symbols : KeptOK(kept[i])
  BY TtlsPositive DEF QuotesInv, QuotesTyped, FetchTicker
<1>2. reader' = [reader EXCEPT ![r] = [Waiting EXCEPT !.symbol = s, !.via = "broker", !.asked = clock,
                                                      !.stage = stage, !.made = made]]
  BY DEF FetchTicker
<1>3. /\ stage = "asking" \/ (stage = "served" /\ clock - made <= OnItsWay)
      /\ made \in Int /\ OnItsWay \in Int /\ OnItsWay <= Allowed("broker") /\ Allowed("broker") \in Int
  <2>1. KeptFresh(s) => kept[s].made \in Int /\ clock - kept[s].made <= OnItsWay
    BY KeptFreshAllowed
  <2>2. OnItsWay \in Int /\ OnItsWay <= Allowed("broker") /\ Allowed("broker") \in Int
    BY AllowedIs, TtlsPositive DEF Allowed
  <2>. QED
    BY <2>1, <2>2
<1>. HIDE DEF stage, made
<1>4. reader' = [reader EXCEPT ![r] = x]
  BY <1>2
<1>5. x \in ReaderRecords /\ ReaderOK(x)
  <2>1. y \in ReaderRecords /\ y.symbol = s /\ y.via = "broker" /\ y.asked = clock
    <3>1. Waiting \in ReaderRecords /\ clock \in Int
      BY <1>1 DEF Waiting, ReaderRecords, ReaderStages
    <3>. QED
      BY <3>1 DEF ReaderRecords
  <2>2. stage \in ReaderStages
    BY <1>3 DEF ReaderStages
  <2>. HIDE DEF y
  <2>3. /\ x \in ReaderRecords /\ x.stage = stage /\ x.made = made
        /\ x.symbol = s /\ x.via = "broker" /\ x.asked = clock
    BY <1>3, <2>1, <2>2 DEF ReaderRecords
  <2>. HIDE DEF x
  <2>. QED
    BY <1>1, <1>3, <2>3 DEF ReaderOK
<1>. HIDE DEF x
<1>. QED
  BY <1>1, <1>4, <1>5, ReaderStep

LEMMA GetTickerInv ==
  ASSUME QuotesInv, NEW r \in Readers, NEW s \in Symbols, GetTicker(r, s)
  PROVE  QuotesInv'
<1>. DEFINE got(stage, made) == [stage |-> stage, symbol |-> s, via |-> "market",
                                 asked |-> clock, made |-> made]
<1>1. clock \in Nat /\ UNCHANGED <<clock, kind, kept>> /\ Flight \in Nat /\ StoreOK(store)
      /\ kept \in [Symbols -> [made : Int, since : Int]] /\ \A i \in Symbols : KeptOK(kept[i])
  BY TtlsPositive DEF QuotesInv, QuotesTyped, GetTicker
<1>2. CASE Hit(s)
  <2>. DEFINE x == got("served", Entry(s).made)
  <2>1. reader' = [reader EXCEPT ![r] = x] /\ store' = LookedUp(s)
    BY <1>2 DEF GetTicker, Waiting
  <2>2. Entry(s).made \in Int /\ clock - Entry(s).made <= Allowed("market")
    BY <1>2, HitAllowed
  <2>3. x \in ReaderRecords /\ ReaderOK(x)
    BY <1>1, <2>2 DEF ReaderRecords, ReaderStages, ReaderOK
  <2>. HIDE DEF x
  <2>. QED
    BY <1>1, <2>1, <2>3, LookedUpOK, ReaderStep
<1>3. CASE ~Hit(s) /\ KeptFresh(s)
  <2>. DEFINE x == got("served", kept[s].made)
  <2>1. reader' = [reader EXCEPT ![r] = x] /\ store' = Put(s, kept[s].made)
    BY <1>3 DEF GetTicker, Waiting
  <2>2. kept[s].made \in Int /\ clock - kept[s].made <= OnItsWay
    BY <1>3, KeptFreshAllowed
  <2>3. x \in ReaderRecords /\ ReaderOK(x)
    <3>1. OnItsWay \in Int /\ OnItsWay <= Allowed("market") /\ Allowed("market") \in Int
      BY AllowedIs, TtlsPositive DEF Allowed
    <3>. QED
      BY <1>1, <2>2, <3>1 DEF ReaderRecords, ReaderStages, ReaderOK
  <2>. HIDE DEF x
  <2>. QED
    BY <1>1, <2>1, <2>2, <2>3, PutOK, ReaderStep
<1>4. CASE ~Hit(s) /\ ~KeptFresh(s)
  <2>. DEFINE x == got("asking", -1)
  <2>1. reader' = [reader EXCEPT ![r] = x] /\ store' = LookedUp(s)
    BY <1>4 DEF GetTicker, Waiting
  <2>2. x \in ReaderRecords /\ ReaderOK(x)
    BY <1>1 DEF ReaderRecords, ReaderStages, ReaderOK
  <2>. HIDE DEF x
  <2>. QED
    BY <1>1, <2>1, <2>2, LookedUpOK, ReaderStep
<1>. QED
  BY <1>2, <1>3, <1>4

LEMMA MakeInv ==
  ASSUME QuotesInv, NEW r \in Readers, Make(r)
  PROVE  QuotesInv'
<1>. DEFINE o == reader[r]
            x == [o EXCEPT !.stage = "made", !.made = clock]
<1>1. clock \in Nat /\ UNCHANGED <<clock, kind, kept, store>> /\ Flight \in Nat /\ StoreOK(store)
      /\ o \in ReaderRecords /\ ReaderOK(o) /\ o.stage = "asking"
      /\ kept \in [Symbols -> [made : Int, since : Int]] /\ \A i \in Symbols : KeptOK(kept[i])
  BY TtlsPositive DEF QuotesInv, QuotesTyped, Make
<1>2. reader' = [reader EXCEPT ![r] = x]
  BY DEF Make, QuotesInv, QuotesTyped
<1>3. o.asked <= clock /\ clock - o.asked <= Flight /\ o.symbol \in Symbols
  BY <1>1 DEF ReaderOK, ReaderRecords, ReaderStages
<1>4. x \in ReaderRecords /\ ReaderOK(x)
  <2>1. "made" \in ReaderStages /\ clock \in Int
    BY <1>1 DEF ReaderStages
  <2>2. /\ x \in ReaderRecords /\ x.stage = "made" /\ x.made = clock
        /\ x.symbol = o.symbol /\ x.asked = o.asked
    BY <1>1, <2>1 DEF ReaderRecords
  <2>. HIDE DEF x
  <2>. QED
    BY <1>3, <2>2 DEF ReaderOK
<1>. HIDE DEF x
<1>. QED
  BY <1>1, <1>2, <1>4, ReaderStep

LEMMA ArriveInv ==
  ASSUME QuotesInv, NEW r \in Readers, Arrive(r)
  PROVE  QuotesInv'
<1>. DEFINE o == reader[r]
            x == [o EXCEPT !.stage = "served", !.made = o.made]
            k == [made |-> o.made, since |-> clock]
<1>1. /\ clock \in Nat /\ UNCHANGED <<clock, kind>> /\ Flight \in Nat /\ StoreOK(store)
      /\ o \in ReaderRecords /\ ReaderOK(o) /\ o.stage = "made"
      /\ kept \in [Symbols -> [made : Int, since : Int]] /\ \A i \in Symbols : KeptOK(kept[i])
  BY TtlsPositive DEF QuotesInv, QuotesTyped, Arrive
<1>2. o.made \in Int /\ o.symbol \in Symbols /\ clock - o.made <= Flight
  <2>1. /\ o.made \in Int /\ o.asked \in Int /\ o.symbol \in Symbols
        /\ o.asked <= o.made /\ clock - o.asked <= Flight
    BY <1>1 DEF ReaderOK, ReaderRecords
  <2>. QED
    BY <1>1, <2>1
<1>3. /\ OnItsWay \in Int /\ Flight <= OnItsWay /\ OnItsWay <= Allowed(o.via) /\ Allowed(o.via) \in Int
      /\ Flight \in Int
  <2>1. Allowed(o.via) \in {OnItsWay + 0, OnItsWay + (StoreTtl - 1), OnItsWay + StoreTtl}
    BY DEF Allowed
  <2>. QED
    BY <2>1, AllowedIs, TtlsPositive
<1>4. reader' = [reader EXCEPT ![r] = x]
  BY DEF Arrive, Served
<1>5. x \in ReaderRecords /\ ReaderOK(x)
  <2>1. clock - o.made <= Allowed(o.via)
    BY <1>1, <1>2, <1>3
  <2>2. "served" \in ReaderStages
    BY DEF ReaderStages
  <2>3. x \in ReaderRecords /\ x.stage = "served" /\ x.made = o.made /\ x.via = o.via
    BY <1>1, <1>2, <2>2 DEF ReaderRecords
  <2>. HIDE DEF x
  <2>. QED
    BY <2>1, <2>3 DEF ReaderOK
<1>6. kept' \in [Symbols -> [made : Int, since : Int]] /\ \A i \in Symbols : KeptOK(kept'[i])
  <2>1. kept' = [kept EXCEPT ![o.symbol] = k]
    BY DEF Arrive
  <2>2. k \in [made : Int, since : Int] /\ KeptOK(k)
    BY <1>1, <1>2 DEF KeptOK
  <2>. HIDE DEF k
  <2>. QED
    BY <1>1, <1>2, <2>1, <2>2
<1>7. StoreOK(store')
  <2>1. clock - o.made <= OnItsWay
    BY <1>1, <1>2, <1>3
  <2>2. store' = Put(o.symbol, o.made) \/ store' = store
    BY DEF Arrive
  <2>. QED
    BY <1>1, <1>2, <2>1, <2>2, PutOK
<1>. HIDE DEF x
<1>. QED
  BY <1>1, <1>4, <1>5, <1>6, <1>7, ReaderStep

\* A reader that is lost or done waits again.
LEMMA WaitingInv ==
  ASSUME QuotesInv, NEW r \in Readers, Lose(r) \/ Use(r)
  PROVE  QuotesInv'
<1>1. /\ reader' = [reader EXCEPT ![r] = Waiting] /\ UNCHANGED <<clock, kind, kept, store>>
      /\ StoreOK(store)
      /\ kept \in [Symbols -> [made : Int, since : Int]] /\ \A i \in Symbols : KeptOK(kept[i])
  BY DEF QuotesInv, QuotesTyped, Lose, Use
<1>2. Waiting \in ReaderRecords /\ ReaderOK(Waiting)
  BY DEF Waiting, ReaderRecords, ReaderStages, ReaderOK
<1>. QED
  BY <1>1, <1>2, ReaderStep

\* The store alone changes.
LEMMA StoreStep ==
  ASSUME QuotesInv, UNCHANGED <<clock, kind, kept, reader>>, StoreOK(store')
  PROVE  QuotesInv'
<1>1. QuotesTyped'
  BY DEF QuotesInv, QuotesTyped
<1>2. StoreOK(store)'
  BY DEF StoreOK, OnItsWay
<1>3. \A s \in Symbols : KeptOK(kept[s])'
  BY DEF QuotesInv, KeptOK
<1>4. \A r \in Readers : ReaderOK(reader[r])'
  BY DEF QuotesInv, ReaderOK, Allowed, OnItsWay
<1>. QED
  BY <1>1, <1>2, <1>3, <1>4 DEF QuotesInv

LEMMA EmptyStore == StoreOK(<<>>)
BY TtlsPositive DEF StoreOK

LEMMA ClearInv ==
  ASSUME QuotesInv, Clear
  PROVE  QuotesInv'
BY EmptyStore, StoreStep DEF Clear

LEMMA CleanupInv ==
  ASSUME QuotesInv, Cleanup
  PROVE  QuotesInv'
<1>1. PICK n \in 0..Len(store) : store' = SubSeq(store, n + 1, Len(store))
  BY DEF Cleanup
<1>2. StoreOK(store')
  BY <1>1, EndOfStore DEF QuotesInv
<1>. QED
  BY <1>2, StoreStep DEF Cleanup

\* Time makes nothing too old but what nobody holds.
LEMMA AgeInv ==
  ASSUME QuotesInv, Age
  PROVE  QuotesInv'
<1>1. /\ clock \in Nat /\ clock' = clock + 1 /\ UNCHANGED <<kind, kept, store, reader>>
      /\ Flight \in Nat
      /\ \A r \in Readers : /\ reader[r].stage # "served"
                            /\ reader[r].stage # "idle" => clock - reader[r].asked < Flight
  BY TtlsPositive DEF QuotesInv, QuotesTyped, Age
<1>2. QuotesTyped'
  BY <1>1 DEF QuotesInv, QuotesTyped
<1>3. StoreOK(store)'
  <2>1. \A i \in 1..Len(store) : store[i].since \in Int
    <3>1. \A i \in 1..Len(store) : store[i] \in Entries
      BY DEF QuotesInv, StoreOK
    <3>. QED
      BY <3>1 DEF Entries
  <2>. QED
    BY <1>1, <2>1 DEF QuotesInv, StoreOK, OnItsWay
<1>4. \A s \in Symbols : KeptOK(kept[s])'
  <2>1. \A s \in Symbols : kept[s].since \in Int
    BY DEF QuotesInv, QuotesTyped
  <2>. QED
    BY <1>1, <2>1 DEF QuotesInv, KeptOK
<1>5. ASSUME NEW r \in Readers PROVE ReaderOK(reader[r])'
  <2>1. reader[r].asked \in Int /\ ReaderOK(reader[r]) /\ reader[r].stage # "served"
    BY <1>1 DEF QuotesInv, QuotesTyped, ReaderRecords
  <2>2. reader[r].stage \in {"asking", "made"} => reader[r].asked <= clock' /\ clock' - reader[r].asked <= Flight
    BY <1>1, <2>1 DEF ReaderOK
  <2>. QED
    BY <1>1, <2>1, <2>2 DEF ReaderOK
<1>. QED
  BY <1>2, <1>3, <1>4, <1>5 DEF QuotesInv

LEMMA QuotesInitInv == QuotesInit => QuotesInv
<1>. SUFFICES ASSUME QuotesInit PROVE QuotesInv
  OBVIOUS
<1>1. /\ Waiting \in ReaderRecords /\ ReaderOK(Waiting)
      /\ None \in [made : Int, since : Int] /\ KeptOK(None)
  BY DEF Waiting, ReaderRecords, ReaderStages, ReaderOK, None, KeptOK
<1>2. QuotesTyped /\ StoreOK(store)
  BY <1>1, EmptyStore DEF QuotesInit, QuotesTyped
<1>. QED
  BY <1>1, <1>2 DEF QuotesInit, QuotesInv

LEMMA QuotesNextInv == QuotesInv /\ [QuotesNext]_quoteVars => QuotesInv'
<1>. SUFFICES ASSUME QuotesInv, [QuotesNext]_quoteVars PROVE QuotesInv'
  OBVIOUS
<1>1. CASE Age \/ Clear \/ Cleanup
  BY <1>1, AgeInv, ClearInv, CleanupInv
<1>2. ASSUME NEW r \in Readers,
             \/ \E s \in Symbols : FetchTicker(r, s) \/ GetTicker(r, s)
             \/ Make(r) \/ Arrive(r) \/ Lose(r) \/ Use(r)
      PROVE QuotesInv'
  BY <1>2, FetchTickerInv, GetTickerInv, MakeInv, ArriveInv, WaitingInv
<1>3. CASE UNCHANGED quoteVars
  BY <1>3, StoreStep DEF quoteVars, QuotesInv
<1>. QED
  BY <1>1, <1>2, <1>3 DEF QuotesNext

LEMMA QuotesInvBounds == QuotesInv => QuotesBounded
<1>. SUFFICES ASSUME QuotesInv PROVE QuotesBounded
  OBVIOUS
<1>1. \A r \in Readers : reader[r].stage = "served" =>
         clock - reader[r].made <= Allowed(reader[r].via)
  BY DEF QuotesInv, ReaderOK
<1>2. DOMAIN store = 1..Len(store)
  BY DEF QuotesInv, StoreOK
<1>. QED
  BY <1>1, <1>2 DEF QuotesInv, StoreOK, QuotesBounded, Allowed, OnItsWay

(* However requests overlap and whichever answer is kept last, a quote is  *)
(* given at most as old as its way and the caches it was in allow, and the *)
(* store keeps to its size (fetch_ticker, get_ticker, TTLCache, LRUCache). *)
THEOREM QuotesAreBounded == QuotesSpec => []QuotesBounded
BY QuotesInitInv, QuotesNextInv, QuotesInvBounds, PTL DEF QuotesSpec
=============================================================================
