----------------------------- MODULE RecordsProofs -----------------------------
(***************************************************************************)
(* What the records promise.                                               *)
(*                                                                         *)
(* The position's row, for any number of processes, trades and kinds of    *)
(* trades: versions only grow, so a row with the version that was read is  *)
(* the row that was read.  And its figures are right while nobody races:   *)
(* the row accounts for the trades, FIFO matching over lots makes what the *)
(* units make when they are matched one by one, and cash moved by what was *)
(* made and what the units held have cost.  The folds of the model are     *)
(* functions of sets of indices, of which the smallest counterexample is   *)
(* looked for; average costs are fractions, compared over one denominator. *)
(*                                                                         *)
(* Fills, for any orders, amounts, coroutines and number of passes: a      *)
(* storage that tracks them counts each once, as long as passes do not     *)
(* overlap and the storage does not fail.  What is recorded of an order    *)
(* grows to the amount a pass saw filled, so it does not pass what is      *)
(* filled by now; and what a pass is to announce it has recorded and not   *)
(* announced.                                                              *)
(*                                                                         *)
(* Idempotency keys: one is granted once in its time, for any connections, *)
(* keys and times to live, however long a connection waits.                *)
(*                                                                         *)
(* The tool, for any orders and amounts: while the exchange stands still   *)
(* and nothing excuses the run, what it still has to compare is among the  *)
(* work that is left, so at the end the database agrees.                   *)
(***************************************************************************)
EXTENDS Ledger, Settlement, Idempotency, Reconcile, Sums

(* The position.                                                           *)
Steps == {"idle", "read", "write", "reread", "rewrite"}

Shape ==
  /\ exists \in BOOLEAN
  /\ row.version \in Nat
  /\ pc \in [Writers -> Steps]
  /\ DOMAIN seen = Writers
  /\ fresh \in [Writers -> BOOLEAN]

\* Who read a row finds one that is no older, and the same if of that version.
ReadWasRow ==
  \A w \in Writers : pc[w] = "write" /\ ~fresh[w] =>
    /\ exists
    /\ seen[w].version \in Nat /\ seen[w].version <= row.version
    /\ seen[w].version = row.version => seen[w] = row

LedgerInv == Shape /\ ReadWasRow

\* No row and nobody at work.
LEMMA LedgerInit == Init => LedgerInv
<1> SUFFICES ASSUME Init PROVE LedgerInv
  OBVIOUS
<1>1. row.version \in Nat
  BY DEF Init, NoPosition
<1>2. /\ exists \in BOOLEAN /\ pc \in [Writers -> Steps]
      /\ DOMAIN seen = Writers /\ fresh \in [Writers -> BOOLEAN]
  BY DEF Init, Steps
<1>3. \A w \in Writers : pc[w] # "write"
  BY DEF Init
<1> QED BY <1>1, <1>2, <1>3 DEF LedgerInv, Shape, ReadWasRow

\* get_position(): what is read is the row as it is.
LEMMA ReadInv ==
  ASSUME LedgerInv, NEW w \in Writers, get_position(w)
  PROVE  LedgerInv'
<1> USE DEF LedgerInv, Shape, Steps, Goto, get_position
<1>1. Shape'
  OBVIOUS
<1>2. ReadWasRow'
  <2> SUFFICES ASSUME NEW v \in Writers, pc'[v] = "write", ~fresh'[v]
               PROVE  /\ exists'
                      /\ seen'[v].version \in Nat /\ seen'[v].version <= row'.version
                      /\ seen'[v].version = row'.version => seen'[v] = row'
    BY DEF ReadWasRow
  <2>1. CASE v = w
    <3>1. seen'[v] = row /\ row' = row
      BY <2>1
    <3>2. fresh'[v] = ~exists /\ exists' = exists
      BY <2>1
    <3>3. exists'
      <4> HIDE DEF LedgerInv, Shape, Steps, Goto, get_position
      <4> QED BY <3>2
    <3> QED BY <3>1, <3>3
  <2>2. CASE v # w
    BY <2>2 DEF ReadWasRow
  <2> QED BY <2>1, <2>2
<1> QED BY <1>1, <1>2

\* The statement: an update gives the row a version nobody has read yet, and
\* a row is inserted only when nobody can have read one.
LEMMA UpsertInv ==
  ASSUME LedgerInv, NEW w \in Writers, upsert(w)
  PROVE  LedgerInv'
<1> USE DEF LedgerInv, Shape, Steps, Goto
<1>1. /\ exists' /\ row'.version \in Nat
      /\ exists => row'.version = row.version + 1
  BY DEF upsert, updated, Values
<1>2. Shape'
  BY <1>1 DEF upsert
<1>3. ReadWasRow'
  <2> SUFFICES ASSUME NEW v \in Writers, pc'[v] = "write", ~fresh'[v]
               PROVE  /\ seen'[v].version \in Nat
                      /\ seen'[v].version < row'.version
    BY <1>1 DEF ReadWasRow
  <2>1. v # w /\ pc[v] = "write" /\ ~fresh[v] /\ seen' = seen
    BY DEF upsert
  <2>2. exists /\ seen[v].version \in Nat /\ seen[v].version <= row.version
    BY <2>1 DEF ReadWasRow
  <2> QED BY <1>1, <2>1, <2>2
<1> QED BY <1>2, <1>3

\* The other steps leave the row alone and bring nobody to the update.
LEMMA LedgerQuiet ==
  ASSUME LedgerInv,
         \/ \E w \in Writers : add_from_order(w) \/ conflict(w) \/ reread(w)
         \/ UNCHANGED vars
  PROVE  LedgerInv'
<1> USE DEF LedgerInv, Shape, Steps, Goto, ReadWasRow
<1>1. ASSUME NEW w \in Writers, add_from_order(w) PROVE LedgerInv'
  BY <1>1 DEF add_from_order
<1>2. ASSUME NEW w \in Writers, conflict(w) PROVE LedgerInv'
  BY <1>2 DEF conflict
<1>3. ASSUME NEW w \in Writers, reread(w) PROVE LedgerInv'
  BY <1>3 DEF reread
<1>4. CASE UNCHANGED vars
  BY <1>4 DEF vars
<1> QED BY <1>1, <1>2, <1>3, <1>4
-----------------------------------------------------------------------------
\* The invariant holds in every state, whatever the constants.
THEOREM LedgerInductive == Spec => []LedgerInv
<1>1. LedgerInv /\ [Next]_vars => LedgerInv'
  BY ReadInv, UpsertInv, LedgerQuiet DEF Next
<1> QED BY LedgerInit, <1>1, PTL DEF Spec

\* A first update that finds the version it read overwrites no other update
\* (positions.py:379-380), however many processes there are.
THEOREM VersionIdentifies == Spec => []SameVersionSameRow
<1>1. LedgerInv => SameVersionSameRow
  BY DEF LedgerInv, ReadWasRow, SameVersionSameRow
<1> QED BY LedgerInductive, <1>1, PTL
-----------------------------------------------------------------------------
(* The position, continued: what its figures are worth.  A trade.          *)
Trade == [side : {"buy", "sell"}, amount : Nat \ {0}, filled : Nat \ {0},
          price : Nat, fee : Nat, day : Nat]

\* The units of a trade, if it is of that side, and the step of the fold that lays them out.
UnitsOf(t, side) == IF t.side = side THEN [i \in 1..t.filled |-> t] ELSE <<>>
Laid(side) == [us \in Seq(Trade) |-> [t \in Trade |-> us \o UnitsOf(t, side)]]

\* As many units as were filled, each of them the trade.
LEMMA UnitsTyped ==
  ASSUME NEW t \in Trade, NEW side
  PROVE  /\ UnitsOf(t, side) \in Seq(Trade)
         /\ Len(UnitsOf(t, side)) = IF t.side = side THEN t.filled ELSE 0
         /\ \A i \in 1..Len(UnitsOf(t, side)) : UnitsOf(t, side)[i] = t
<1>1. CASE t.side = side
  <2>1. t.filled \in Nat
    BY DEF Trade
  <2>2. UnitsOf(t, side) = [i \in 1..t.filled |-> t]
    BY <1>1 DEF UnitsOf
  <2>. QED
    BY <1>1, <2>1, <2>2
<1>2. CASE t.side # side
  BY <1>2 DEF UnitsOf
<1>. QED
  BY <1>1, <1>2

LEMMA LaidTyped ==
  ASSUME NEW side
  PROVE  \A us \in Seq(Trade), t \in Trade :
           Laid(side)[us][t] = us \o UnitsOf(t, side) /\ Laid(side)[us][t] \in Seq(Trade)
<1>. SUFFICES ASSUME NEW us \in Seq(Trade), NEW t \in Trade
              PROVE  Laid(side)[us][t] = us \o UnitsOf(t, side) /\ us \o UnitsOf(t, side) \in Seq(Trade)
  OBVIOUS
<1>1. Laid(side)[us][t] = us \o UnitsOf(t, side)
  BY DEF Laid
<1>2. UnitsOf(t, side) \in Seq(Trade)
  BY UnitsTyped
<1>. QED
  BY <1>1, <1>2

\* Units() is the fold of that step.
LEMMA UnitsAreFold ==
  ASSUME NEW ts \in Seq(Trade), NEW side
  PROVE  Units(ts, side) = FoldOf(Laid(side), <<>>, ts, Len(ts))
<1>. DEFINE n == Len(ts)
            k == Folding(Laid(side), <<>>, ts, n)
            Equation(f) == f = [t \in SUBSET DOMAIN ts |->
              IF t = {} THEN <<>>
              ELSE f[t \ {Max(t)}] \o
                     (IF ts[Max(t)].side = side THEN [i \in 1..ts[Max(t)].filled |-> ts[Max(t)]] ELSE <<>>)]
            c == CHOOSE f : Equation(f)
<1>1. n \in Nat /\ DOMAIN ts = 1..n /\ \A i \in 1..n : ts[i] \in Trade
  OBVIOUS
<1>2. Units(ts, side) = c[DOMAIN ts]
  BY DEF Units, FoldLeft, MapThenFoldSet
<1>3. Equation(k)
  <2>1. IsFold(Laid(side), <<>>, ts, 1..n, k)
    BY <1>1, FoldingFolds
  <2>2. \A t \in SUBSET (1..n) : k[t] \in Seq(Trade)
    <3>1. \A us \in Seq(Trade), t \in Trade : Laid(side)[us][t] \in Seq(Trade)
      BY LaidTyped
    <3>2. <<>> \in Seq(Trade)
      OBVIOUS
    <3>. HIDE DEF n
    <3>. QED
      BY <1>1, <3>1, <3>2, FoldOfTyped
  <2>. HIDE DEF k, n
  <2>3. ASSUME NEW t \in SUBSET (1..n), t # {}
        PROVE  k[t] = k[t \ {Max(t)}] \o UnitsOf(ts[Max(t)], side)
    <3>1. Rest(t) \in SUBSET (1..n) /\ ts[Max(t)] \in Trade
      BY <1>1, <2>3, RestIsLess
    <3>2. k[t] = Laid(side)[k[Rest(t)]][ts[Max(t)]]
      BY <2>1, <2>3 DEF IsFold
    <3>. QED
      BY <2>2, <3>1, <3>2, LaidTyped DEF Rest
  <2>4. k[{}] = <<>> /\ k = [t \in SUBSET (1..n) |-> k[t]]
    BY <2>1 DEF IsFold
  <2>. QED
    BY <1>1, <2>3, <2>4 DEF UnitsOf
<1>4. Equation(c)
  BY <1>3
<1>. HIDE DEF k, c, n
<1>5. k[{}] = c[{}]
  BY <1>1, <1>3, <1>4
<1>6. ASSUME NEW t \in SUBSET (1..n), t # {}, k[Rest(t)] = c[Rest(t)]
      PROVE  k[t] = c[t]
  BY <1>1, <1>3, <1>4, <1>6 DEF Rest
<1>7. k[1..n] = c[1..n]
  BY <1>1, <1>5, <1>6, FoldsAlike
<1>. QED
  BY <1>1, <1>2, <1>7 DEF FoldOf, k, n

(* What a sale does to the lots that are left (utils/pnl.py), one by one.  *)
Lots == [qty : Nat \ {0}, price : Int]
Sales == [left : Nat, gain : Int, lots : Seq(Lots)]
Profits == [lots : Seq(Lots), realized : Int]

\* The sale meets one lot.
SellStep(s, lot, price) ==
  LET matched == Smaller(s.left, lot.qty)
  IN  [left |-> s.left - matched,
       gain |-> s.gain + (price - lot.price) * matched,
       lots |-> IF matched = lot.qty THEN s.lots
                ELSE Append(s.lots, [lot EXCEPT !.qty = @ - matched])]

Sell(price) == [s \in Sales |-> [lot \in Lots |-> SellStep(s, lot, price)]]

Begin(qty) == [left |-> qty, gain |-> 0, lots |-> <<>>]

\* It leaves a sale in progress.
LEMMA SellStepTyped ==
  ASSUME NEW s \in Sales, NEW lot \in Lots, NEW price \in Int
  PROVE  SellStep(s, lot, price) \in Sales /\ Sell(price)[s][lot] = SellStep(s, lot, price)
<1>. DEFINE matched == Smaller(s.left, lot.qty)
<1>1. /\ s.left \in Nat /\ s.gain \in Int /\ s.lots \in Seq(Lots)
      /\ lot.qty \in Nat \ {0} /\ lot.price \in Int
  BY DEF Sales, Lots
<1>2. matched \in Nat /\ matched <= s.left /\ matched <= lot.qty
  BY <1>1 DEF Smaller
<1>. HIDE DEF matched
<1>3. s.left - matched \in Nat
  BY <1>1, <1>2
<1>4. s.gain + (price - lot.price) * matched \in Int
  BY <1>1, <1>2
<1>5. ASSUME matched # lot.qty
      PROVE  Append(s.lots, [lot EXCEPT !.qty = lot.qty - matched]) \in Seq(Lots)
  <2>1. lot.qty - matched \in Nat \ {0}
    BY <1>1, <1>2, <1>5
  <2>2. [lot EXCEPT !.qty = lot.qty - matched] \in Lots
    BY <2>1 DEF Lots
  <2>. QED
    BY <1>1, <2>2
<1>6. SellStep(s, lot, price) =
        [left |-> s.left - matched, gain |-> s.gain + (price - lot.price) * matched,
         lots |-> IF matched = lot.qty THEN s.lots
                  ELSE Append(s.lots, [lot EXCEPT !.qty = lot.qty - matched])]
  BY DEF SellStep, matched
<1>7. SellStep(s, lot, price) \in Sales
  BY <1>1, <1>3, <1>4, <1>5, <1>6 DEF Sales
<1>. QED
  BY <1>7 DEF Sell

\* The loop is the fold of its step.
LEMMA SellIsFold ==
  ASSUME NEW lots \in Seq(Lots), NEW qty \in Nat, NEW price \in Int
  PROVE  /\ sell_lots(lots, qty, price) = FoldOf(Sell(price), Begin(qty), lots, Len(lots))
         /\ sell_lots(lots, qty, price) \in Sales
         /\ \A i \in 0..Len(lots) : FoldOf(Sell(price), Begin(qty), lots, i) \in Sales
<1>. DEFINE n == Len(lots)
            k == Folding(Sell(price), Begin(qty), lots, n)
            Equation(f) == f = [t \in SUBSET DOMAIN lots |->
              IF t = {} THEN Begin(qty) ELSE SellStep(f[t \ {Max(t)}], lots[Max(t)], price)]
            c == CHOOSE f : Equation(f)
<1>1. n \in Nat /\ DOMAIN lots = 1..n /\ \A i \in 1..n : lots[i] \in Lots
  OBVIOUS
<1>2. sell_lots(lots, qty, price) = c[DOMAIN lots]
  BY DEF sell_lots, FoldLeft, MapThenFoldSet, SellStep, Begin
<1>3. \A s \in Sales, lot \in Lots : Sell(price)[s][lot] \in Sales
  BY SellStepTyped
<1>4. Begin(qty) \in Sales
  BY DEF Begin, Sales
<1>5. IsFold(Sell(price), Begin(qty), lots, 1..n, k)
  BY <1>1, FoldingFolds
<1>6. \A t \in SUBSET (1..n) : k[t] \in Sales
  <2>. HIDE DEF n
  <2>. QED
    BY <1>1, <1>3, <1>4, FoldOfTyped
<1>7. Equation(k)
  <2>. HIDE DEF k, n
  <2>1. ASSUME NEW t \in SUBSET (1..n), t # {}
        PROVE  k[t] = SellStep(k[t \ {Max(t)}], lots[Max(t)], price)
    <3>1. Rest(t) \in SUBSET (1..n) /\ lots[Max(t)] \in Lots
      BY <1>1, <2>1, RestIsLess
    <3>2. k[t] = Sell(price)[k[Rest(t)]][lots[Max(t)]]
      BY <1>5, <2>1 DEF IsFold
    <3>. QED
      BY <1>6, <3>1, <3>2, SellStepTyped DEF Rest
  <2>2. k[{}] = Begin(qty) /\ k = [t \in SUBSET (1..n) |-> k[t]]
    BY <1>5 DEF IsFold
  <2>. QED
    BY <1>1, <2>1, <2>2
<1>8. Equation(c)
  BY <1>7
<1>9. k[1..n] = c[1..n]
  <2>. HIDE DEF n
  <2>1. \A t \in SUBSET (1..n) : t # {} /\ k[t \ {Max(t)}] = c[t \ {Max(t)}] => k[t] = c[t]
    <3>. HIDE DEF k, c
    <3>. QED
      BY <1>1, <1>7, <1>8
  <2>2. k[{}] = c[{}]
    <3>. HIDE DEF k, c
    <3>. QED
      BY <1>1, <1>7, <1>8
  <2>. HIDE DEF k, c
  <2>. QED
    BY <1>1, <2>1, <2>2, FoldsAlike DEF Rest
<1>10. \A i \in 0..n : FoldOf(Sell(price), Begin(qty), lots, i) \in Sales
  <2>. SUFFICES ASSUME NEW i \in 0..n PROVE FoldOf(Sell(price), Begin(qty), lots, i) \in Sales
    OBVIOUS
  <2>1. FoldOf(Sell(price), Begin(qty), lots, i) = k[1..i]
    BY <1>1, FoldOfSame
  <2>2. 1..i \in SUBSET (1..n)
    BY <1>1
  <2>. QED
    BY <1>6, <2>1, <2>2
<1>. QED
  <2>1. sell_lots(lots, qty, price) = FoldOf(Sell(price), Begin(qty), lots, n)
    <3>1. k[1..n] = FoldOf(Sell(price), Begin(qty), lots, n)
      BY DEF FoldOf
    <3>. HIDE DEF k, c
    <3>. QED
      BY <1>1, <1>2, <1>9, <3>1
  <2>2. n \in 0..n
    BY <1>1
  <2>. QED
    BY <1>10, <2>1, <2>2

(* Arithmetic.  Quotient and remainder make up the number, and nothing else*)
(* does.                                                                   *)
LEMMA Division ==
  ASSUME NEW n \in Int, NEW k \in Nat \ {0}
  PROVE  n = k * (n \div k) + (n % k) /\ n \div k \in Int /\ n % k \in 0..(k - 1)
OBVIOUS

LEMMA TimesGrows ==
  ASSUME NEW x \in Nat, NEW b \in Int, b >= 1
  PROVE  x <= x * b
OBVIOUS

LEMMA DivisionIs ==
  ASSUME NEW n \in Int, NEW k \in Nat \ {0}, NEW q \in Int, NEW r \in 0..(k - 1), n = k * q + r
  PROVE  n \div k = q /\ n % k = r
OBVIOUS

(* Fractions.  What divides numerator and denominator.                     *)
Common(n, d) == {k \in 1..d : n % k = 0 /\ d % k = 0}

\* Reduced by the greatest of those it is a fraction of the same value.
LEMMA FracTyped ==
  ASSUME NEW n \in Int, NEW d \in Nat \ {0}
  PROVE  /\ Max(Common(n, d)) \in Common(n, d) /\ \A k \in Common(n, d) : k <= Max(Common(n, d))
         /\ Fraction(Frac(n, d)) /\ Frac(n, d).n * d = n * Frac(n, d).d
<1>. DEFINE g == Max(Common(n, d))
<1>1. 1 \in Common(n, d)
  BY DEF Common
<1>2. IsFiniteSet(Common(n, d)) /\ \A k \in Common(n, d) : k \in Int
  <2>1. Common(n, d) \in SUBSET (1..d) /\ d \in Nat
    BY DEF Common
  <2>. QED
    BY <2>1, FS_Interval, FS_Subset
<1>3. g \in Common(n, d) /\ \A k \in Common(n, d) : k <= g
  BY <1>1, <1>2, GreatestNumber
<1>4. g \in Nat \ {0} /\ n % g = 0 /\ d % g = 0
  BY <1>3 DEF Common
<1>5. Frac(n, d) = [n |-> n \div g, d |-> d \div g]
  BY DEF Frac, Common
<1>. HIDE DEF g
<1>6. n = g * (n \div g) /\ d = g * (d \div g) /\ n \div g \in Int /\ d \div g \in Int
  BY <1>4
<1>7. d \div g > 0
  BY <1>4, <1>6
<1>8. (n \div g) * d = n * (d \div g)
  BY <1>4, <1>6
<1>. QED
  BY <1>3, <1>5, <1>6, <1>7, <1>8 DEF Fraction, g

\* A fraction of that value in lowest terms.
Lowest(f) == \A k \in 1..f.d : f.n % k = 0 /\ f.d % k = 0 => k = 1

\* Nothing else divides both parts of what Frac() makes.
LEMMA FracLowest ==
  ASSUME NEW n \in Int, NEW d \in Nat \ {0}
  PROVE  Lowest(Frac(n, d))
<1>. DEFINE g == Max(Common(n, d))
            f == Frac(n, d)
<1>1. g \in Common(n, d) /\ (\A k \in Common(n, d) : k <= g) /\ f.d \in Nat \ {0} /\ f.n \in Int
  BY FracTyped DEF Fraction
<1>2. g \in Nat \ {0} /\ n % g = 0 /\ d % g = 0
  BY <1>1 DEF Common
<1>3. f = [n |-> n \div g, d |-> d \div g]
  BY DEF Frac, Common
<1>. HIDE DEF g, f
<1>4. n = g * f.n /\ d = g * f.d
  BY <1>2, <1>3
<1>5. ASSUME NEW k \in 1..f.d, f.n % k = 0, f.d % k = 0 PROVE k = 1
  <2>1. k \in Nat \ {0}
    BY <1>1, <1>5
  <2>. DEFINE x == f.n
              y == f.d
              a == x \div k
              b == y \div k
  <2>2. f.n = k * a /\ f.d = k * b /\ a \in Int /\ b \in Int
    <3>1. x \in Int /\ y \in Int
      BY <1>1
    <3>2. x % k = 0 /\ y % k = 0
      BY <1>5
    <3>. HIDE DEF x, y
    <3>3. x = k * a + (x % k) /\ a \in Int
      BY <2>1, <3>1, Division
    <3>4. y = k * b + (y % k) /\ b \in Int
      BY <2>1, <3>1, Division
    <3>. HIDE DEF a, b
    <3>. QED
      BY <2>1, <3>2, <3>3, <3>4 DEF x, y
  <2>. HIDE DEF a, b
  <2>3. n = (g * k) * a /\ d = (g * k) * b /\ g * k \in Nat \ {0}
    BY <1>2, <1>4, <2>1, <2>2
  <2>4. b >= 1
    BY <1>1, <2>1, <2>2
  <2>5. g * k <= d
    BY <2>2, <2>3, <2>4, TimesGrows
  <2>. DEFINE m == g * k
  <2>6. m \in Nat \ {0} /\ n = m * a /\ d = m * b /\ m <= d
    BY <2>3, <2>5
  <2>. HIDE DEF m
  <2>7. n % m = 0 /\ d % m = 0
    BY <2>2, <2>6, DivisionIs
  <2>8. m <= g
    BY <1>1, <2>6, <2>7 DEF Common
  <2>. QED
    BY <1>2, <2>1, <2>8 DEF m
<1>. QED
  BY <1>5 DEF Lowest, f

\* A fraction in lowest terms that is a whole number is written as one.
LEMMA LowestWhole ==
  ASSUME NEW f, Fraction(f), Lowest(f), NEW k \in Int, f.n = k * f.d, f = [n |-> f.n, d |-> f.d]
  PROVE  f = Whole(k)
<1>1. f.n % f.d = 0 /\ f.d % f.d = 0 /\ f.d \in 1..f.d
  <2>1. f.d \in Nat \ {0} /\ f.n \in Int /\ f.n = f.d * k + 0 /\ f.d = f.d * 1 + 0
    BY DEF Fraction
  <2>. QED
    BY <2>1, DivisionIs
<1>2. f.d = 1
  BY <1>1 DEF Lowest
<1>. QED
  BY <1>2 DEF Whole, Fraction
-----------------------------------------------------------------------------
(* The value of a fraction: f is x / D.                                    *)
Is(f, x, D) == Fraction(f) /\ f.n * D = x * f.d

\* A fraction with these fields and no others.
Shaped(f) == Fraction(f) /\ f = [n |-> f.n, d |-> f.d]

\* A factor on both sides goes.
LEMMA Cancel ==
  ASSUME NEW x \in Int, NEW y \in Int, NEW k \in Nat \ {0}, x * k = y * k
  PROVE  x = y
OBVIOUS

\* Frac() makes a fraction of that value in lowest terms.
LEMMA FracIs ==
  ASSUME NEW n \in Int, NEW d \in Nat \ {0}
  PROVE  Is(Frac(n, d), n, d) /\ Shaped(Frac(n, d)) /\ Lowest(Frac(n, d))
<1>1. Frac(n, d) = [n |-> Frac(n, d).n, d |-> Frac(n, d).d]
  BY DEF Frac
<1>. QED
  BY <1>1, FracTyped, FracLowest DEF Is, Shaped

\* Enlarged or reduced by k it has the same value.
LEMMA Enlarged ==
  ASSUME NEW f, NEW x \in Int, NEW D \in Nat \ {0}, NEW k \in Nat \ {0}
  PROVE  Is(f, x * k, D * k) <=> Is(f, x, D)
<1>. SUFFICES ASSUME Fraction(f) PROVE f.n * (D * k) = (x * k) * f.d <=> f.n * D = x * f.d
  BY DEF Is
<1>1. f.n \in Int /\ f.d \in Int
  BY DEF Fraction
<1>2. f.n * (D * k) = (f.n * D) * k /\ (x * k) * f.d = (x * f.d) * k
  BY <1>1
<1>3. f.n * D \in Int /\ x * f.d \in Int
  BY <1>1
<1>. QED
  BY <1>2, <1>3, Cancel

\* So are whole numbers.
LEMMA WholeIs ==
  ASSUME NEW n \in Int, NEW D \in Nat \ {0}
  PROVE  Is(Whole(n), n * D, D) /\ Shaped(Whole(n)) /\ Lowest(Whole(n))
BY DEF Is, Shaped, Lowest, Whole, Fraction

\* Over one denominator, fractions add as their numerators do,
LEMMA PlusIs ==
  ASSUME NEW D \in Nat \ {0}, NEW x \in Int, NEW y \in Int,
         NEW a, NEW b, Is(a, x, D), Is(b, y, D)
  PROVE  Is(Plus(a, b), x + y, D) /\ Shaped(Plus(a, b)) /\ Lowest(Plus(a, b))
<1>. DEFINE N == a.n * b.d + b.n * a.d
            E == a.d * b.d
            p == Frac(N, E)
<1>1. /\ a.n \in Int /\ b.n \in Int /\ a.d \in Nat \ {0} /\ b.d \in Nat \ {0}
      /\ a.n * D = x * a.d /\ b.n * D = y * b.d
  BY DEF Is, Fraction
<1>2. N \in Int /\ E \in Nat \ {0}
  BY <1>1
<1>3. N * D = (x + y) * E
  <2>1. (a.n * b.d) * D = (a.n * D) * b.d /\ (b.n * a.d) * D = (b.n * D) * a.d
    BY <1>1
  <2>2. N * D = (a.n * D) * b.d + (b.n * D) * a.d
    BY <1>1, <2>1
  <2>3. N * D = (x * a.d) * b.d + (y * b.d) * a.d
    BY <1>1, <2>2
  <2>. QED
    BY <1>1, <2>3
<1>. HIDE DEF N, E, p
<1>4. Is(p, N, E) /\ Shaped(p) /\ Lowest(p)
  BY <1>2, FracIs DEF p
<1>5. p.n \in Int /\ p.d \in Int /\ p.n * E = N * p.d
  BY <1>4 DEF Is, Fraction
<1>6. (p.n * D) * E = ((x + y) * p.d) * E
  <2>1. (p.n * D) * E = (p.n * E) * D /\ (N * p.d) * D = (N * D) * p.d
    BY <1>2, <1>5
  <2>2. (p.n * D) * E = ((x + y) * E) * p.d
    BY <1>3, <1>5, <2>1
  <2>. QED
    BY <1>2, <1>5, <2>2
<1>7. p.n * D = (x + y) * p.d
  <2>1. p.n * D \in Int /\ (x + y) * p.d \in Int
    BY <1>5
  <2>. QED
    BY <1>2, <1>6, <2>1, Cancel
<1>8. Plus(a, b) = p
  BY DEF Plus, p, N, E
<1>. QED
  BY <1>4, <1>7, <1>8 DEF Is

\* are multiplied as they are,
LEMMA TimesIs ==
  ASSUME NEW D \in Nat \ {0}, NEW x \in Int, NEW k \in Int, NEW a, Is(a, x, D)
  PROVE  Is(Times(a, k), x * k, D) /\ Shaped(Times(a, k))
<1>. DEFINE p == Frac(a.n * k, a.d)
<1>1. a.n \in Int /\ a.d \in Nat \ {0} /\ a.n * D = x * a.d /\ a.n * k \in Int
  BY DEF Is, Fraction
<1>2. Is(p, a.n * k, a.d) /\ Shaped(p)
  BY <1>1, FracIs
<1>. HIDE DEF p
<1>3. p.n \in Int /\ p.d \in Int /\ p.n * a.d = (a.n * k) * p.d
  BY <1>2 DEF Is, Fraction
<1>4. (p.n * D) * a.d = ((x * k) * p.d) * a.d
  <2>1. (p.n * D) * a.d = (p.n * a.d) * D /\ ((a.n * k) * p.d) * D = ((a.n * D) * k) * p.d
    BY <1>1, <1>3
  <2>2. (p.n * D) * a.d = ((x * a.d) * k) * p.d
    BY <1>1, <1>3, <2>1
  <2>. QED
    BY <1>1, <1>3, <2>2
<1>5. p.n * D = (x * k) * p.d
  <2>1. p.n * D \in Int /\ (x * k) * p.d \in Int
    BY <1>3
  <2>. QED
    BY <1>1, <1>4, <2>1, Cancel
<1>. QED
  BY <1>2, <1>5 DEF Is, Times, p

\* and are divided by multiplying the denominator.
LEMMA PerIs ==
  ASSUME NEW D \in Nat \ {0}, NEW x \in Int, NEW k \in Nat \ {0}, NEW a, Is(a, x, D)
  PROVE  Is(Per(a, k), x, D * k) /\ Shaped(Per(a, k))
<1>. DEFINE p == Frac(a.n, a.d * k)
<1>1. a.n \in Int /\ a.d \in Nat \ {0} /\ a.n * D = x * a.d /\ a.d * k \in Nat \ {0}
  BY DEF Is, Fraction
<1>2. Is(p, a.n, a.d * k) /\ Shaped(p)
  BY <1>1, FracIs
<1>. HIDE DEF p
<1>3. p.n \in Int /\ p.d \in Int /\ p.n * (a.d * k) = a.n * p.d
  BY <1>2 DEF Is, Fraction
<1>4. (p.n * (D * k)) * a.d = (x * p.d) * a.d
  <2>1. (p.n * (D * k)) * a.d = (p.n * (a.d * k)) * D /\ (a.n * p.d) * D = (a.n * D) * p.d
    BY <1>1, <1>3
  <2>2. (p.n * (D * k)) * a.d = (x * a.d) * p.d
    BY <1>1, <1>3, <2>1
  <2>. QED
    BY <1>1, <1>3, <2>2
<1>5. p.n * (D * k) = x * p.d
  <2>1. p.n * (D * k) \in Int /\ x * p.d \in Int
    BY <1>3
  <2>. QED
    BY <1>1, <1>4, <2>1, Cancel
<1>. QED
  BY <1>2, <1>5 DEF Is, Per, p

\* A fraction in lowest terms that is a whole number is written as one.
LEMMA IsWhole ==
  ASSUME NEW f, Shaped(f), Lowest(f), NEW k \in Int, NEW D \in Nat \ {0}, Is(f, k * D, D)
  PROVE  f = Whole(k)
<1>1. f.n \in Int /\ f.d \in Nat \ {0} /\ f.n * D = (k * D) * f.d /\ f = [n |-> f.n, d |-> f.d]
  BY DEF Is, Fraction, Shaped
<1>2. (k * D) * f.d = (k * f.d) * D /\ k * f.d \in Int
  BY <1>1
<1>3. f.n = k * f.d
  BY <1>1, <1>2, Cancel
<1>. QED
  BY <1>1, <1>3, LowestWhole DEF Shaped

(* The two ways of matching.  What a unit bought has cost.                 *)
UnitCost(t) == t.price + t.fee \div t.filled

\* A trade filled in full goes through the lots; it counts or it does not.
TradeStep(s, t, counts) ==
  IF t.side = "buy"
  THEN [s EXCEPT !.lots = Append(@, [qty |-> t.filled, price |-> UnitCost(t)])]
  ELSE LET r == sell_lots(s.lots, t.filled, t.price)
       IN  [lots |-> r.lots,
            realized |-> s.realized + IF counts THEN r.gain - t.fee ELSE 0]

\* The same, as pnl_of_day() writes it.
DayStep(s, t, day) ==
  IF t.filled <= 0 THEN s
  ELSE IF t.side = "buy"
  THEN [s EXCEPT !.lots = Append(@,
         [qty |-> t.filled, price |-> (t.price * t.filled + t.fee) \div t.filled])]
  ELSE LET r == sell_lots(s.lots, t.filled, t.price)
       IN  [lots |-> r.lots,
            realized |-> s.realized + IF t.day = day THEN r.gain - t.fee ELSE 0]

\* The steps as functions of the profit so far and the trade.
Fifo == [s \in Profits |-> [t \in Trade |-> fifo_trade(s, t)]]
OfDay(day) == [s \in Profits |-> [t \in Trade |-> DayStep(s, t, day)]]

\* Price and fee per unit may be divided together or apart.
LEMMA CostPerUnit ==
  ASSUME NEW p \in Nat, NEW fee \in Nat, NEW f \in Nat \ {0}
  PROVE  (p * f + fee) \div f = p + fee \div f
<1>. DEFINE q == fee \div f
            r == fee % f
            x == p * f
<1>1. q \in Int /\ r \in 0..(f - 1) /\ fee = f * q + r
  OBVIOUS
<1>2. x \in Int /\ x + f * q = f * (p + q)
  BY <1>1
<1>. HIDE DEF q, r, x
<1>3. x + fee = f * (p + q) + r
  BY <1>1, <1>2
<1>4. (x + fee) \div f = p + q
  BY <1>1, <1>2, <1>3, DivisionIs
<1>. QED
  BY <1>4 DEF x, q

\* A step keeps lots and profit what they are.
LEMMA TradeStepTyped ==
  ASSUME NEW s \in Profits, NEW t \in Trade, NEW counts \in BOOLEAN
  PROVE  TradeStep(s, t, counts) \in Profits
<1>1. s.lots \in Seq(Lots) /\ s.realized \in Int /\ DOMAIN s = {"lots", "realized"}
  BY DEF Profits
<1>2. t.price \in Nat /\ t.fee \in Nat /\ t.filled \in Nat \ {0}
  BY DEF Trade
<1>3. CASE t.side = "buy"
  <2>1. UnitCost(t) \in Int
    BY <1>2 DEF UnitCost
  <2>2. Append(s.lots, [qty |-> t.filled, price |-> UnitCost(t)]) \in Seq(Lots)
    BY <1>1, <1>2, <2>1 DEF Lots
  <2>. QED
    BY <1>3, <2>2 DEF TradeStep, Profits
<1>4. CASE t.side # "buy"
  <2>. DEFINE r == sell_lots(s.lots, t.filled, t.price)
  <2>1. r \in Sales
    BY <1>1, <1>2, SellIsFold
  <2>. HIDE DEF r
  <2>2. r.lots \in Seq(Lots) /\ r.gain \in Int
    BY <2>1 DEF Sales
  <2>3. TradeStep(s, t, counts) =
          [lots |-> r.lots, realized |-> s.realized + IF counts THEN r.gain - t.fee ELSE 0]
    BY <1>4 DEF TradeStep, r
  <2>. QED
    BY <1>1, <1>2, <2>2, <2>3 DEF Profits
<1>. QED
  BY <1>3, <1>4

\* The day's step is that step, counted if the trade is of the day,
LEMMA DayStepIs ==
  ASSUME NEW s \in Profits, NEW t \in Trade, NEW day
  PROVE  /\ OfDay(day)[s][t] = TradeStep(s, t, t.day = day)
         /\ DayStep(s, t, day) \in Profits
<1>1. t.price \in Nat /\ t.fee \in Nat /\ t.filled \in Nat \ {0}
  BY DEF Trade
<1>2. (t.price * t.filled + t.fee) \div t.filled = UnitCost(t)
  BY <1>1, CostPerUnit DEF UnitCost
<1>3. ~(t.filled <= 0)
  BY <1>1
<1>4. DayStep(s, t, day) = TradeStep(s, t, t.day = day)
  BY <1>2, <1>3 DEF DayStep, TradeStep
<1>. QED
  BY <1>4, TradeStepTyped DEF OfDay

\* and so is the step over all days, counted always, for a trade filled in full.
LEMMA FifoStepIs ==
  ASSUME NEW s \in Profits, NEW t \in Trade
  PROVE  /\ Fifo[s][t] = fifo_trade(s, t)
         /\ fifo_trade(s, t) \in Profits
         /\ t.filled = t.amount => fifo_trade(s, t) = TradeStep(s, t, TRUE)
<1>. DEFINE u == [t EXCEPT !.filled = t.amount]
<1>1. t.price \in Nat /\ t.fee \in Nat /\ t.amount \in Nat \ {0} /\ u \in Trade
  BY DEF Trade
<1>2. base_qty(t) = t.amount /\ ~(t.amount <= 0)
  BY <1>1 DEF base_qty
<1>3. u.filled = t.amount /\ u.price = t.price /\ u.fee = t.fee /\ u.side = t.side
  BY DEF Trade
<1>. HIDE DEF u
<1>4. fifo_trade(s, t) = TradeStep(s, u, TRUE)
  <2>1. CASE t.side = "buy"
    BY <1>2, <1>3, <2>1 DEF fifo_trade, TradeStep, UnitCost
  <2>2. CASE t.side # "buy"
    <3>. DEFINE r == sell_lots(s.lots, t.amount, t.price)
    <3>1. fifo_trade(s, t) = [lots |-> r.lots, realized |-> s.realized - t.fee + r.gain]
      BY <1>2, <2>2 DEF fifo_trade
    <3>2. TradeStep(s, u, TRUE) = [lots |-> r.lots, realized |-> s.realized + (r.gain - t.fee)]
      BY <1>3, <2>2 DEF TradeStep
    <3>3. r \in Sales /\ s.realized \in Int
      BY <1>1, SellIsFold DEF Profits
    <3>. HIDE DEF r
    <3>4. r.gain \in Int
      BY <3>3 DEF Sales
    <3>5. s.realized - t.fee + r.gain = s.realized + (r.gain - t.fee)
      BY <1>1, <3>3, <3>4
    <3>. QED
      BY <3>1, <3>2, <3>5
  <2>. QED
    BY <2>1, <2>2
<1>5. t.filled = t.amount => u = t
  BY DEF u, Trade
<1>. QED
  BY <1>1, <1>4, <1>5, TradeStepTyped DEF Fifo

\* A trade more leaves those before it where they are.
LEMMA PrefixKept ==
  ASSUME NEW El, NEW ts \in Seq(El), NEW x \in El
  PROVE  /\ Len(ts) \in Nat /\ Len(Append(ts, x)) = Len(ts) + 1
         /\ Append(ts, x) \in Seq(El)
         /\ (\A i \in 1..Len(ts) : Append(ts, x)[i] = ts[i])
         /\ Append(ts, x)[Len(ts) + 1] = x
OBVIOUS

\* Units are trades.
LEMMA UnitsAreTrades ==
  ASSUME NEW ts \in Seq(Trade), NEW side
  PROVE  Units(ts, side) \in Seq(Trade) /\ Len(Units(ts, side)) \in Nat
<1>. DEFINE n == Len(ts)
<1>1. \A vs \in Seq(Trade), t \in Trade : Laid(side)[vs][t] \in Seq(Trade)
  BY LaidTyped
<1>2. /\ <<>> \in Seq(Trade) /\ n \in Nat
      /\ (\A i \in 1..n : ts[i] \in Trade) /\ 1..n \in SUBSET (1..n)
  OBVIOUS
<1>. HIDE DEF n
<1>3. \A t \in SUBSET (1..n) : Folding(Laid(side), <<>>, ts, n)[t] \in Seq(Trade)
  BY <1>1, <1>2, FoldOfTyped
<1>4. Units(ts, side) \in Seq(Trade)
  BY <1>2, <1>3, UnitsAreFold DEF FoldOf, n
<1>. QED
  BY <1>4

\* A trade more appends its units.
LEMMA UnitsOfMore ==
  ASSUME NEW ts \in Seq(Trade), NEW x \in Trade, NEW side
  PROVE  /\ Units(ts, side) \in Seq(Trade)
         /\ Units(Append(ts, x), side) = Units(ts, side) \o UnitsOf(x, side)
<1>. DEFINE n == Len(ts)
            us == FoldOf(Laid(side), <<>>, ts, n)
<1>1. Append(ts, x) \in Seq(Trade) /\ n \in Nat
  BY PrefixKept
<1>2. Units(ts, side) = us
  BY UnitsAreFold
<1>3. Units(Append(ts, x), side) = FoldOf(Laid(side), <<>>, Append(ts, x), n + 1)
  BY <1>1, PrefixKept, UnitsAreFold
<1>4. us \in Seq(Trade)
  BY <1>2, UnitsAreTrades
<1>5. FoldOf(Laid(side), <<>>, Append(ts, x), n + 1) = Laid(side)[us][x]
  <2>1. (\A i \in 1..n : ts[i] = Append(ts, x)[i]) /\ Append(ts, x)[n + 1] = x
    OBVIOUS
  <2>. DEFINE z == Append(ts, x)
              m == n + 1
  <2>2. n \in Nat /\ m = n + 1 /\ (\A i \in 1..n : ts[i] = z[i]) /\ z[m] = x
    BY <1>1, <2>1
  <2>. HIDE DEF n, z, m
  <2>3. FoldOf(Laid(side), <<>>, z, m) = Laid(side)[FoldOf(Laid(side), <<>>, ts, n)][z[m]]
    BY <2>2, FoldOfOneMore
  <2>. QED
    BY <2>2, <2>3 DEF z, m
<1>. HIDE DEF us
<1>. QED
  BY <1>2, <1>3, <1>4, <1>5, LaidTyped

\* No trades, no units.
LEMMA UnitsOfNothing ==
  ASSUME NEW side
  PROVE  Units(<<>>, side) = <<>>
<1>1. <<>> \in Seq(Trade) /\ Len(<<>>) = 0
  OBVIOUS
<1>2. Units(<<>>, side) = FoldOf(Laid(side), <<>>, <<>>, Len(<<>>))
  BY <1>1, UnitsAreFold
<1>. QED
  BY <1>1, <1>2, FoldOfNothing

\* fifo_detail() is the fold of its step,
LEMMA FifoIsFold ==
  ASSUME NEW ts \in Seq(Trade)
  PROVE  /\ fifo_detail(ts) = FoldOf(Fifo, NoLots, ts, Len(ts))
         /\ fifo_detail(ts) \in Profits
<1>. DEFINE n == Len(ts)
            k == Folding(Fifo, NoLots, ts, n)
            Equation(f) == f = [t \in SUBSET DOMAIN ts |->
              IF t = {} THEN NoLots ELSE fifo_trade(f[t \ {Max(t)}], ts[Max(t)])]
            c == CHOOSE f : Equation(f)
<1>1. n \in Nat /\ DOMAIN ts = 1..n /\ \A i \in 1..n : ts[i] \in Trade
  OBVIOUS
<1>2. fifo_detail(ts) = c[DOMAIN ts]
  BY DEF fifo_detail, FoldLeft, MapThenFoldSet
<1>3. \A s \in Profits, t \in Trade : Fifo[s][t] \in Profits
  BY FifoStepIs
<1>4. NoLots \in Profits
  BY DEF NoLots, Profits
<1>5. IsFold(Fifo, NoLots, ts, 1..n, k)
  BY <1>1, FoldingFolds
<1>6. \A t \in SUBSET (1..n) : k[t] \in Profits
  <2>. HIDE DEF n
  <2>. QED
    BY <1>1, <1>3, <1>4, FoldOfTyped
<1>7. Equation(k)
  <2>. HIDE DEF k, n
  <2>1. ASSUME NEW t \in SUBSET (1..n), t # {}
        PROVE  k[t] = fifo_trade(k[t \ {Max(t)}], ts[Max(t)])
    <3>1. Rest(t) \in SUBSET (1..n) /\ ts[Max(t)] \in Trade
      BY <1>1, <2>1, RestIsLess
    <3>2. k[t] = Fifo[k[Rest(t)]][ts[Max(t)]]
      BY <1>5, <2>1 DEF IsFold
    <3>. QED
      BY <1>6, <3>1, <3>2, FifoStepIs DEF Rest
  <2>2. k[{}] = NoLots /\ k = [t \in SUBSET (1..n) |-> k[t]]
    BY <1>5 DEF IsFold
  <2>. QED
    BY <1>1, <2>1, <2>2
<1>8. Equation(c)
  BY <1>7
<1>9. k[1..n] = c[1..n]
  <2>. HIDE DEF n
  <2>1. \A t \in SUBSET (1..n) : t # {} /\ k[t \ {Max(t)}] = c[t \ {Max(t)}] => k[t] = c[t]
    <3>. HIDE DEF k, c
    <3>. QED
      BY <1>1, <1>7, <1>8
  <2>2. k[{}] = c[{}]
    <3>. HIDE DEF k, c
    <3>. QED
      BY <1>1, <1>7, <1>8
  <2>. HIDE DEF k, c
  <2>. QED
    BY <1>1, <2>1, <2>2, FoldsAlike DEF Rest
<1>10. k[1..n] = FoldOf(Fifo, NoLots, ts, n) /\ 1..n \in SUBSET (1..n)
  BY DEF FoldOf
<1>. HIDE DEF k, c
<1>. QED
  BY <1>1, <1>2, <1>6, <1>9, <1>10

\* so a trade more is a step more.
LEMMA FifoOfMore ==
  ASSUME NEW ts \in Seq(Trade), NEW x \in Trade
  PROVE  fifo_detail(Append(ts, x)) = fifo_trade(fifo_detail(ts), x)
<1>. DEFINE n == Len(ts)
<1>1. Append(ts, x) \in Seq(Trade) /\ n \in Nat
  BY PrefixKept
<1>2. fifo_detail(Append(ts, x)) = FoldOf(Fifo, NoLots, Append(ts, x), n + 1)
  BY <1>1, PrefixKept, FifoIsFold
<1>3. FoldOf(Fifo, NoLots, Append(ts, x), n + 1) = Fifo[FoldOf(Fifo, NoLots, ts, n)][x]
  <2>1. (\A i \in 1..n : ts[i] = Append(ts, x)[i]) /\ Append(ts, x)[n + 1] = x
    OBVIOUS
  <2>. DEFINE z == Append(ts, x)
              m == n + 1
  <2>2. n \in Nat /\ m = n + 1 /\ (\A i \in 1..n : ts[i] = z[i]) /\ z[m] = x
    BY <1>1, <2>1
  <2>. HIDE DEF n, z, m
  <2>3. FoldOf(Fifo, NoLots, z, m) = Fifo[FoldOf(Fifo, NoLots, ts, n)][z[m]]
    BY <2>2, FoldOfOneMore
  <2>. QED
    BY <2>2, <2>3 DEF z, m
<1>. QED
  BY <1>2, <1>3, FifoIsFold, FifoStepIs

\* The day's version, lots and all.
DayOf(ts, day) == FoldOf(OfDay(day), NoLots, ts, Len(ts))

\* pnl_of_day() is the profit of the day's fold,
LEMMA DayIsFold ==
  ASSUME NEW ts \in Seq(Trade), NEW day
  PROVE  /\ pnl_of_day(ts, day) = DayOf(ts, day).realized
         /\ DayOf(ts, day) \in Profits
<1>. DEFINE n == Len(ts)
            k == Folding(OfDay(day), NoLots, ts, n)
            Equation(f) == f = [t \in SUBSET DOMAIN ts |->
              IF t = {} THEN NoLots ELSE DayStep(f[t \ {Max(t)}], ts[Max(t)], day)]
            c == CHOOSE f : Equation(f)
<1>1. n \in Nat /\ DOMAIN ts = 1..n /\ \A i \in 1..n : ts[i] \in Trade
  OBVIOUS
<1>2. pnl_of_day(ts, day) = c[DOMAIN ts].realized
  BY DEF pnl_of_day, FoldLeft, MapThenFoldSet, DayStep
<1>3. \A s \in Profits, t \in Trade : OfDay(day)[s][t] \in Profits
  BY DayStepIs DEF OfDay
<1>4. NoLots \in Profits
  BY DEF NoLots, Profits
<1>5. IsFold(OfDay(day), NoLots, ts, 1..n, k)
  BY <1>1, FoldingFolds
<1>6. \A t \in SUBSET (1..n) : k[t] \in Profits
  <2>. HIDE DEF n
  <2>. QED
    BY <1>1, <1>3, <1>4, FoldOfTyped
<1>7. Equation(k)
  <2>. HIDE DEF k, n
  <2>1. ASSUME NEW t \in SUBSET (1..n), t # {}
        PROVE  k[t] = DayStep(k[t \ {Max(t)}], ts[Max(t)], day)
    <3>1. Rest(t) \in SUBSET (1..n) /\ ts[Max(t)] \in Trade
      BY <1>1, <2>1, RestIsLess
    <3>2. k[t] = OfDay(day)[k[Rest(t)]][ts[Max(t)]]
      BY <1>5, <2>1 DEF IsFold
    <3>. QED
      BY <1>6, <3>1, <3>2 DEF Rest, OfDay
  <2>2. k[{}] = NoLots /\ k = [t \in SUBSET (1..n) |-> k[t]]
    BY <1>5 DEF IsFold
  <2>. QED
    BY <1>1, <2>1, <2>2
<1>8. Equation(c)
  BY <1>7
<1>9. k[1..n] = c[1..n]
  <2>. HIDE DEF n
  <2>1. \A t \in SUBSET (1..n) : t # {} /\ k[t \ {Max(t)}] = c[t \ {Max(t)}] => k[t] = c[t]
    <3>. HIDE DEF k, c
    <3>. QED
      BY <1>1, <1>7, <1>8
  <2>2. k[{}] = c[{}]
    <3>. HIDE DEF k, c
    <3>. QED
      BY <1>1, <1>7, <1>8
  <2>. HIDE DEF k, c
  <2>. QED
    BY <1>1, <2>1, <2>2, FoldsAlike DEF Rest
<1>10. k[1..n] = DayOf(ts, day) /\ 1..n \in SUBSET (1..n)
  BY DEF FoldOf, DayOf
<1>. HIDE DEF k, c
<1>. QED
  BY <1>1, <1>2, <1>6, <1>9, <1>10

\* and there too a trade more is a step more.
LEMMA DayOfMore ==
  ASSUME NEW ts \in Seq(Trade), NEW x \in Trade, NEW day
  PROVE  DayOf(Append(ts, x), day) = TradeStep(DayOf(ts, day), x, x.day = day)
<1>. DEFINE n == Len(ts)
<1>1. Append(ts, x) \in Seq(Trade) /\ n \in Nat
  BY PrefixKept
<1>2. DayOf(Append(ts, x), day) = FoldOf(OfDay(day), NoLots, Append(ts, x), n + 1)
  BY <1>1, PrefixKept DEF DayOf
<1>3. FoldOf(OfDay(day), NoLots, Append(ts, x), n + 1) = OfDay(day)[DayOf(ts, day)][x]
  <2>1. (\A i \in 1..n : ts[i] = Append(ts, x)[i]) /\ Append(ts, x)[n + 1] = x
    OBVIOUS
  <2>. DEFINE z == Append(ts, x)
              m == n + 1
  <2>2. n \in Nat /\ m = n + 1 /\ (\A i \in 1..n : ts[i] = z[i]) /\ z[m] = x
    BY <1>1, <2>1
  <2>. HIDE DEF n, z, m
  <2>3. FoldOf(OfDay(day), NoLots, z, m) = OfDay(day)[FoldOf(OfDay(day), NoLots, ts, n)][z[m]]
    BY <2>2, FoldOfOneMore
  <2>. QED
    BY <2>2, <2>3 DEF z, m, n, DayOf
<1>. QED
  BY <1>2, <1>3, DayIsFold, DayStepIs

\* Both begin without lots.
LEMMA NothingMatched ==
  /\ fifo_detail(<<>>) = NoLots
  /\ \A day : DayOf(<<>>, day) = NoLots
<1>1. <<>> \in Seq(Trade) /\ Len(<<>>) = 0
  OBVIOUS
<1>. QED
  BY <1>1, FifoIsFold, FoldOfNothing DEF DayOf

(* The lots are the units from a up to b, in order; C[k] is what the first *)
(* k units cost.                                                           *)
Even(C, a, lot) == \A j \in 0..lot.qty : C[a + j] = C[a] + j * lot.price

\* at[i] is where the i-th lot begins.
Covers(lots, C, a, b) ==
  \E at \in [1..(Len(lots) + 1) -> a..b] :
    /\ at[1] = a /\ at[Len(lots) + 1] = b
    /\ \A i \in 1..Len(lots) :
         at[i + 1] = at[i] + lots[i].qty /\ Even(C, at[i], lots[i])

\* No lots cover no units,
LEMMA CoversNothing ==
  ASSUME NEW C, NEW a \in Nat
  PROVE  Covers(<<>>, C, a, a)
<1>. DEFINE at == [i \in 1..1 |-> a]
<1>1. at \in [1..1 -> a..a] /\ at[1] = a
  OBVIOUS
<1>2. Len(<<>>) = 0 /\ Len(<<>>) + 1 = 1
  OBVIOUS
<1>. HIDE DEF at
<1>. QED
  BY <1>1, <1>2 DEF Covers

\* and no units are covered by no lots.
LEMMA CoversLess ==
  ASSUME NEW lots \in Seq(Lots), NEW C, NEW a \in Nat, Covers(lots, C, a, a)
  PROVE  lots = <<>>
<1>1. PICK at \in [1..(Len(lots) + 1) -> a..a] :
        \A i \in 1..Len(lots) : at[i + 1] = at[i] + lots[i].qty
  BY DEF Covers
<1>. SUFFICES ASSUME Len(lots) # 0 PROVE FALSE
  OBVIOUS
<1>2. 1 \in 1..Len(lots) /\ lots[1] \in Lots /\ 2 \in 1..(Len(lots) + 1) /\ 1 \in 1..(Len(lots) + 1)
  OBVIOUS
<1>3. at[1] = a /\ at[2] = a /\ at[2] = at[1] + lots[1].qty
  BY <1>1, <1>2
<1>4. lots[1].qty \in Nat \ {0}
  BY <1>2 DEF Lots
<1>. QED
  BY <1>3, <1>4

\* Only what these units cost matters.
LEMMA CoversSame ==
  ASSUME NEW lots \in Seq(Lots), NEW C, NEW D, NEW a \in Nat, NEW b \in Nat,
         Covers(lots, C, a, b), \A k \in a..b : C[k] = D[k]
  PROVE  Covers(lots, D, a, b)
<1>1. PICK at \in [1..(Len(lots) + 1) -> a..b] :
        /\ at[1] = a /\ at[Len(lots) + 1] = b
        /\ \A i \in 1..Len(lots) :
             at[i + 1] = at[i] + lots[i].qty /\ Even(C, at[i], lots[i])
  BY DEF Covers
<1>2. ASSUME NEW i \in 1..Len(lots) PROVE Even(D, at[i], lots[i])
  <2>1. at[i] \in a..b /\ at[i + 1] \in a..b /\ lots[i] \in Lots
    OBVIOUS
  <2>2. lots[i].qty \in Nat
    BY <2>1 DEF Lots
  <2>3. at[i + 1] = at[i] + lots[i].qty /\ Even(C, at[i], lots[i])
    BY <1>1
  <2>4. \A j \in 0..lots[i].qty : at[i] + j \in a..b
    BY <2>1, <2>2, <2>3
  <2>. QED
    BY <2>1, <2>3, <2>4 DEF Even
<1>. QED
  BY <1>1, <1>2 DEF Covers

\* One more lot of the units that follow.
LEMMA CoversMore ==
  ASSUME NEW lots \in Seq(Lots), NEW lot \in Lots, NEW C, NEW a \in Nat, NEW b \in Nat,
         Covers(lots, C, a, b), Even(C, b, lot)
  PROVE  Covers(Append(lots, lot), C, a, b + lot.qty)
<1>. DEFINE n == Len(lots)
            more == Append(lots, lot)
            d == b + lot.qty
<1>1. PICK at \in [1..(n + 1) -> a..b] :
        /\ at[1] = a /\ at[n + 1] = b
        /\ \A i \in 1..n : at[i + 1] = at[i] + lots[i].qty /\ Even(C, at[i], lots[i])
  BY DEF Covers
<1>. DEFINE to == [i \in 1..(n + 2) |-> IF i = n + 2 THEN d ELSE at[i]]
<1>2. lot.qty \in Nat /\ d \in Nat /\ b <= d /\ n \in Nat
  BY DEF Lots
<1>3. Len(more) = n + 1 /\ (\A i \in 1..n : more[i] = lots[i]) /\ more[n + 1] = lot
  OBVIOUS
<1>4. a <= b
  BY <1>1, <1>2
<1>5. to \in [1..(n + 2) -> a..d]
  BY <1>1, <1>2, <1>4
<1>6. to[1] = a /\ to[n + 2] = d
  BY <1>1, <1>2
<1>7. ASSUME NEW i \in 1..(n + 1)
      PROVE  to[i + 1] = to[i] + more[i].qty /\ Even(C, to[i], more[i])
  <2>1. CASE i = n + 1
    BY <1>1, <1>2, <1>3, <2>1
  <2>2. CASE i # n + 1
    BY <1>1, <1>2, <1>3, <2>2
  <2>. QED
    BY <2>1, <2>2
<1>8. (n + 1) + 1 = n + 2
  BY <1>2
<1>. HIDE DEF more, d, to, n
<1>9. Covers(more, C, a, d)
  BY <1>3, <1>5, <1>6, <1>7, <1>8 DEF Covers
<1>. QED
  BY <1>9 DEF more, d

\* Products of sums.
LEMMA Distributes ==
  ASSUME NEW a \in Int, NEW b \in Int, NEW c \in Int
  PROVE  /\ (a + b) * c = a * c + b * c /\ (a - b) * c = a * c - b * c
         /\ a * c \in Int /\ b * c \in Int /\ a * c = c * a
OBVIOUS

(* How far the loop has got with a sale of the units from a to e, at x:    *)
(* what it has left to sell, the gain so far, the lots it keeps.           *)
Sold(s, C, price, a, e, x) ==
  IF x <= e
  THEN s.left = e - x /\ s.gain = (x - a) * price - (C[x] - C[a]) /\ s.lots = <<>>
  ELSE s.left = 0 /\ s.gain = (e - a) * price - (C[e] - C[a]) /\ Covers(s.lots, C, e, x)

\* The loop gets as far as the lot reaches.
LEMMA SellOne ==
  ASSUME NEW s \in Sales, NEW lot \in Lots, NEW price \in Int, NEW C,
         NEW a \in Nat, NEW e \in Nat, NEW x \in Nat, a <= e, a <= x,
         \A k \in a..(x + lot.qty) : C[k] \in Int, C[e] \in Int,
         Even(C, x, lot), Sold(s, C, price, a, e, x)
  PROVE  Sold(SellStep(s, lot, price), C, price, a, e, x + lot.qty)
<1>. DEFINE q == lot.qty
            p == lot.price
            r == SellStep(s, lot, price)
            y == x + q
<1>1. q \in Nat \ {0} /\ p \in Int /\ s.left \in Nat /\ s.gain \in Int /\ s.lots \in Seq(Lots)
  BY DEF Lots, Sales
<1>2. C[x] \in Int /\ C[a] \in Int /\ C[y] \in Int /\ y \in Nat
  BY <1>1
<1>3. \A j \in 0..q : C[x + j] = C[x] + j * p
  BY DEF Even
<1>4. CASE e < x
  <2>1. s.left = 0 /\ s.gain = (e - a) * price - (C[e] - C[a]) /\ Covers(s.lots, C, e, x)
    BY <1>4 DEF Sold
  <2>2. Smaller(s.left, q) = 0 /\ 0 # q
    BY <1>1, <2>1 DEF Smaller
  <2>3. [lot EXCEPT !.qty = q - 0] = lot
    BY <1>1 DEF Lots
  <2>4. (price - p) * 0 = 0
    BY <1>1
  <2>5. r = [left |-> s.left - 0, gain |-> s.gain + 0, lots |-> Append(s.lots, lot)]
    BY <2>2, <2>3, <2>4 DEF SellStep
  <2>6. r.left = 0 /\ r.gain = s.gain /\ r.lots = Append(s.lots, lot)
    BY <1>1, <2>1, <2>5
  <2>7. Covers(r.lots, C, e, y)
    BY <1>1, <2>1, <2>6, CoversMore
  <2>8. ~(y <= e)
    BY <1>1, <1>4
  <2>. QED
    BY <2>1, <2>6, <2>7, <2>8 DEF Sold
<1>5. CASE x <= e /\ y <= e
  <2>1. s.left = e - x /\ s.gain = (x - a) * price - (C[x] - C[a]) /\ s.lots = <<>>
    BY <1>5 DEF Sold
  <2>2. Smaller(s.left, q) = q
    BY <1>1, <1>5, <2>1 DEF Smaller
  <2>3. r = [left |-> s.left - q, gain |-> s.gain + (price - p) * q, lots |-> s.lots]
    BY <2>2 DEF SellStep
  <2>4. s.left - q = e - y
    BY <1>1, <2>1
  <2>5. C[y] = C[x] + q * p
    <3>1. q \in 0..q
      BY <1>1
    <3>. QED
      BY <1>3, <3>1
  <2>6. s.gain + (price - p) * q = (y - a) * price - (C[y] - C[a])
    <3>. DEFINE u == x - a
                ap == u * price
                qs == q * price
                qp == q * p
                pq == (price - p) * q
                yp == (y - a) * price
    <3>1. u \in Int /\ y - a = u + q
      BY <1>1
    <3>2. pq = qs - qp
      <4>1. (price - p) * q = price * q - p * q
        BY <1>1, Distributes
      <4>. QED
        BY <1>1, <4>1, Distributes
    <3>3. yp = ap + qs /\ ap \in Int /\ qs \in Int /\ qp \in Int
      <4>1. (u + q) * price = u * price + q * price /\ u * price \in Int /\ q * price \in Int
        BY <1>1, <3>1, Distributes
      <4>2. q * p \in Int
        BY <1>1, Distributes
      <4>. HIDE DEF u, y
      <4>. QED
        BY <3>1, <4>1, <4>2
    <3>4. s.gain = ap - (C[x] - C[a]) /\ C[y] = C[x] + qp
      BY <2>1, <2>5
    <3>. HIDE DEF u, ap, qs, qp, pq, yp, y
    <3>5. s.gain + pq = yp - (C[y] - C[a])
      BY <1>2, <3>2, <3>3, <3>4
    <3>. QED
      BY <3>5 DEF pq, yp
  <2>. QED
    BY <1>5, <2>1, <2>3, <2>4, <2>6 DEF Sold
<1>6. CASE x <= e /\ e < y
  <2>. DEFINE m == e - x
              part == [lot EXCEPT !.qty = q - m]
  <2>1. s.left = m /\ s.gain = (x - a) * price - (C[x] - C[a]) /\ s.lots = <<>>
    BY <1>6 DEF Sold
  <2>2. m \in Nat /\ m < q /\ m \in 0..q /\ x + m = e
    BY <1>1, <1>6
  <2>3. Smaller(s.left, q) = m /\ m # q
    BY <1>1, <2>1, <2>2 DEF Smaller
  <2>4. r = [left |-> s.left - m, gain |-> s.gain + (price - p) * m, lots |-> Append(s.lots, part)]
    BY <2>3 DEF SellStep
  <2>5. part \in Lots /\ part.qty = q - m /\ part.price = p
    <3>1. q - m \in Nat \ {0}
      BY <1>1, <2>2
    <3>. HIDE DEF m
    <3>. QED
      BY <1>1, <3>1 DEF Lots
  <2>6. C[e] = C[x] + m * p
    BY <1>3, <2>2
  <2>7. ASSUME NEW j \in 0..part.qty PROVE C[e + j] = C[e] + j * part.price
    <3>. HIDE DEF part
    <3>1. m + j \in 0..q /\ e + j = x + (m + j) /\ j \in Int
      BY <1>1, <2>2, <2>5
    <3>2. C[e + j] = C[x] + (m + j) * p
      BY <1>3, <3>1
    <3>. DEFINE mp == m * p
                jp == j * p
    <3>. HIDE DEF m
    <3>3. (m + j) * p = mp + jp /\ mp \in Int /\ jp \in Int
      <4>1. m \in Int /\ j \in Int /\ p \in Int
        BY <1>1, <2>2, <3>1
      <4>. HIDE DEF p
      <4>. QED
        BY <4>1, Distributes
    <3>4. C[e + j] = C[x] + (mp + jp) /\ C[e] = C[x] + mp
      BY <2>6, <3>2, <3>3
    <3>5. C[e + j] = C[e] + jp
      <4>. HIDE DEF mp, jp
      <4>. QED
        BY <1>2, <3>3, <3>4
    <3>. QED
      BY <2>5, <3>5
  <2>8. Even(C, e, part)
    BY <2>7 DEF Even
  <2>9. Covers(Append(<<>>, part), C, e, e + part.qty)
    <3>1. <<>> \in Seq(Lots) /\ Covers(<<>>, C, e, e)
      BY CoversNothing
    <3>. HIDE DEF part
    <3>. QED
      BY <2>5, <2>8, <3>1, CoversMore
  <2>10. e + part.qty = y
    BY <1>1, <2>2, <2>5
  <2>11. s.gain + (price - p) * m = (e - a) * price - (C[e] - C[a])
    <3>. DEFINE u == x - a
                ap == u * price
                mP == m * price
                mp == m * p
                pm == (price - p) * m
                ep == (e - a) * price
    <3>1. u \in Int /\ e - a = u + m
      BY <1>1
    <3>2. s.gain = ap - (C[x] - C[a]) /\ C[e] = C[x] + mp
      BY <2>1, <2>6
    <3>. HIDE DEF m
    <3>3. pm = mP - mp
      <4>1. (price - p) * m = price * m - p * m
        BY <1>1, <2>2, Distributes
      <4>. QED
        BY <1>1, <2>2, <4>1, Distributes
    <3>4. ep = ap + mP /\ ap \in Int /\ mP \in Int /\ mp \in Int
      <4>1. (u + m) * price = u * price + m * price
        BY <2>2, <3>1, Distributes
      <4>. QED
        BY <1>1, <2>2, <3>1, <4>1
    <3>. HIDE DEF u, ap, mP, mp, pm, ep
    <3>5. s.gain + pm = ep - (C[e] - C[a])
      BY <1>2, <3>2, <3>3, <3>4
    <3>. QED
      BY <3>5 DEF pm, ep
  <2>12. r.left = 0 /\ r.gain = s.gain + (price - p) * m /\ r.lots = Append(<<>>, part)
    BY <2>1, <2>2, <2>4
  <2>13. ~(y <= e)
    BY <1>2, <1>6
  <2>. HIDE DEF r, y, part, m
  <2>14. Sold(r, C, price, a, e, y)
    BY <2>9, <2>10, <2>11, <2>12, <2>13 DEF Sold
  <2>. QED
    BY <2>14 DEF r, y
<1>. QED
  BY <1>1, <1>4, <1>5, <1>6

\* A sale takes the oldest units: its gain is what they fetch less their cost.
LEMMA SaleTakesOldest ==
  ASSUME NEW lots \in Seq(Lots), NEW C, NEW a \in Nat, NEW b \in Nat, NEW q \in Nat,
         NEW price \in Int, \A k \in a..b : C[k] \in Int, a + q <= b,
         Covers(lots, C, a, b)
  PROVE  LET r == sell_lots(lots, q, price)
         IN  /\ Covers(r.lots, C, a + q, b)
             /\ r.gain = q * price - (C[a + q] - C[a])
<1>. DEFINE n == Len(lots)
            e == a + q
            after(i) == FoldOf(Sell(price), Begin(q), lots, i)
<1>1. PICK at \in [1..(n + 1) -> a..b] :
        /\ at[1] = a /\ at[n + 1] = b
        /\ \A i \in 1..n : at[i + 1] = at[i] + lots[i].qty /\ Even(C, at[i], lots[i])
  BY DEF Covers
<1>2. \A i \in 0..n : after(i) \in Sales
  BY SellIsFold
<1>3. n \in Nat /\ e \in Nat /\ a <= e /\ e \in a..b /\ C[e] \in Int
  OBVIOUS
<1>4. \A i \in 0..n : Sold(after(i), C, price, a, e, at[i + 1])
  <2>. DEFINE N == {i \in 0..n : ~Sold(after(i), C, price, a, e, at[i + 1])}
  <2>. SUFFICES ASSUME N # {} PROVE FALSE
    OBVIOUS
  <2>1. PICK i \in N : \A j \in N : i <= j
    <3>1. N \in SUBSET Nat
      OBVIOUS
    <3>. HIDE DEF N
    <3>. QED
      BY <3>1, LeastNumber
  <2>2. CASE i = 0
    <3>1. after(0) = Begin(q) /\ at[0 + 1] = a
      BY <1>1, FoldOfNothing
    <3>2. (a - a) * price = 0 /\ C[a] - C[a] = 0 /\ e - a = q
      BY <1>3
    <3>3. Sold(Begin(q), C, price, a, e, a)
      BY <1>3, <3>2 DEF Sold, Begin
    <3>. QED
      BY <2>1, <2>2, <3>1, <3>3
  <2>3. CASE i # 0
    <3>. DEFINE j == i - 1
    <3>1. j \in 0..n /\ i \in 1..n /\ j + 1 = i /\ j \in Nat /\ j \notin N
      <4>1. j \in 0..n /\ i \in 1..n /\ j + 1 = i /\ j \in Nat
        BY <2>1, <2>3
      <4>2. ~(i <= j)
        BY <4>1
      <4>. HIDE DEF N
      <4>. QED
        BY <2>1, <4>1, <4>2
    <3>2. Sold(after(j), C, price, a, e, at[i])
      BY <3>1
    <3>3. after(i) = Sell(price)[after(j)][lots[i]]
      <4>. HIDE DEF j
      <4>1. FoldOf(Sell(price), Begin(q), lots, j + 1)
              = Sell(price)[FoldOf(Sell(price), Begin(q), lots, j)][lots[j + 1]]
        BY <3>1, FoldOfMore
      <4>. QED
        BY <3>1, <4>1
    <3>4. after(j) \in Sales /\ lots[i] \in Lots
      BY <1>2, <3>1
    <3>. HIDE DEF after, j
    <3>5. after(i) = SellStep(after(j), lots[i], price)
      BY <3>3, <3>4, SellStepTyped
    <3>6. at[i] \in a..b /\ at[i + 1] \in a..b /\ at[i + 1] = at[i] + lots[i].qty /\ Even(C, at[i], lots[i])
      <4>1. i \in 1..(n + 1) /\ i + 1 \in 1..(n + 1)
        BY <1>3, <3>1
      <4>. HIDE DEF n
      <4>. QED
        BY <1>1, <3>1, <4>1
    <3>7. \A k \in a..(at[i] + lots[i].qty) : C[k] \in Int
      BY <3>6
    <3>8. Sold(SellStep(after(j), lots[i], price), C, price, a, e, at[i] + lots[i].qty)
      <4>. DEFINE x == at[i]
                  lot == lots[i]
                  s == after(j)
      <4>1. x \in Nat /\ a <= x /\ \A k \in a..(x + lot.qty) : C[k] \in Int
        BY <3>6, <3>7
      <4>2. s \in Sales /\ lot \in Lots /\ Even(C, x, lot) /\ Sold(s, C, price, a, e, x)
        BY <3>2, <3>4, <3>6
      <4>. HIDE DEF x, lot, s, e
      <4>3. Sold(SellStep(s, lot, price), C, price, a, e, x + lot.qty)
        BY <1>3, <4>1, <4>2, SellOne
      <4>. QED
        BY <4>3 DEF x, lot, s
    <3>9. ~Sold(after(i), C, price, a, e, at[i + 1])
      BY <2>1
    <3>. QED
      BY <3>5, <3>6, <3>8, <3>9
  <2>. QED
    BY <2>2, <2>3
<1>. DEFINE r == sell_lots(lots, q, price)
<1>5. r = after(n) /\ n \in 0..n
  BY <1>3, SellIsFold
<1>6. Sold(r, C, price, a, e, b)
  BY <1>1, <1>4, <1>5
<1>. HIDE DEF r, after
<1>7. e - a = q
  OBVIOUS
<1>8. CASE b <= e
  <2>1. b = e /\ r.gain = (b - a) * price - (C[b] - C[a]) /\ r.lots = <<>>
    BY <1>3, <1>6, <1>8 DEF Sold
  <2>2. Covers(r.lots, C, e, b)
    BY <1>3, <2>1, CoversNothing
  <2>. QED
    BY <1>7, <2>1, <2>2 DEF r
<1>9. CASE ~(b <= e)
  <2>1. r.gain = (e - a) * price - (C[e] - C[a]) /\ Covers(r.lots, C, e, b)
    BY <1>6, <1>9 DEF Sold
  <2>. QED
    BY <1>7, <2>1 DEF r
<1>. QED
  BY <1>8, <1>9

(* One trade more.  Its units come last.                                   *)
LEMMA UnitsGrow ==
  ASSUME NEW ts \in Seq(Trade), NEW x \in Trade, NEW side
  PROVE  LET us == Units(ts, side)
             more == Units(Append(ts, x), side)
         IN  /\ us \in Seq(Trade) /\ more \in Seq(Trade)
             /\ Len(us) \in Nat /\ Len(more) = Len(us) + (IF x.side = side THEN x.filled ELSE 0)
             /\ x.side # side => more = us
             /\ \A k \in 1..Len(us) : more[k] = us[k]
             /\ \A k \in (Len(us) + 1)..Len(more) : more[k] = x
<1>. DEFINE us == Units(ts, side)
            more == Units(Append(ts, x), side)
            xs == UnitsOf(x, side)
<1>1. us \in Seq(Trade) /\ more = us \o xs
  BY UnitsOfMore
<1>2. /\ xs \in Seq(Trade) /\ Len(xs) = (IF x.side = side THEN x.filled ELSE 0)
      /\ \A i \in 1..Len(xs) : xs[i] = x
  BY UnitsTyped
<1>3. x.side # side => xs = <<>>
  BY DEF UnitsOf
<1>. HIDE DEF us, more, xs
<1>4. more \in Seq(Trade) /\ Len(more) = Len(us) + Len(xs) /\ Len(us) \in Nat /\ Len(xs) \in Nat
  <2>1. xs \in Seq(Trade)
    BY <1>2
  <2>2. Len(us \o xs) = Len(us) + Len(xs) /\ us \o xs \in Seq(Trade)
    BY <1>1, <2>1
  <2>. QED
    BY <1>1, <2>1, <2>2
<1>5. ASSUME NEW k \in 1..Len(us) PROVE more[k] = us[k]
  BY <1>1, <1>2, <1>4, <1>5
<1>6. ASSUME NEW k \in (Len(us) + 1)..Len(more) PROVE more[k] = x
  <2>1. k - Len(us) \in 1..Len(xs)
    BY <1>4, <1>6
  <2>2. more[k] = xs[k - Len(us)]
    BY <1>1, <1>2, <1>4, <1>6
  <2>. QED
    BY <1>2, <2>1, <2>2
<1>7. x.side # side => more = us
  BY <1>1, <1>3
<1>. QED
  BY <1>1, <1>2, <1>4, <1>5, <1>6, <1>7 DEF us, more

\* A sum over indices grows by the last.
LEMMA SumGrows ==
  ASSUME NEW n \in Nat, NEW f, NEW h, DOMAIN f = 1..n, DOMAIN h = 1..(n + 1),
         \A i \in 1..n : f[i] \in Int /\ h[i] = f[i], h[n + 1] \in Int
  PROVE  SumFunction(f) \in Int /\ SumFunction(h) = SumFunction(f) + h[n + 1]
<1>1. SumFunction(f) = TotalTo(f, n) /\ SumFunction(h) = TotalTo(h, n + 1)
  BY DEF SumFunction, TotalTo
<1>2. \A i \in 1..(n + 1) : h[i] \in Int
  OBVIOUS
<1>3. TotalTo(h, n + 1) = TotalTo(h, n) + h[n + 1]
  BY <1>2, TotalOfMore
<1>4. TotalTo(h, n) = TotalTo(f, n)
  BY TotalOfSame
<1>5. TotalTo(f, n) \in Int
  <2>1. \A i \in 1..n : f[i] \in Int
    OBVIOUS
  <2>. QED
    BY <2>1, TotalTyped
<1>. QED
  BY <1>1, <1>3, <1>4, <1>5

\* The fees of a side grow by the trade's, if it is of that side.
LEMMA FeesGrow ==
  ASSUME NEW ts \in Seq(Trade), NEW x \in Trade, NEW side
  PROVE  /\ Fees(ts, side) \in Int
         /\ Fees(Append(ts, x), side) = Fees(ts, side) + IF x.side = side THEN x.fee ELSE 0
<1>. DEFINE n == Len(ts)
            z == Append(ts, x)
            f == [i \in DOMAIN ts |-> IF ts[i].side = side THEN ts[i].fee ELSE 0]
            h == [i \in DOMAIN z |-> IF z[i].side = side THEN z[i].fee ELSE 0]
<1>1. /\ n \in Nat /\ DOMAIN ts = 1..n /\ DOMAIN z = 1..(n + 1)
      /\ (\A i \in 1..n : z[i] = ts[i] /\ ts[i] \in Trade) /\ z[n + 1] = x
  OBVIOUS
<1>2. \A t \in Trade : t.fee \in Int
  BY DEF Trade
<1>3. Fees(ts, side) = SumFunction(f) /\ Fees(z, side) = SumFunction(h)
  BY DEF Fees
<1>. HIDE DEF n, z
<1>4. DOMAIN f = 1..n /\ DOMAIN h = 1..(n + 1) /\ h[n + 1] = (IF x.side = side THEN x.fee ELSE 0)
  BY <1>1
<1>5. \A i \in 1..n : f[i] \in Int /\ h[i] = f[i]
  BY <1>1, <1>2
<1>6. h[n + 1] \in Int
  BY <1>2, <1>4
<1>. HIDE DEF f, h
<1>. QED
  BY <1>1, <1>3, <1>4, <1>5, <1>6, SumGrows DEF z

(* What the units bought have cost, one by one and the first k of them.    *)
CostOf(ts) == [k \in DOMAIN Units(ts, "buy") |-> UnitCost(Units(ts, "buy")[k])]
Costs(ts) == [k \in 0..Len(Units(ts, "buy")) |-> TotalTo(CostOf(ts), k)]

\* All of these are integers.
LEMMA CostsTyped ==
  ASSUME NEW ts \in Seq(Trade)
  PROVE  LET b == Len(Units(ts, "buy"))
         IN  /\ b \in Nat /\ Units(ts, "buy") \in Seq(Trade)
             /\ \A k \in 1..b : CostOf(ts)[k] \in Int
             /\ \A k \in 0..b : Costs(ts)[k] \in Int
<1>. DEFINE us == Units(ts, "buy")
            b == Len(us)
<1>1. b \in Nat /\ us \in Seq(Trade)
  BY UnitsAreTrades
<1>2. \A t \in Trade : UnitCost(t) \in Int
  <2>. SUFFICES ASSUME NEW t \in Trade PROVE UnitCost(t) \in Int
    OBVIOUS
  <2>1. t.price \in Nat /\ t.fee \in Nat /\ t.filled \in Nat \ {0}
    BY DEF Trade
  <2>. QED
    BY <2>1 DEF UnitCost
<1>3. ASSUME NEW k \in 1..b PROVE CostOf(ts)[k] \in Int
  <2>1. us[k] \in Trade /\ k \in DOMAIN us
    BY <1>1
  <2>. QED
    BY <1>2, <2>1 DEF CostOf
<1>4. ASSUME NEW k \in 0..b PROVE Costs(ts)[k] \in Int
  <2>1. Costs(ts)[k] = TotalTo(CostOf(ts), k)
    BY DEF Costs
  <2>2. k \in Nat /\ \A i \in 1..k : CostOf(ts)[i] \in Int
    BY <1>1, <1>3
  <2>. QED
    BY <2>1, <2>2, TotalTyped
<1>. QED
  BY <1>1, <1>3, <1>4

\* Units bought and units sold.
NBought(ts) == Len(Units(ts, "buy"))
NSold(ts) == Len(Units(ts, "sell"))

(* What the k-th unit sold brings.                                         *)
GainOf(ts) ==
  [k \in DOMAIN Units(ts, "sell") |->
     Units(ts, "sell")[k].price - Units(ts, "buy")[k].price
       - Units(ts, "buy")[k].fee \div Units(ts, "buy")[k].filled]

\* MatchedUnits() is their sum, less the fees of the sales.
LEMMA MatchedIs ==
  ASSUME NEW ts \in Seq(Trade), NSold(ts) <= NBought(ts)
  PROVE  /\ \A k \in 1..NSold(ts) :
              /\ GainOf(ts)[k] = Units(ts, "sell")[k].price - CostOf(ts)[k]
              /\ GainOf(ts)[k] \in Int
         /\ MatchedUnits(ts) = TotalTo(GainOf(ts), NSold(ts)) - Fees(ts, "sell")
         /\ MatchedUnits(ts) \in Int
<1>. DEFINE bought == Units(ts, "buy")
            sold == Units(ts, "sell")
            b == NBought(ts)
            s == NSold(ts)
<1>1. /\ bought \in Seq(Trade) /\ sold \in Seq(Trade) /\ b \in Nat /\ s \in Nat
      /\ b = Len(bought) /\ s = Len(sold)
  BY UnitsAreTrades DEF NBought, NSold
<1>2. ASSUME NEW k \in 1..s
      PROVE  /\ GainOf(ts)[k] = sold[k].price - CostOf(ts)[k]
             /\ GainOf(ts)[k] \in Int
  <2>1. k \in DOMAIN sold /\ k \in DOMAIN bought /\ sold[k] \in Trade /\ bought[k] \in Trade
    BY <1>1
  <2>2. GainOf(ts)[k] = sold[k].price - bought[k].price - bought[k].fee \div bought[k].filled
    BY <2>1 DEF GainOf
  <2>3. CostOf(ts)[k] = bought[k].price + bought[k].fee \div bought[k].filled
    BY <2>1 DEF CostOf, UnitCost
  <2>. HIDE DEF bought, sold
  <2>4. /\ sold[k].price \in Int /\ bought[k].price \in Int
        /\ bought[k].fee \in Nat /\ bought[k].filled \in Nat \ {0}
    BY <2>1 DEF Trade
  <2>. DEFINE f == bought[k].fee \div bought[k].filled
  <2>5. f \in Int
    BY <2>4
  <2>. HIDE DEF f
  <2>6. GainOf(ts)[k] = sold[k].price - bought[k].price - f /\ CostOf(ts)[k] = bought[k].price + f
    BY <2>2, <2>3 DEF f
  <2>. QED
    BY <2>4, <2>5, <2>6
<1>3. MatchedUnits(ts) = SumFunction(GainOf(ts)) - Fees(ts, "sell")
  BY DEF MatchedUnits, GainOf
<1>4. DOMAIN GainOf(ts) = 1..s
  BY <1>1 DEF GainOf
<1>5. SumFunction(GainOf(ts)) = TotalTo(GainOf(ts), s)
  BY <1>4 DEF SumFunction, TotalTo
<1>6. TotalTo(GainOf(ts), s) \in Int
  BY <1>1, <1>2, TotalTyped
<1>7. Fees(ts, "sell") \in Int
  <2>1. \A t \in Trade : Fees(ts, "sell") \in Int
    BY FeesGrow
  <2>2. [side |-> "buy", amount |-> 1, filled |-> 1, price |-> 0, fee |-> 0, day |-> 0] \in Trade
    BY DEF Trade
  <2>. QED
    BY <2>1, <2>2
<1>. QED
  BY <1>2, <1>3, <1>5, <1>6, <1>7

\* A purchase adds one lot of units behind all others and matches nothing.
LEMMA BuyingMore ==
  ASSUME NEW ts \in Seq(Trade), NEW x \in Trade, x.side = "buy", NSold(ts) <= NBought(ts)
  PROVE  LET z == Append(ts, x)
             b == NBought(ts)
         IN  /\ NBought(z) = b + x.filled /\ NSold(z) = NSold(ts)
             /\ MatchedUnits(z) = MatchedUnits(ts)
             /\ Even(Costs(z), b, [qty |-> x.filled, price |-> UnitCost(x)])
             /\ \A k \in 0..b : Costs(ts)[k] = Costs(z)[k]
<1>. DEFINE z == Append(ts, x)
            b == NBought(ts)
            s == NSold(ts)
            d == NBought(z)
            us == Units(ts, "buy")
            vs == Units(z, "buy")
<1>1. x.filled \in Nat \ {0} /\ x.fee \in Int /\ UnitCost(x) \in Int /\ z \in Seq(Trade)
  <2>1. x.price \in Nat /\ x.fee \in Nat /\ x.filled \in Nat \ {0}
    BY DEF Trade
  <2>. QED
    BY <2>1, PrefixKept DEF UnitCost
<1>2. /\ us \in Seq(Trade) /\ vs \in Seq(Trade) /\ b \in Nat /\ d = b + x.filled
      /\ (\A k \in 1..b : vs[k] = us[k]) /\ \A k \in (b + 1)..d : vs[k] = x
  BY UnitsGrow DEF NBought
<1>3. Units(z, "sell") = Units(ts, "sell") /\ NSold(z) = s /\ s \in Nat
  BY UnitsGrow DEF NSold
<1>4. d \in Nat /\ b <= d /\ (1..b) \in SUBSET (1..d) /\ d = Len(vs) /\ b = Len(us)
  BY <1>1, <1>2 DEF NBought
<1>5. /\ (\A k \in 1..b : CostOf(ts)[k] = CostOf(z)[k])
      /\ \A k \in (b + 1)..d : CostOf(z)[k] = UnitCost(x)
  <2>1. DOMAIN us = 1..b /\ DOMAIN vs = 1..d
    BY <1>2, <1>4
  <2>. QED
    BY <1>2, <1>4, <2>1 DEF CostOf
<1>6. \A k \in 1..d : CostOf(z)[k] \in Int
  BY <1>1, <1>4, CostsTyped DEF NBought
<1>7. ASSUME NEW k \in 0..b PROVE Costs(ts)[k] = Costs(z)[k]
  <2>1. k \in Nat /\ k \in 0..d /\ \A i \in 1..k : i \in 1..b
    BY <1>4
  <2>2. Costs(ts)[k] = TotalTo(CostOf(ts), k) /\ Costs(z)[k] = TotalTo(CostOf(z), k)
    BY <1>4, <2>1 DEF Costs
  <2>3. \A i \in 1..k : CostOf(ts)[i] = CostOf(z)[i]
    BY <1>5, <2>1
  <2>4. TotalTo(CostOf(ts), k) = TotalTo(CostOf(z), k)
    BY <2>1, <2>3, TotalOfSame
  <2>. QED
    BY <2>2, <2>4
<1>. DEFINE lot == [qty |-> x.filled, price |-> UnitCost(x)]
<1>8. ASSUME NEW j \in 0..lot.qty PROVE Costs(z)[b + j] = Costs(z)[b] + j * lot.price
  <2>1. Repeated(CostOf(z), UnitCost(x), b, d)
    BY <1>1, <1>2, <1>4, <1>5, <1>6 DEF Repeated
  <2>2. b + j \in b..d /\ (b + j) - b = j /\ b + j \in 0..d /\ b \in 0..d
    BY <1>1, <1>2
  <2>3. Costs(z)[b + j] = TotalTo(CostOf(z), b + j) /\ Costs(z)[b] = TotalTo(CostOf(z), b)
    BY <1>4, <2>2 DEF Costs
  <2>. DEFINE k == b + j
  <2>4. TotalTo(CostOf(z), k) = TotalTo(CostOf(z), b) + (k - b) * UnitCost(x)
    <3>. HIDE DEF k, b, d, z
    <3>. QED
      BY <2>1, <2>2, TotalRepeated DEF k
  <2>5. lot.price = UnitCost(x)
    OBVIOUS
  <2>. HIDE DEF lot
  <2>. QED
    BY <2>2, <2>3, <2>4, <2>5
<1>9. Even(Costs(z), b, lot)
  BY <1>8 DEF Even
<1>10. MatchedUnits(z) = MatchedUnits(ts)
  <2>1. NSold(z) <= NBought(z)
    BY <1>1, <1>2, <1>3
  <2>2. \A k \in 1..s : GainOf(z)[k] = GainOf(ts)[k]
    <3>1. \A k \in 1..s : k \in 1..b
      BY <1>2, <1>3
    <3>2. \A k \in 1..s : /\ GainOf(ts)[k] = Units(ts, "sell")[k].price - CostOf(ts)[k]
                          /\ GainOf(z)[k] = Units(ts, "sell")[k].price - CostOf(z)[k]
      BY <1>1, <1>3, <2>1, MatchedIs
    <3>. QED
      BY <1>5, <3>1, <3>2
  <2>3. TotalTo(GainOf(z), s) = TotalTo(GainOf(ts), s)
    BY <1>3, <2>2, TotalOfSame
  <2>4. Fees(ts, "sell") \in Int /\ Fees(z, "sell") = Fees(ts, "sell") + 0
    BY FeesGrow
  <2>5. MatchedUnits(ts) = TotalTo(GainOf(ts), s) - Fees(ts, "sell")
    BY MatchedIs
  <2>6. MatchedUnits(z) = TotalTo(GainOf(z), s) - Fees(z, "sell")
    BY <1>1, <1>3, <2>1, MatchedIs
  <2>. QED
    BY <2>3, <2>4, <2>5, <2>6
<1>. QED
  BY <1>2, <1>3, <1>7, <1>9, <1>10

\* A sale is matched with the units that follow those sold before.
LEMMA SellingMore ==
  ASSUME NEW ts \in Seq(Trade), NEW x \in Trade, x.side = "sell",
         NSold(ts) + x.filled <= NBought(ts)
  PROVE  LET z == Append(ts, x)
             s == NSold(ts)
         IN  /\ NBought(z) = NBought(ts) /\ NSold(z) = s + x.filled
             /\ Costs(z) = Costs(ts)
             /\ MatchedUnits(z) = MatchedUnits(ts)
                  + ((x.filled * x.price - (Costs(ts)[s + x.filled] - Costs(ts)[s])) - x.fee)
<1>. DEFINE z == Append(ts, x)
            b == NBought(ts)
            s == NSold(ts)
            e == s + x.filled
            us == Units(ts, "sell")
            vs == Units(z, "sell")
<1>1. x.filled \in Nat \ {0} /\ x.fee \in Int /\ x.price \in Int /\ z \in Seq(Trade)
  BY PrefixKept DEF Trade
<1>2. /\ us \in Seq(Trade) /\ vs \in Seq(Trade) /\ s \in Nat /\ NSold(z) = e
      /\ (\A k \in 1..s : vs[k] = us[k]) /\ \A k \in (s + 1)..e : vs[k] = x
  BY UnitsGrow DEF NSold
<1>3. Units(z, "buy") = Units(ts, "buy") /\ NBought(z) = b /\ b \in Nat
  BY UnitsGrow DEF NBought
<1>4. CostOf(z) = CostOf(ts) /\ Costs(z) = Costs(ts)
  BY <1>3 DEF CostOf, Costs
<1>5. e \in Nat /\ s <= e /\ e <= b /\ (\A k \in 1..s : k \in 1..e) /\ \A k \in 1..e : k \in 1..b
  BY <1>1, <1>2, <1>3
<1>6. \A k \in 1..b : CostOf(ts)[k] \in Int
  BY CostsTyped DEF NBought
<1>7. \A k \in 1..s : /\ GainOf(ts)[k] = us[k].price - CostOf(ts)[k]
                      /\ GainOf(ts)[k] \in Int
  BY <1>2, <1>5, MatchedIs
<1>8. \A k \in 1..e : /\ GainOf(z)[k] = vs[k].price - CostOf(ts)[k]
                      /\ GainOf(z)[k] \in Int
  BY <1>1, <1>2, <1>3, <1>4, <1>5, MatchedIs
<1>9. TakenFrom(GainOf(z), CostOf(ts), x.price, s, e)
  <2>1. \A k \in (s + 1)..e : k \in 1..e
    BY <1>2
  <2>. HIDE DEF e, z, s, b, us, vs
  <2>. QED
    BY <1>1, <1>2, <1>5, <1>6, <1>8, <2>1 DEF TakenFrom
<1>10. TotalTo(GainOf(z), e) - TotalTo(GainOf(z), s)
         = (e - s) * x.price - (TotalTo(CostOf(ts), e) - TotalTo(CostOf(ts), s))
  <2>1. e \in s..e
    BY <1>2, <1>5
  <2>. HIDE DEF e, z, s
  <2>. QED
    BY <1>9, <2>1, TotalTaken
<1>11. TotalTo(GainOf(z), s) = TotalTo(GainOf(ts), s)
  <2>1. \A k \in 1..s : GainOf(z)[k] = GainOf(ts)[k]
    BY <1>2, <1>5, <1>7, <1>8
  <2>. QED
    BY <1>2, <2>1, TotalOfSame
<1>12. Costs(ts)[e] = TotalTo(CostOf(ts), e) /\ Costs(ts)[s] = TotalTo(CostOf(ts), s)
  BY <1>1, <1>2, <1>3 DEF Costs, NBought
<1>13. Fees(ts, "sell") \in Int /\ Fees(z, "sell") = Fees(ts, "sell") + x.fee
  BY FeesGrow
<1>14. MatchedUnits(ts) = TotalTo(GainOf(ts), s) - Fees(ts, "sell")
  BY <1>1, <1>2, <1>3, MatchedIs
<1>15. MatchedUnits(z) = TotalTo(GainOf(z), e) - Fees(z, "sell")
  BY <1>1, <1>2, <1>3, MatchedIs
<1>16. /\ TotalTo(GainOf(z), e) \in Int /\ TotalTo(GainOf(ts), s) \in Int
       /\ Costs(ts)[e] \in Int /\ Costs(ts)[s] \in Int
  <2>1. TotalTo(GainOf(z), e) \in Int /\ TotalTo(GainOf(ts), s) \in Int
    BY <1>2, <1>5, <1>7, <1>8, TotalTyped
  <2>2. e \in 0..b /\ s \in 0..b
    BY <1>2, <1>3, <1>5
  <2>. QED
    BY <2>1, <2>2, CostsTyped DEF NBought
<1>. DEFINE qp == x.filled * x.price
<1>17. qp \in Int /\ (e - s) * x.price = qp
  <2>1. e - s = x.filled
    BY <1>1, <1>2
  <2>. QED
    BY <1>1, <2>1
<1>18. TotalTo(GainOf(z), e) - TotalTo(GainOf(z), s) = qp - (Costs(ts)[e] - Costs(ts)[s])
  BY <1>10, <1>12, <1>17
<1>. HIDE DEF qp
<1>19. MatchedUnits(z) = MatchedUnits(ts) + ((qp - (Costs(ts)[e] - Costs(ts)[s])) - x.fee)
  <2>. HIDE DEF e, s, z
  <2>. QED
    BY <1>1, <1>11, <1>13, <1>14, <1>15, <1>16, <1>17, <1>18
<1>. QED
  BY <1>2, <1>3, <1>4, <1>19 DEF qp

\* A trade through the lots leaves the units that were bought and not sold.
LEMMA StepMatches ==
  ASSUME NEW ts \in Seq(Trade), NEW x \in Trade, NEW s \in Profits, NEW counts \in BOOLEAN,
         NSold(ts) <= NBought(ts), NSold(Append(ts, x)) <= NBought(Append(ts, x)),
         Covers(s.lots, Costs(ts), NSold(ts), NBought(ts))
  PROVE  LET z == Append(ts, x)
             r == TradeStep(s, x, counts)
         IN  /\ Covers(r.lots, Costs(z), NSold(z), NBought(z))
             /\ r.realized = s.realized
                  + IF counts THEN MatchedUnits(z) - MatchedUnits(ts) ELSE 0
<1>. DEFINE z == Append(ts, x)
            r == TradeStep(s, x, counts)
            a == NSold(ts)
            b == NBought(ts)
            C == Costs(ts)
            D == Costs(z)
<1>1. /\ a \in Nat /\ b \in Nat /\ s.lots \in Seq(Lots) /\ s.realized \in Int
      /\ x.filled \in Nat \ {0} /\ x.price \in Nat /\ x.fee \in Nat
      /\ x.side \in {"buy", "sell"} /\ z \in Seq(Trade) /\ DOMAIN s = {"lots", "realized"}
  BY UnitsAreTrades, PrefixKept DEF NSold, NBought, Profits, Trade
<1>2. MatchedUnits(ts) \in Int /\ MatchedUnits(z) \in Int
  BY <1>1, MatchedIs
<1>3. \A k \in a..b : C[k] \in Int
  BY <1>1, CostsTyped DEF NBought
<1>4. CASE x.side = "buy"
  <2>. DEFINE lot == [qty |-> x.filled, price |-> UnitCost(x)]
  <2>1. /\ NBought(z) = b + x.filled /\ NSold(z) = a
        /\ MatchedUnits(z) = MatchedUnits(ts) /\ Even(D, b, lot)
        /\ \A k \in 0..b : C[k] = D[k]
    BY <1>4, BuyingMore
  <2>2. lot \in Lots /\ lot.qty = x.filled
    BY <1>1 DEF Lots, UnitCost
  <2>3. r = [s EXCEPT !.lots = Append(s.lots, lot)]
    BY <1>4 DEF TradeStep
  <2>4. r.lots = Append(s.lots, lot) /\ r.realized = s.realized
    BY <1>1, <2>3
  <2>5. \A k \in a..b : C[k] = D[k]
    BY <1>1, <2>1
  <2>. HIDE DEF lot, C, D, a, b, z, r
  <2>6. Covers(s.lots, D, a, b)
    BY <1>1, <2>5, CoversSame DEF a, b, C
  <2>7. Covers(Append(s.lots, lot), D, a, b + lot.qty)
    BY <1>1, <2>1, <2>2, <2>6, CoversMore
  <2>8. Covers(r.lots, D, NSold(z), NBought(z))
    BY <2>1, <2>2, <2>4, <2>7
  <2>9. r.realized = s.realized + IF counts THEN MatchedUnits(z) - MatchedUnits(ts) ELSE 0
    BY <1>1, <1>2, <2>1, <2>4
  <2>. QED
    BY <2>8, <2>9 DEF z, r, D
<1>5. CASE x.side = "sell"
  <2>. DEFINE q == x.filled
              p == x.price
              u == sell_lots(s.lots, q, p)
              gain == q * p - (C[a + q] - C[a])
  <2>1. NSold(z) = a + q /\ NBought(z) = b
    BY <1>5, UnitsGrow DEF NSold, NBought
  <2>2. a + q <= b
    BY <2>1
  <2>3. D = C /\ MatchedUnits(z) = MatchedUnits(ts) + (gain - x.fee)
    BY <1>5, <2>2, SellingMore
  <2>4. Covers(u.lots, C, a + q, b) /\ u.gain = gain
    <3>1. q \in Nat /\ p \in Int
      BY <1>1
    <3>. HIDE DEF a, b, C, q, p
    <3>2. Covers(s.lots, C, a, b)
      BY DEF a, b, C
    <3>. QED
      BY <1>1, <1>3, <2>2, <3>1, <3>2, SaleTakesOldest
  <2>5. u \in Sales
    BY <1>1, SellIsFold
  <2>6. u.gain \in Int
    BY <2>5 DEF Sales
  <2>7. r = [lots |-> u.lots, realized |-> s.realized + IF counts THEN u.gain - x.fee ELSE 0]
    BY <1>5 DEF TradeStep
  <2>. HIDE DEF u, gain, C, D, a, b, z, r, q
  <2>8. Covers(r.lots, D, NSold(z), NBought(z))
    BY <2>1, <2>3, <2>4, <2>7
  <2>9. r.realized = s.realized + IF counts THEN MatchedUnits(z) - MatchedUnits(ts) ELSE 0
    BY <1>1, <1>2, <2>3, <2>4, <2>6, <2>7
  <2>. QED
    BY <2>8, <2>9 DEF z, r, D
<1>. QED
  BY <1>1, <1>4, <1>5

\* What never sold too much had not before its last trade,
LEMMA NeverOversoldKept ==
  ASSUME NEW ts \in Seq(Trade), NEW x \in Trade, NeverOversold(Append(ts, x))
  PROVE  NeverOversold(ts)
<1>. DEFINE n == Len(ts)
            z == Append(ts, x)
<1>1. n \in Nat /\ Len(z) = n + 1
  OBVIOUS
<1>2. ASSUME NEW m \in 1..n
      PROVE  Len(Units(SubSeq(ts, 1, m), "sell")) <= Len(Units(SubSeq(ts, 1, m), "buy"))
  <2>1. m \in 1..Len(z)
    BY <1>1
  <2>2. SubSeq(z, 1, m) = SubSeq(ts, 1, m)
    OBVIOUS
  <2>3. Len(Units(SubSeq(z, 1, m), "sell")) <= Len(Units(SubSeq(z, 1, m), "buy"))
    BY <2>1 DEF NeverOversold
  <2>. QED
    BY <2>2, <2>3
<1>. QED
  BY <1>2 DEF NeverOversold

\* and has not by now.
LEMMA NotOversold ==
  ASSUME NEW ts \in Seq(Trade), NeverOversold(ts)
  PROVE  NSold(ts) <= NBought(ts)
<1>1. CASE ts = <<>>
  <2>1. Units(ts, "sell") = <<>> /\ Units(ts, "buy") = <<>>
    BY <1>1, UnitsOfNothing
  <2>. QED
    BY <2>1 DEF NSold, NBought
<1>2. CASE ts # <<>>
  <2>1. Len(ts) \in 1..Len(ts) /\ SubSeq(ts, 1, Len(ts)) = ts
    BY <1>2
  <2>2. Len(Units(SubSeq(ts, 1, Len(ts)), "sell")) <= Len(Units(SubSeq(ts, 1, Len(ts)), "buy"))
    BY <2>1 DEF NeverOversold
  <2>. QED
    BY <2>1, <2>2 DEF NSold, NBought
<1>. QED
  BY <1>1, <1>2

(* The days that were traded on, and the profits of all of them.           *)
Days(ts) == {ts[i].day : i \in DOMAIN ts}

\* A trade adds its day to them.
LEMMA DaysGrow ==
  ASSUME NEW ts \in Seq(Trade), NEW x \in Trade
  PROVE  Days(Append(ts, x)) = Days(ts) \cup {x.day} /\ IsFiniteSet(Days(ts))
<1>1. /\ Len(ts) \in Nat /\ DOMAIN ts = 1..Len(ts) /\ DOMAIN Append(ts, x) = 1..(Len(ts) + 1)
      /\ (\A i \in 1..Len(ts) : Append(ts, x)[i] = ts[i]) /\ Append(ts, x)[Len(ts) + 1] = x
  OBVIOUS
<1>2. Days(Append(ts, x)) = Days(ts) \cup {x.day}
  BY <1>1 DEF Days
<1>3. IsFiniteSet(DOMAIN ts)
  BY <1>1, FS_Interval
<1>4. IsFiniteSet(Days(ts))
  <2>. DEFINE f == [i \in DOMAIN ts |-> ts[i].day]
  <2>1. f \in Surjection(DOMAIN ts, Days(ts))
    BY DEF Surjection, Days
  <2>. HIDE DEF f
  <2>. QED
    BY <1>3, <2>1, FS_Surjection
<1>. QED
  BY <1>2, <1>4

\* What the days make together.
SumOfDays(ts) == SumFunction([d \in Days(ts) |-> pnl_of_day(ts, d)])

\* A trade moves the profit of its own day only.
LEMMA SumOfDaysGrows ==
  ASSUME NEW ts \in Seq(Trade), NEW x \in Trade, NEW gain \in Int,
         \A d : pnl_of_day(Append(ts, x), d) = pnl_of_day(ts, d) + IF x.day = d THEN gain ELSE 0,
         x.day \notin Days(ts) => pnl_of_day(ts, x.day) = 0
  PROVE  SumOfDays(ts) \in Int /\ SumOfDays(Append(ts, x)) = SumOfDays(ts) + gain
<1>. DEFINE z == Append(ts, x)
            day == x.day
            f == [d \in Days(ts) |-> pnl_of_day(ts, d)]
            h == [d \in Days(z) |-> pnl_of_day(z, d)]
            R == Days(ts) \ {day}
<1>1. Days(z) = Days(ts) \cup {day} /\ IsFiniteSet(Days(ts)) /\ IsFiniteSet(Days(z)) /\ IsFiniteSet(R)
  <2>1. Days(z) = Days(ts) \cup {day} /\ IsFiniteSet(Days(ts))
    BY DaysGrow
  <2>. HIDE DEF z, day
  <2>. QED
    BY <2>1, FS_AddElement, FS_Subset
<1>2. \A d : pnl_of_day(ts, d) \in Int
  BY DayIsFold DEF Profits
<1>3. SumOfDays(ts) = SumFunctionOnSet(f, Days(ts)) /\ SumOfDays(z) = SumFunctionOnSet(h, Days(z))
  BY DEF SumOfDays, SumFunction
<1>4. \A d \in Days(ts) : f[d] = pnl_of_day(ts, d) /\ f[d] \in Int
  BY <1>2
<1>5. \A d \in Days(z) : h[d] = pnl_of_day(ts, d) + (IF day = d THEN gain ELSE 0) /\ h[d] \in Int
  BY <1>2
<1>6. day \in Days(z) /\ Days(z) \ {day} = R
  BY <1>1
<1>7. R \in SUBSET Days(ts) /\ R \in SUBSET Days(z) /\ day \notin R
  BY <1>1
<1>8. \A d \in R : h[d] = f[d]
  BY <1>2, <1>4, <1>5, <1>7
<1>9. Alike(h, f, R)
  BY <1>8 DEF Alike
<1>. HIDE DEF f, h, R, z
<1>10. SumFunctionOnSet(h, Days(z)) = h[day] + SumFunctionOnSet(h, R)
  <2>. DEFINE S == Days(z)
  <2>1. IsFiniteSet(S) /\ day \in S /\ (\A d \in S : h[d] \in Int) /\ S \ {day} = R
    BY <1>1, <1>5, <1>6
  <2>. HIDE DEF S, day
  <2>2. SumFunctionOnSet(h, S) = h[day] + SumFunctionOnSet(h, S \ {day})
    BY <2>1, SumWithout
  <2>. QED
    BY <2>1, <2>2 DEF S
<1>11. SumFunctionOnSet(h, R) = SumFunctionOnSet(f, R)
  BY <1>1, <1>9, SumOfSame
<1>12. SumFunctionOnSet(f, R) \in Int
  BY <1>1, <1>4, <1>7, SumIsInteger
<1>13. SumFunctionOnSet(f, Days(ts)) = pnl_of_day(ts, day) + SumFunctionOnSet(f, R)
  <2>. DEFINE S == Days(ts)
  <2>1. IsFiniteSet(S) /\ (\A d \in S : f[d] \in Int) /\ S \ {day} = R
    BY <1>1, <1>4 DEF R
  <2>2. CASE day \in S
    <3>1. f[day] = pnl_of_day(ts, day)
      BY <1>4, <2>2
    <3>. HIDE DEF S, day
    <3>2. SumFunctionOnSet(f, S) = f[day] + SumFunctionOnSet(f, S \ {day})
      BY <2>1, <2>2, SumWithout
    <3>. QED
      BY <2>1, <3>1, <3>2 DEF S
  <2>3. CASE day \notin S
    <3>1. S = R
      BY <2>1, <2>3
    <3>2. pnl_of_day(ts, day) = 0
      BY <2>3
    <3>. QED
      BY <1>12, <3>1, <3>2
  <2>. QED
    BY <2>2, <2>3
<1>14. h[day] = pnl_of_day(ts, day) + gain
  BY <1>5, <1>6
<1>15. pnl_of_day(ts, day) \in Int
  BY <1>2
<1>. QED
  BY <1>3, <1>10, <1>11, <1>12, <1>13, <1>14, <1>15 DEF z

\* The lots left cover the units bought and not sold.
Remaining(s, ts) == Covers(s.lots, Costs(ts), NSold(ts), NBought(ts))

(* What the two ways of matching have in common: as long as never more was *)
(* sold than bought, both keep the units that are left, and what they made *)
(* is what the units matched one by one make.                              *)
FifoInv(ts) ==
  NeverOversold(ts) =>
    /\ Complete(ts) => /\ Remaining(fifo_detail(ts), ts)
                       /\ fifo_detail(ts).realized = MatchedUnits(ts)
    /\ SumOfDays(ts) = MatchedUnits(ts)
    /\ \A d : Remaining(DayOf(ts, d), ts)
    /\ \A d : d \notin Days(ts) => DayOf(ts, d).realized = 0

\* Before the first trade there is nothing to match.
LEMMA NothingTraded ==
  /\ NSold(<<>>) = 0 /\ NBought(<<>>) = 0
  /\ MatchedUnits(<<>>) = 0 /\ NoLots.lots = <<>> /\ NoLots.realized = 0
  /\ Remaining(NoLots, <<>>)
<1>1. NSold(<<>>) = 0 /\ NBought(<<>>) = 0
  BY UnitsOfNothing DEF NSold, NBought
<1>2. <<>> \in Seq(Trade) /\ DOMAIN <<>> = {}
  OBVIOUS
<1>3. NoLots.lots = <<>> /\ NoLots.realized = 0
  BY DEF NoLots
<1>4. Remaining(NoLots, <<>>)
  BY <1>1, <1>3, CoversNothing DEF Remaining
<1>5. Fees(<<>>, "sell") = 0
  <2>. DEFINE f == [i \in {} |-> IF <<>>[i].side = "sell" THEN <<>>[i].fee ELSE 0]
  <2>1. Fees(<<>>, "sell") = SumFunction(f)
    BY <1>2 DEF Fees
  <2>2. DOMAIN f = {}
    OBVIOUS
  <2>. QED
    BY <2>1, <2>2, SumOfNothing DEF SumFunction
<1>6. MatchedUnits(<<>>) = 0
  <2>1. MatchedUnits(<<>>) = TotalTo(GainOf(<<>>), NSold(<<>>)) - Fees(<<>>, "sell")
    <3>1. NSold(<<>>) <= NBought(<<>>)
      BY <1>1
    <3>. DEFINE ts == <<>>
    <3>2. ts \in Seq(Trade) /\ NSold(ts) <= NBought(ts)
      BY <1>2, <3>1
    <3>. HIDE DEF ts
    <3>3. MatchedUnits(ts) = TotalTo(GainOf(ts), NSold(ts)) - Fees(ts, "sell")
      BY <3>2, MatchedIs
    <3>. QED
      BY <3>3 DEF ts
  <2>. QED
    BY <1>1, <1>5, <2>1, TotalOfNothing
<1>. QED
  BY <1>1, <1>3, <1>4, <1>6

\* That holds at first
LEMMA FifoStart == FifoInv(<<>>)
<1>1. <<>> \in Seq(Trade) /\ Days(<<>>) = {}
  BY DEF Days
<1>2. SumOfDays(<<>>) = 0
  <2>. DEFINE f == [d \in Days(<<>>) |-> pnl_of_day(<<>>, d)]
  <2>1. DOMAIN f = {}
    BY <1>1
  <2>. QED
    BY <2>1, SumOfNothing DEF SumFunction, SumOfDays
<1>. QED
  BY <1>2, NothingTraded, NothingMatched DEF FifoInv

\* and after one trade more.
LEMMA FifoMore ==
  ASSUME NEW ts \in Seq(Trade), NEW x \in Trade, FifoInv(ts)
  PROVE  FifoInv(Append(ts, x))
<1>. DEFINE z == Append(ts, x)
            gained == MatchedUnits(z) - MatchedUnits(ts)
<1>. SUFFICES ASSUME NeverOversold(z)
              PROVE  /\ Complete(z) => /\ Remaining(fifo_detail(z), z)
                                       /\ fifo_detail(z).realized = MatchedUnits(z)
                     /\ SumOfDays(z) = MatchedUnits(z)
                     /\ \A d : Remaining(DayOf(z, d), z)
                     /\ \A d : d \notin Days(z) => DayOf(z, d).realized = 0
  BY DEF FifoInv
<1>1. z \in Seq(Trade) /\ NeverOversold(ts)
  BY NeverOversoldKept, PrefixKept
<1>2. NSold(ts) <= NBought(ts) /\ NSold(z) <= NBought(z)
  BY <1>1, NotOversold
<1>3. MatchedUnits(ts) \in Int /\ MatchedUnits(z) \in Int /\ gained \in Int
  <2>1. MatchedUnits(ts) \in Int
    BY <1>2, MatchedIs
  <2>2. MatchedUnits(z) \in Int
    <3>. HIDE DEF z
    <3>. QED
      BY <1>1, <1>2, MatchedIs
  <2>. QED
    BY <2>1, <2>2
<1>4. ASSUME NEW s \in Profits, NEW counts \in BOOLEAN, Remaining(s, ts)
      PROVE  /\ Remaining(TradeStep(s, x, counts), z)
             /\ TradeStep(s, x, counts).realized = s.realized + IF counts THEN gained ELSE 0
  BY <1>2, <1>4, StepMatches DEF Remaining
<1>5. Complete(z) => Remaining(fifo_detail(z), z) /\ fifo_detail(z).realized = MatchedUnits(z)
  <2>. SUFFICES ASSUME Complete(z)
                PROVE  Remaining(fifo_detail(z), z) /\ fifo_detail(z).realized = MatchedUnits(z)
    OBVIOUS
  <2>1. Len(ts) \in Nat /\ DOMAIN z = 1..(Len(ts) + 1) /\ DOMAIN ts = 1..Len(ts)
    OBVIOUS
  <2>2. (\A i \in DOMAIN ts : i \in DOMAIN z /\ z[i] = ts[i]) /\ Len(ts) + 1 \in DOMAIN z /\ z[Len(ts) + 1] = x
    BY <2>1
  <2>3. Complete(ts) /\ x.filled = x.amount
    BY <2>2 DEF Complete
  <2>. DEFINE s == fifo_detail(ts)
  <2>4. Remaining(s, ts) /\ s.realized = MatchedUnits(ts) /\ s \in Profits
    BY <1>1, <2>3, FifoIsFold DEF FifoInv
  <2>5. fifo_detail(z) = TradeStep(s, x, TRUE)
    BY <2>3, <2>4, FifoOfMore, FifoStepIs
  <2>6. Remaining(fifo_detail(z), z) /\ fifo_detail(z).realized = s.realized + gained
    BY <1>4, <2>4, <2>5
  <2>. QED
    BY <1>3, <2>4, <2>6
<1>6. ASSUME NEW d
      PROVE  /\ Remaining(DayOf(z, d), z)
             /\ DayOf(z, d).realized = DayOf(ts, d).realized + IF x.day = d THEN gained ELSE 0
             /\ DayOf(ts, d).realized \in Int
  <2>1. DayOf(ts, d) \in Profits /\ Remaining(DayOf(ts, d), ts)
    BY <1>1, DayIsFold DEF FifoInv
  <2>2. DayOf(z, d) = TradeStep(DayOf(ts, d), x, x.day = d)
    BY DayOfMore
  <2>3. DayOf(ts, d).realized \in Int
    BY <2>1 DEF Profits
  <2>. QED
    BY <1>4, <2>1, <2>2, <2>3
<1>7. \A d : d \notin Days(ts) => DayOf(ts, d).realized = 0
  BY <1>1 DEF FifoInv
<1>8. ASSUME NEW d, d \notin Days(z) PROVE DayOf(z, d).realized = 0
  <2>1. d \notin Days(ts) /\ x.day # d
    BY <1>8, DaysGrow
  <2>. QED
    BY <1>6, <1>7, <2>1
<1>9. SumOfDays(z) = MatchedUnits(z)
  <2>1. \A d : pnl_of_day(z, d) = DayOf(z, d).realized /\ pnl_of_day(ts, d) = DayOf(ts, d).realized
    BY <1>1, DayIsFold
  <2>2. \A d : pnl_of_day(z, d) = pnl_of_day(ts, d) + IF x.day = d THEN gained ELSE 0
    BY <1>6, <2>1
  <2>3. x.day \notin Days(ts) => pnl_of_day(ts, x.day) = 0
    BY <1>7, <2>1
  <2>4. SumOfDays(z) = SumOfDays(ts) + gained
    <3>. HIDE DEF gained
    <3>. QED
      BY <1>3, <2>2, <2>3, SumOfDaysGrows
  <2>5. SumOfDays(ts) = MatchedUnits(ts)
    BY <1>1 DEF FifoInv
  <2>. QED
    BY <1>3, <2>4, <2>5
<1>. QED
  BY <1>5, <1>6, <1>8, <1>9

\* With all sold no lot is left.
LEMMA FlatHasNoLots ==
  ASSUME NEW ts \in Seq(Trade), NSold(ts) = NBought(ts), Remaining(fifo_detail(ts), ts)
  PROVE  remaining_base(ts) = 0
<1>1. fifo_detail(ts).lots \in Seq(Lots) /\ NSold(ts) \in Nat
  BY FifoIsFold, UnitsAreTrades DEF Profits, NSold
<1>2. fifo_detail(ts).lots = <<>>
  BY <1>1, CoversLess DEF Remaining
<1>. DEFINE f == [i \in {} |-> fifo_detail(ts).lots[i].qty]
<1>3. remaining_base(ts) = SumFunction(f)
  BY <1>2 DEF remaining_base
<1>4. DOMAIN f = {}
  OBVIOUS
<1>. QED
  BY <1>3, <1>4, SumOfNothing DEF SumFunction

(* Cash.  What the trades brought in and cost.                             *)
CashOf(ts) ==
  SumFunction([i \in DOMAIN ts |->
    IF ts[i].side = "sell"
    THEN ts[i].price * ts[i].filled - ts[i].fee
    ELSE -(ts[i].price * ts[i].filled) - ts[i].fee])

\* What one of them brings.
Brings(t) == IF t.side = "sell" THEN t.price * t.filled - t.fee ELSE -(t.price * t.filled) - t.fee

\* Cash grows by what the trade brings.
LEMMA CashGrows ==
  ASSUME NEW ts \in Seq(Trade), NEW x \in Trade
  PROVE  /\ CashOf(ts) \in Int /\ Brings(x) \in Int
         /\ CashOf(Append(ts, x)) = CashOf(ts) + Brings(x)
<1>. DEFINE n == Len(ts)
            z == Append(ts, x)
            f == [i \in DOMAIN ts |-> Brings(ts[i])]
            h == [i \in DOMAIN z |-> Brings(z[i])]
<1>1. /\ n \in Nat /\ DOMAIN ts = 1..n /\ DOMAIN z = 1..(n + 1)
      /\ (\A i \in 1..n : z[i] = ts[i] /\ ts[i] \in Trade) /\ z[n + 1] = x
  OBVIOUS
<1>2. ASSUME NEW t \in Trade PROVE Brings(t) \in Int
  <2>1. t.price \in Int /\ t.filled \in Int /\ t.fee \in Int
    BY DEF Trade
  <2>. QED
    BY <2>1 DEF Brings
<1>3. CashOf(ts) = SumFunction(f) /\ CashOf(z) = SumFunction(h)
  BY DEF CashOf, Brings
<1>. HIDE DEF n, z
<1>4. DOMAIN f = 1..n /\ DOMAIN h = 1..(n + 1) /\ h[n + 1] = Brings(x)
  BY <1>1
<1>5. \A i \in 1..n : f[i] \in Int /\ h[i] = f[i]
  BY <1>1, <1>2
<1>6. h[n + 1] \in Int
  BY <1>2, <1>4
<1>. HIDE DEF f, h
<1>. QED
  BY <1>1, <1>3, <1>4, <1>5, <1>6, SumGrows DEF z

\* Without trades there is none.
LEMMA NoCash == CashOf(<<>>) = 0
<1>. DEFINE f == [i \in {} |-> Brings(<<>>[i])]
<1>1. DOMAIN <<>> = {}
  OBVIOUS
<1>2. CashOf(<<>>) = SumFunction(f)
  BY <1>1 DEF CashOf, Brings
<1>3. DOMAIN f = {}
  OBVIOUS
<1>. QED
  BY <1>2, <1>3, SumOfNothing DEF SumFunction

(* The cash is what the units sold have made less what the others cost.    *)
HeldCost(ts) == Costs(ts)[NBought(ts)] - Costs(ts)[NSold(ts)]

\* Cash is what was made less what the units held have cost.
CashMatches(ts) == NeverOversold(ts) => CashOf(ts) = MatchedUnits(ts) - HeldCost(ts)

\* That holds at first
LEMMA NothingPaid == CashMatches(<<>>)
<1>1. HeldCost(<<>>) = Costs(<<>>)[0] - Costs(<<>>)[0]
  BY NothingTraded DEF HeldCost
<1>2. <<>> \in Seq(Trade) /\ Len(Units(<<>>, "buy")) = 0
  BY UnitsOfNothing
<1>3. Costs(<<>>)[0] \in Int
  <2>. DEFINE ts == <<>>
  <2>1. ts \in Seq(Trade) /\ 0 \in 0..Len(Units(ts, "buy"))
    BY <1>2
  <2>. HIDE DEF ts
  <2>2. Costs(ts)[0] \in Int
    BY <2>1, CostsTyped
  <2>. QED
    BY <2>2 DEF ts
<1>. QED
  BY <1>1, <1>3, NothingTraded, NoCash DEF CashMatches

\* The fee of a purchase is whole per unit.
WholeFee(t) == t.side = "buy" => t.fee % t.filled = 0

\* and after one trade more, if its fee divides among its units.
LEMMA CashStaysMatched ==
  ASSUME NEW ts \in Seq(Trade), NEW x \in Trade, CashMatches(ts),
         WholeFee(x)
  PROVE  CashMatches(Append(ts, x))
<1>. DEFINE z == Append(ts, x)
            a == NSold(ts)
            b == NBought(ts)
            C == Costs(ts)
            D == Costs(z)
            q == x.filled
            qp == x.filled * x.price
<1>. SUFFICES ASSUME NeverOversold(z) PROVE CashOf(z) = MatchedUnits(z) - HeldCost(z)
  BY DEF CashMatches
<1>1. z \in Seq(Trade) /\ NeverOversold(ts)
  BY NeverOversoldKept, PrefixKept
<1>2. a <= b /\ NSold(z) <= NBought(z) /\ a \in Nat /\ b \in Nat
  BY <1>1, NotOversold, UnitsAreTrades DEF NSold, NBought
<1>3. /\ q \in Nat \ {0} /\ x.price \in Nat /\ x.fee \in Nat
      /\ x.side \in {"buy", "sell"}
  BY DEF Trade
<1>4. /\ CashOf(ts) = MatchedUnits(ts) - (C[b] - C[a])
      /\ CashOf(z) = CashOf(ts) + Brings(x) /\ CashOf(ts) \in Int
  BY <1>1, CashGrows DEF CashMatches, HeldCost
<1>5. MatchedUnits(ts) \in Int
  BY <1>2, MatchedIs
<1>6. \A k \in 0..b : C[k] \in Int
  BY CostsTyped DEF NBought
<1>7. C[a] \in Int /\ C[b] \in Int
  BY <1>2, <1>6
<1>8. qp \in Int
  BY <1>3, Distributes
<1>11. x.price * x.filled = qp
  BY <1>3, Distributes
<1>9. CASE x.side = "buy"
  <2>. DEFINE lot == [qty |-> q, price |-> UnitCost(x)]
  <2>1. /\ NBought(z) = b + q /\ NSold(z) = a
        /\ MatchedUnits(z) = MatchedUnits(ts) /\ Even(D, b, lot)
        /\ \A k \in 0..b : C[k] = D[k]
    BY <1>2, <1>9, BuyingMore
  <2>2. D[b + q] = D[b] + q * UnitCost(x)
    <3>1. q \in 0..lot.qty /\ lot.price = UnitCost(x)
      BY <1>3
    <3>2. \A j \in 0..lot.qty : D[b + j] = D[b] + j * lot.price
      BY <2>1 DEF Even
    <3>. HIDE DEF lot, D, b, q
    <3>. QED
      BY <3>1, <3>2
  <2>3. q * UnitCost(x) = qp + x.fee
    <3>. DEFINE fee == x.fee
                f == fee \div q
                p == x.price
                fq == f * q
    <3>1. fee \in Int /\ p \in Int /\ fee % q = 0
      BY <1>3, <1>9 DEF WholeFee
    <3>2. UnitCost(x) = p + f
      BY DEF UnitCost
    <3>3. qp = q * p
      OBVIOUS
    <3>. HIDE DEF fee, q, p, qp
    <3>4. fee = q * f + 0 /\ f \in Int
      BY <1>3, <3>1, Division
    <3>. HIDE DEF f
    <3>5. (p + f) * q = p * q + f * q /\ (p + f) * q = q * (p + f)
      BY <1>3, <3>1, <3>4, Distributes
    <3>6. p * q = q * p /\ f * q = q * f /\ f * q \in Int
      BY <1>3, <3>1, <3>4, Distributes
    <3>7. q * (p + f) = qp + fq /\ fee = fq + 0 /\ fq \in Int
      BY <3>3, <3>4, <3>5, <3>6
    <3>8. q * (p + f) = qp + fee
      <4>. HIDE DEF fq
      <4>. QED
        BY <1>8, <3>1, <3>7
    <3>. QED
      BY <3>2, <3>8 DEF fee
  <2>4. D[b] = C[b] /\ D[a] = C[a]
    <3>1. b \in 0..b /\ a \in 0..b
      BY <1>2
    <3>. QED
      BY <2>1, <3>1
  <2>5. Brings(x) = -qp - x.fee
    BY <1>9, <1>11 DEF Brings
  <2>6. HeldCost(z) = D[b + q] - D[a]
    BY <2>1 DEF HeldCost
  <2>7. D[b + q] = C[b] + (qp + x.fee)
    BY <2>2, <2>3, <2>4
  <2>. HIDE DEF C, D, a, b, q, qp, lot, z
  <2>. QED
    BY <1>3, <1>4, <1>5, <1>7, <1>8, <2>1, <2>4, <2>5, <2>6, <2>7
<1>10. CASE x.side = "sell"
  <2>. DEFINE e == a + q
  <2>1. NSold(z) = e /\ NBought(z) = b
    BY <1>10, UnitsGrow DEF NSold, NBought
  <2>2. e <= b /\ e \in 0..b
    BY <1>2, <1>3, <2>1
  <2>3. D = C /\ MatchedUnits(z) = MatchedUnits(ts) + ((qp - (C[e] - C[a])) - x.fee)
    BY <1>10, <2>2, SellingMore
  <2>4. HeldCost(z) = C[b] - C[e] /\ C[e] \in Int
    BY <1>6, <2>1, <2>2, <2>3 DEF HeldCost
  <2>5. Brings(x) = qp - x.fee
    BY <1>10, <1>11 DEF Brings
  <2>6. MatchedUnits(z) = MatchedUnits(ts) + ((qp - (C[e] - C[a])) - x.fee)
    BY <2>3
  <2>7. CashOf(z) = (MatchedUnits(ts) - (C[b] - C[a])) + (qp - x.fee)
    BY <1>4, <2>5
  <2>. HIDE DEF C, D, a, b, q, qp, e, z
  <2>. QED
    BY <1>3, <1>5, <1>7, <1>8, <2>4, <2>6, <2>7
<1>. QED
  BY <1>3, <1>9, <1>10

(* The row: its figures are fractions, the profit in lowest terms.         *)
Rows(p) ==
  /\ DOMAIN p = {"base", "avg", "realized", "version"}
  /\ p.base \in Int /\ Fraction(p.avg) /\ Shaped(p.realized) /\ Lowest(p.realized)

(* The row accounts for the trades.                                        *)
Accounts(p, ts) ==
  /\ Rows(p)
  /\ p.base = NBought(ts) - NSold(ts)
  /\ NeverOversold(ts) => Plus(p.realized, Times(p.avg, -p.base)) = Whole(CashOf(ts))

\* Two fractions over one denominator.
LEMMA OverOne ==
  ASSUME NEW f, NEW g, Fraction(f), Fraction(g)
  PROVE  \E D \in Nat \ {0}, x \in Int, y \in Int : Is(f, x, D) /\ Is(g, y, D)
<1>1. f.n \in Int /\ g.n \in Int /\ f.d \in Nat \ {0} /\ g.d \in Nat \ {0}
  BY DEF Fraction
<1>. DEFINE D == f.d * g.d
<1>2. D \in Nat \ {0} /\ f.n * g.d \in Int /\ g.n * f.d \in Int
  BY <1>1
<1>3. f.n * D = (f.n * g.d) * f.d /\ g.n * D = (g.n * f.d) * g.d
  BY <1>1
<1>4. Is(f, f.n * g.d, D) /\ Is(g, g.n * f.d, D)
  BY <1>3 DEF Is
<1>. HIDE DEF D
<1>. QED
  BY <1>2, <1>4

\* What has a value is a fraction.
LEMMA IsFraction ==
  ASSUME NEW f, NEW x, NEW D, Is(f, x, D)
  PROVE  Fraction(f)
BY DEF Is

\* What the new position is, in numbers over one denominator.
LEMMA BoughtAverage ==
  ASSUME NEW p, Rows(p), NEW t \in Trade, t.side = "buy",
         NEW D \in Nat \ {0}, NEW R \in Int, NEW V \in Int,
         Is(p.realized, R, D), Is(p.avg, V, D)
  PROVE  LET new == p.base + t.filled
             r == average(p, t)
         IN  /\ Rows(r) /\ r.base = new /\ new \in Int
             /\ Is(r.realized, R + (-t.fee) * D, D)
             /\ new > 0 => Is(r.avg, V * p.base + (t.price * t.filled) * D, D * new)
<1>. DEFINE new == p.base + t.filled
            cost == Plus(Times(p.avg, p.base), Whole(t.price * t.filled))
            avg == IF new > 0 THEN Per(cost, new) ELSE Whole(0)
            gain == Plus(p.realized, Whole(-t.fee))
            paid == t.price * t.filled
            stock == V * p.base
<1>1. /\ p.base \in Int /\ DOMAIN p = {"base", "avg", "realized", "version"}
      /\ t.filled \in Nat \ {0} /\ t.fee \in Nat /\ paid \in Int /\ new \in Int /\ stock \in Int
      /\ paid * D \in Int /\ (-t.fee) * D \in Int /\ -t.fee \in Int
  <2>1. t.filled \in Nat \ {0} /\ t.fee \in Nat /\ t.price \in Nat /\ p.base \in Int
    BY DEF Rows, Trade
  <2>. QED
    BY <2>1 DEF Rows
<1>2. average(p, t) = [p EXCEPT !.base = new, !.avg = avg, !.realized = gain]
  BY DEF average
<1>3. Is(gain, R + (-t.fee) * D, D) /\ Shaped(gain) /\ Lowest(gain)
  <2>1. Is(Whole(-t.fee), (-t.fee) * D, D)
    BY <1>1, WholeIs
  <2>. QED
    BY <1>1, <2>1, PlusIs
<1>4. Is(cost, stock + paid * D, D)
  <2>1. Is(Times(p.avg, p.base), stock, D)
    BY <1>1, TimesIs
  <2>2. Is(Whole(paid), paid * D, D)
    BY <1>1, WholeIs
  <2>. HIDE DEF stock, paid
  <2>3. Is(Plus(Times(p.avg, p.base), Whole(paid)), stock + paid * D, D)
    BY <1>1, <2>1, <2>2, PlusIs
  <2>. QED
    BY <2>3 DEF paid
<1>5. new > 0 => Is(avg, stock + paid * D, D * new)
  <2>1. ASSUME new > 0 PROVE Is(Per(cost, new), stock + paid * D, D * new)
    <3>. HIDE DEF cost, stock, paid, new, avg, gain
    <3>1. new \in Nat \ {0} /\ stock + paid * D \in Int
      BY <1>1, <2>1
    <3>. QED
      BY <1>4, <3>1, PerIs
  <2>. HIDE DEF new, stock, paid, cost
  <2>. QED
    BY <2>1
<1>6. Fraction(avg)
  <2>1. CASE new > 0
    BY <1>5, <2>1, IsFraction
  <2>2. CASE ~(new > 0)
    BY <2>2 DEF Fraction, Whole
  <2>. QED
    BY <2>1, <2>2
<1>. HIDE DEF new, cost, avg, gain
<1>. DEFINE r == average(p, t)
<1>7. /\ r.base = new /\ r.avg = avg /\ r.realized = gain
      /\ DOMAIN r = {"base", "avg", "realized", "version"}
  BY <1>1, <1>2
<1>. HIDE DEF r
<1>8. Rows(r)
  BY <1>1, <1>3, <1>6, <1>7 DEF Rows
<1>. QED
  BY <1>1, <1>3, <1>5, <1>7, <1>8 DEF new, r

\* The same for a sale.
LEMMA SoldAverage ==
  ASSUME NEW p, Rows(p), NEW t \in Trade, t.side = "sell",
         NEW D \in Nat \ {0}, NEW R \in Int, NEW V \in Int,
         Is(p.realized, R, D), Is(p.avg, V, D)
  PROVE  LET new == p.base - t.filled
             r == average(p, t)
         IN  /\ Rows(r) /\ r.base = new /\ new \in Int
             /\ new >= 0 => Is(r.realized, R + ((t.price * t.filled) * D + V * (-t.filled))
                                           + (-t.fee) * D, D)
             /\ r.avg = IF new > 0 THEN p.avg ELSE Whole(0)
<1>. DEFINE new == p.base - t.filled
            matched == Smaller(t.filled, p.base)
            pnl == Plus(Whole(t.price * matched), Times(p.avg, -matched))
            avg == IF new > 0 THEN p.avg ELSE Whole(0)
            gain == Plus(Plus(p.realized, pnl), Whole(-t.fee))
            made == t.price * matched
            lost == V * (-matched)
<1>1. /\ p.base \in Int /\ DOMAIN p = {"base", "avg", "realized", "version"}
      /\ t.filled \in Nat \ {0} /\ t.price \in Nat /\ new \in Int
      /\ -t.fee \in Int /\ Fraction(p.avg)
  BY DEF Rows, Trade
<1>2. matched \in Int
  BY <1>1 DEF Smaller
<1>3. made \in Int /\ lost \in Int /\ -matched \in Int /\ made * D \in Int /\ (-t.fee) * D \in Int
  <2>. HIDE DEF matched
  <2>. QED
    BY <1>1, <1>2
<1>4. average(p, t) = [p EXCEPT !.base = new, !.avg = avg, !.realized = gain]
  BY DEF average
<1>5. Is(pnl, made * D + lost, D)
  <2>. HIDE DEF matched
  <2>1. Is(Times(p.avg, -matched), lost, D)
    BY <1>1, <1>3, TimesIs
  <2>2. Is(Whole(made), made * D, D)
    BY <1>1, <1>3, WholeIs
  <2>. HIDE DEF lost, made
  <2>3. Is(Plus(Whole(made), Times(p.avg, -matched)), made * D + lost, D)
    BY <1>1, <1>3, <2>1, <2>2, PlusIs
  <2>. QED
    BY <2>3 DEF made
<1>6. /\ Is(gain, R + (made * D + lost) + (-t.fee) * D, D)
      /\ Shaped(gain) /\ Lowest(gain)
  <2>. HIDE DEF matched, made, lost, pnl
  <2>1. made * D + lost \in Int
    BY <1>3
  <2>2. Is(Plus(p.realized, pnl), R + (made * D + lost), D)
    BY <1>5, <2>1, PlusIs
  <2>3. Is(Whole(-t.fee), (-t.fee) * D, D)
    BY <1>1, WholeIs
  <2>4. R + (made * D + lost) \in Int
    BY <2>1
  <2>. QED
    BY <1>3, <2>2, <2>3, <2>4, PlusIs
<1>7. Fraction(avg)
  <2>1. CASE new > 0
    BY <1>1, <2>1
  <2>2. CASE ~(new > 0)
    BY <2>2 DEF Fraction, Whole
  <2>. QED
    BY <2>1, <2>2
<1>8. new >= 0 => matched = t.filled
  BY <1>1 DEF Smaller
<1>. HIDE DEF avg, gain, matched, pnl
<1>. DEFINE r == average(p, t)
<1>9. /\ r.base = new /\ r.avg = avg /\ r.realized = gain
      /\ DOMAIN r = {"base", "avg", "realized", "version"}
  BY <1>1, <1>4
<1>. HIDE DEF r
<1>10. Rows(r)
  BY <1>1, <1>6, <1>7, <1>9 DEF Rows
<1>11. new >= 0 => Is(r.realized, R + ((t.price * t.filled) * D + V * (-t.filled)) + (-t.fee) * D, D)
  BY <1>6, <1>8, <1>9
<1>. QED
  BY <1>1, <1>9, <1>10, <1>11 DEF r, avg

\* Products of products and of negatives.
LEMMA Products ==
  ASSUME NEW a \in Int, NEW b \in Int, NEW c \in Int
  PROVE  (a * b) * c = a * (b * c) /\ a * (-b) = -(a * b) /\ (-a) * b = -(a * b)
OBVIOUS

\* What f and k times g make together, over the denominator D,
LEMMA WorthIs ==
  ASSUME NEW f, NEW g, NEW x \in Int, NEW y \in Int, NEW D \in Nat \ {0}, NEW k \in Int,
         Is(f, x, D), Is(g, y, D)
  PROVE  /\ Is(Plus(f, Times(g, k)), x + y * k, D)
         /\ \A c \in Int : Plus(f, Times(g, k)) = Whole(c) <=> x + y * k = c * D
<1>. DEFINE w == Plus(f, Times(g, k))
            yk == y * k
            X == x + yk
<1>1. yk \in Int /\ X \in Int
  OBVIOUS
<1>2. Is(Times(g, k), yk, D)
  BY TimesIs
<1>3. Is(w, X, D) /\ Shaped(w) /\ Lowest(w)
  <2>. HIDE DEF yk
  <2>. QED
    BY <1>1, <1>2, PlusIs
<1>. HIDE DEF w, yk, X
<1>4. ASSUME NEW c \in Int, w = Whole(c) PROVE X = c * D
  <2>1. w.n = c /\ w.d = 1
    BY <1>4 DEF Whole
  <2>2. c * D = X * 1
    BY <1>3, <2>1 DEF Is
  <2>. QED
    BY <1>1, <2>2
<1>5. ASSUME NEW c \in Int, X = c * D PROVE w = Whole(c)
  BY <1>3, <1>5, IsWhole
<1>. QED
  BY <1>3, <1>4, <1>5 DEF w, yk, X

\* is the whole number c if the numerators make c times D,
LEMMA WholeWorth ==
  ASSUME NEW f, NEW g, NEW x \in Int, NEW y \in Int, NEW D \in Nat \ {0}, NEW k \in Int,
         NEW c \in Int, Is(f, x, D), Is(g, y, D), x + y * k = c * D
  PROVE  Plus(f, Times(g, k)) = Whole(c)
BY WorthIs

\* and only then.
LEMMA WorthOfWhole ==
  ASSUME NEW f, NEW g, NEW x \in Int, NEW y \in Int, NEW D \in Nat \ {0}, NEW k \in Int,
         NEW c \in Int, Is(f, x, D), Is(g, y, D), Plus(f, Times(g, k)) = Whole(c)
  PROVE  x + y * k = c * D
BY WorthIs

\* A position that was never traded accounts for no trades.
LEMMA AccountsStart == Accounts(NoPosition, <<>>)
<1>1. Rows(NoPosition) /\ NoPosition.base = 0
  BY WholeIs DEF Rows, NoPosition, Fraction, Whole, Shaped, Lowest
<1>2. Is(NoPosition.realized, 0, 1) /\ Is(NoPosition.avg, 0, 1)
  BY DEF NoPosition, Whole, Is, Fraction
<1>3. Plus(NoPosition.realized, Times(NoPosition.avg, -NoPosition.base)) = Whole(0)
  <2>1. -NoPosition.base \in Int /\ 0 + 0 * (-NoPosition.base) = 0 * 1
    BY <1>1
  <2>. QED
    BY <1>2, <2>1, WholeWorth
<1>. QED
  BY <1>1, <1>3, NothingTraded, NoCash DEF Accounts

\* The new position after a purchase accounts for one trade more,
LEMMA BuyingAccounted ==
  ASSUME NEW ts \in Seq(Trade), NEW x \in Trade, NEW p, Accounts(p, ts), x.side = "buy"
  PROVE  Accounts(average(p, x), Append(ts, x))
<1>. DEFINE z == Append(ts, x)
            r == average(p, x)
            new == p.base + x.filled
            paid == x.price * x.filled
            fee == x.fee
            c == CashOf(ts)
            n == p.base
<1>1. Rows(p) /\ n = NBought(ts) - NSold(ts) /\ Fraction(p.realized) /\ Fraction(p.avg) /\ n \in Int
  BY DEF Accounts, Rows, Shaped
<1>2. PICK D \in Nat \ {0}, R \in Int, V \in Int : Is(p.realized, R, D) /\ Is(p.avg, V, D)
  BY <1>1, OverOne
<1>. DEFINE K == V * n + paid * D
            A == R + (-fee) * D
<1>3. /\ Rows(r) /\ r.base = new /\ new \in Int
      /\ Is(r.realized, A, D)
      /\ new > 0 => Is(r.avg, K, D * new)
  BY <1>1, <1>2, BoughtAverage
<1>4. x.filled \in Nat \ {0} /\ paid \in Int /\ fee \in Nat /\ c \in Int
  <2>1. x.filled \in Nat \ {0} /\ x.price \in Nat /\ x.fee \in Nat
    BY DEF Trade
  <2>. QED
    BY <2>1, CashGrows
<1>5. NBought(z) = NBought(ts) + x.filled /\ NSold(z) = NSold(ts) /\ NBought(ts) \in Nat /\ NSold(ts) \in Nat
  BY UnitsGrow DEF NBought, NSold
<1>6. r.base = NBought(z) - NSold(z)
  BY <1>1, <1>3, <1>4, <1>5
<1>7. ASSUME NeverOversold(z) PROVE Plus(r.realized, Times(r.avg, -r.base)) = Whole(CashOf(z))
  <2>1. NeverOversold(ts) /\ NSold(ts) <= NBought(ts)
    BY <1>7, NeverOversoldKept, NotOversold
  <2>2. new \in Nat \ {0} /\ n \in Nat
    BY <1>1, <1>4, <1>5, <2>1
  <2>3. Plus(p.realized, Times(p.avg, -n)) = Whole(c)
    BY <2>1 DEF Accounts
  <2>4. CashOf(z) = c + (-paid - fee)
    <3>1. CashOf(z) = c + Brings(x)
      BY CashGrows
    <3>. QED
      BY <3>1 DEF Brings
  <2>. HIDE DEF z, r, new, paid, fee, c, n, K, A
  <2>5. R + V * (-n) = c * D
    <3>1. -n \in Int
      BY <2>2
    <3>. QED
      BY <1>2, <1>4, <2>3, <3>1, WorthOfWhole
  <2>6. A \in Int /\ K \in Int /\ D * new \in Nat \ {0}
    BY <1>4, <2>2 DEF A, K
  <2>7. Is(r.realized, A * new, D * new) /\ Is(r.avg, K, D * new)
    <3>1. Is(r.realized, A, D) /\ new \in Nat \ {0} /\ new > 0
      BY <1>3, <2>2
    <3>2. Is(r.realized, A * new, D * new)
      <4>. DEFINE g == r.realized
      <4>. HIDE DEF g
      <4>1. Is(g, A, D)
        BY <3>1 DEF g
      <4>2. Is(g, A * new, D * new) <=> Is(g, A, D)
        BY <2>6, <3>1, Enlarged
      <4>. QED
        BY <4>1, <4>2 DEF g
    <3>. QED
      BY <1>3, <3>1, <3>2
  <2>. DEFINE b == -paid - fee
              Vn == V * n
              pD == paid * D
              fD == fee * D
              cD == c * D
              bD == b * D
  <2>8. Vn \in Int /\ pD \in Int /\ fD \in Int /\ cD \in Int /\ bD \in Int /\ b \in Int
    BY <1>4, <2>2
  <2>9. V * (-n) = -Vn /\ (-fee) * D = -fD
    BY <1>4, <2>2, Products
  <2>10. bD = -pD - fD
    <3>1. b * D = (-paid) * D - fee * D
      BY <1>4, Distributes
    <3>2. (-paid) * D = -(paid * D)
      BY <1>4, Products
    <3>. QED
      BY <3>1, <3>2
  <2>11. (c + b) * D = cD + bD
    BY <1>4, <2>8, Distributes
  <2>. HIDE DEF Vn, pD, fD, cD, bD, b
  <2>12. A - K = (c + b) * D
    <3>1. R + (-Vn) = cD /\ A = R + (-fD) /\ K = Vn + pD
      BY <2>5, <2>9 DEF A, K, Vn, pD, cD
    <3>2. A - K = cD + bD
      BY <2>8, <2>10, <3>1
    <3>. QED
      BY <2>11, <3>2
  <2>13. A * new + K * (-new) = (c + b) * (D * new)
    <3>1. A * new + K * (-new) = (A - K) * new
      <4>1. (A - K) * new = A * new - K * new /\ A * new \in Int /\ K * new \in Int
        BY <2>2, <2>6, Distributes
      <4>2. K * (-new) = -(K * new)
        BY <2>2, <2>6, Products
      <4>. DEFINE An == A * new
                  Kn == K * new
      <4>3. An + K * (-new) = An + (-Kn) /\ (A - K) * new = An - Kn /\ An \in Int /\ Kn \in Int
        BY <4>1, <4>2
      <4>4. An + K * (-new) = An - Kn
        <5>. HIDE DEF An, Kn
        <5>. QED
          BY <4>3
      <4>. QED
        BY <4>3, <4>4
    <3>2. ((c + b) * D) * new = (c + b) * (D * new)
      <4>1. c + b \in Int
        BY <1>4, <2>8
      <4>. QED
        BY <2>2, <4>1, Products
    <3>. QED
      BY <2>12, <3>1, <3>2
  <2>14. A * new \in Int /\ -new \in Int /\ c + b \in Int
    BY <1>4, <2>2, <2>6, <2>8
  <2>15. Plus(r.realized, Times(r.avg, -new)) = Whole(c + b)
    BY <2>6, <2>7, <2>13, <2>14, WholeWorth
  <2>. QED
    BY <1>3, <2>4, <2>15 DEF b
<1>. QED
  BY <1>3, <1>6, <1>7 DEF Accounts

\* and after a sale,
LEMMA SellingAccounted ==
  ASSUME NEW ts \in Seq(Trade), NEW x \in Trade, NEW p, Accounts(p, ts), x.side = "sell"
  PROVE  Accounts(average(p, x), Append(ts, x))
<1>. DEFINE z == Append(ts, x)
            r == average(p, x)
            new == p.base - x.filled
            made == x.price * x.filled
            fee == x.fee
            c == CashOf(ts)
            n == p.base
            f == x.filled
<1>1. Rows(p) /\ n = NBought(ts) - NSold(ts) /\ Fraction(p.realized) /\ Fraction(p.avg) /\ n \in Int
  BY DEF Accounts, Rows, Shaped
<1>2. PICK D \in Nat \ {0}, R \in Int, V \in Int : Is(p.realized, R, D) /\ Is(p.avg, V, D)
  BY <1>1, OverOne
<1>. DEFINE A == R + (made * D + V * (-f)) + (-fee) * D
<1>3. /\ Rows(r) /\ r.base = new /\ new \in Int
      /\ new >= 0 => Is(r.realized, A, D)
      /\ r.avg = IF new > 0 THEN p.avg ELSE Whole(0)
  BY <1>1, <1>2, SoldAverage
<1>4. f \in Nat \ {0} /\ made \in Int /\ fee \in Nat /\ c \in Int
  <2>1. x.filled \in Nat \ {0} /\ x.price \in Nat /\ x.fee \in Nat
    BY DEF Trade
  <2>. QED
    BY <2>1, CashGrows
<1>5. NBought(z) = NBought(ts) /\ NSold(z) = NSold(ts) + f /\ NBought(ts) \in Nat /\ NSold(ts) \in Nat
  BY UnitsGrow DEF NBought, NSold
<1>6. r.base = NBought(z) - NSold(z)
  BY <1>1, <1>3, <1>4, <1>5
<1>7. ASSUME NeverOversold(z) PROVE Plus(r.realized, Times(r.avg, -r.base)) = Whole(CashOf(z))
  <2>1. NeverOversold(ts) /\ NSold(z) <= NBought(z)
    BY <1>7, NeverOversoldKept, NotOversold, PrefixKept
  <2>2. new \in Nat /\ n \in Nat /\ new = n - f
    BY <1>1, <1>4, <1>5, <2>1
  <2>3. Plus(p.realized, Times(p.avg, -n)) = Whole(c)
    BY <2>1 DEF Accounts
  <2>4. CashOf(z) = c + (made - fee)
    <3>1. CashOf(z) = c + Brings(x)
      BY CashGrows
    <3>. QED
      BY <3>1 DEF Brings
  <2>. HIDE DEF z, r, new, made, fee, c, n, A, f
  <2>5. R + V * (-n) = c * D
    <3>1. -n \in Int
      BY <2>2
    <3>. QED
      BY <1>2, <1>4, <2>3, <3>1, WorthOfWhole
  <2>. DEFINE b == made - fee
              Vn == V * n
              Vf == V * f
              mD == made * D
              fD == fee * D
              cD == c * D
              bD == b * D
              Vw == V * new
  <2>6. /\ Vn \in Int /\ Vf \in Int /\ mD \in Int /\ fD \in Int /\ cD \in Int /\ bD \in Int
        /\ b \in Int /\ Vw \in Int
    BY <1>4, <2>2
  <2>7. V * (-n) = -Vn /\ V * (-f) = -Vf /\ (-fee) * D = -fD /\ V * (-new) = -Vw
    BY <1>4, <2>2, Products
  <2>8. bD = mD - fD /\ (c + b) * D = cD + bD
    BY <1>4, <2>6, Distributes
  <2>9. Vw = Vn - Vf
    <3>1. (n - f) * V = n * V - f * V /\ n * V = V * n /\ f * V = V * f
      BY <1>4, <2>2, Distributes
    <3>2. new * V = V * new
      BY <2>2, Distributes
    <3>. QED
      BY <2>2, <3>1, <3>2
  <2>10. A = R + (mD + (-Vf)) + (-fD) /\ R + (-Vn) = cD
    BY <2>5, <2>7 DEF A
  <2>. HIDE DEF b, Vn, Vf, mD, fD, cD, bD, Vw
  <2>11. A \in Int /\ -new \in Int /\ c + b \in Int /\ A + (-Vw) = cD + bD
    BY <1>4, <2>2, <2>6, <2>8, <2>9, <2>10
  <2>12. Is(r.realized, A, D)
    BY <1>3, <2>2
  <2>13. CASE new > 0
    <3>1. r.avg = p.avg
      BY <1>3, <2>13
    <3>2. A + V * (-new) = (c + b) * D
      BY <2>7, <2>8, <2>11
    <3>3. Plus(r.realized, Times(r.avg, -new)) = Whole(c + b)
      BY <1>2, <2>11, <2>12, <3>1, <3>2, WholeWorth
    <3>. QED
      BY <1>3, <2>4, <3>3 DEF b
  <2>14. CASE ~(new > 0)
    <3>1. r.avg = Whole(0) /\ new = 0
      BY <1>3, <2>2, <2>14
    <3>2. Is(Whole(0), 0, D)
      BY DEF Is, Whole, Fraction
    <3>3. Vw = 0 /\ 0 * (-new) = 0
      BY <3>1 DEF Vw
    <3>4. A + 0 * (-new) = (c + b) * D
      BY <2>6, <2>8, <2>11, <3>3
    <3>5. Plus(r.realized, Times(r.avg, -new)) = Whole(c + b)
      BY <2>11, <2>12, <3>1, <3>2, <3>4, WholeWorth
    <3>. QED
      BY <1>3, <2>4, <3>5 DEF b
  <2>. QED
    BY <2>13, <2>14
<1>. QED
  BY <1>3, <1>6, <1>7 DEF Accounts

\* so after any trade.
LEMMA AccountsMore ==
  ASSUME NEW ts \in Seq(Trade), NEW x \in Trade, NEW p, Accounts(p, ts)
  PROVE  Accounts(average(p, x), Append(ts, x))
<1>1. x.side \in {"buy", "sell"}
  BY DEF Trade
<1>. QED
  BY <1>1, BuyingAccounted, SellingAccounted

(* A process has a trade to apply that the row does not account for yet.   *)
Pending(w) ==
  \E ts \in Seq(Kinds), t \in Kinds :
    trades = Append(ts, t) /\ trade[w] = t /\ Accounts(row, ts)

\* While nobody raced: one process at work at most, on the row it has read, and what
\* it is to write accounts for all trades.
Unraced ==
  /\ \A v, w \in Writers : pc[v] # "idle" /\ pc[w] # "idle" => v = w
  /\ AtRest => Accounts(row, trades)
  /\ \A w \in Writers : /\ pc[w] \in {"idle", "read", "write"}
                        /\ pc[w] # "idle" => Pending(w)
                        /\ pc[w] = "write" => seen[w] = row

\* The trades agree among themselves whatever happens, the row while nobody raced.
AccountsInv ==
  /\ trades \in Seq(Kinds)
  /\ pc \in [Writers -> Steps] /\ DOMAIN seen = Writers /\ DOMAIN trade = Writers
  /\ FifoInv(trades) /\ CashMatches(trades)
  /\ ~raced => Unraced

\* Trades recorded are trades, with fees that are whole per unit.
LEMMA KindsAreTrades ==
  /\ \A t \in Kinds : t \in Trade /\ WholeFee(t)
  /\ \A ts \in Seq(Kinds) : ts \in Seq(Trade)
<1>1. Kinds \in SUBSET Trade
  BY ConstantsOK DEF Trade
<1>2. \A t \in Kinds : WholeFee(t)
  BY ConstantsOK DEF WholeFee
<1>. QED
  BY <1>1, <1>2

\* No trades and a position of nothing.
LEMMA AccountsInit == Init => AccountsInv
<1>. SUFFICES ASSUME Init PROVE AccountsInv
  OBVIOUS
<1>1. trades = <<>> /\ row = NoPosition /\ pc = [w \in Writers |-> "idle"]
  BY DEF Init
<1>2. DOMAIN seen = Writers /\ DOMAIN trade = Writers
  BY DEF Init
<1>3. FifoInv(trades) /\ CashMatches(trades) /\ Accounts(row, trades)
  BY <1>1, FifoStart, NothingPaid, AccountsStart
<1>4. Unraced
  BY <1>1, <1>3 DEF Unraced
<1>5. trades \in Seq(Kinds) /\ pc \in [Writers -> Steps]
  BY <1>1 DEF Steps
<1>. QED
  BY <1>2, <1>3, <1>4, <1>5 DEF AccountsInv

\* add_from_order(): with nobody at work the row accounts for what was there.
LEMMA AddAccounted ==
  ASSUME AccountsInv, NEW w \in Writers, add_from_order(w)
  PROVE  AccountsInv'
<1>1. PICK t \in Kinds :
        /\ trades' = Append(trades, t) /\ trade' = [trade EXCEPT ![w] = t]
        /\ pc[w] = "idle" /\ pc' = [pc EXCEPT ![w] = "read"]
        /\ raced' = (raced \/ \E v \in Writers : pc[v] # "idle")
        /\ row' = row /\ seen' = seen
  BY DEF add_from_order, Goto
<1>2. /\ trades \in Seq(Kinds) /\ pc \in [Writers -> Steps]
      /\ DOMAIN seen = Writers /\ DOMAIN trade = Writers
      /\ FifoInv(trades) /\ CashMatches(trades)
  BY DEF AccountsInv
<1>3. t \in Trade /\ trades \in Seq(Trade) /\ WholeFee(t)
  BY <1>2, KindsAreTrades
<1>4. FifoInv(trades)' /\ CashMatches(trades)'
  <2>1. FifoInv(Append(trades, t)) /\ CashMatches(Append(trades, t))
    BY <1>2, <1>3, FifoMore, CashStaysMatched
  <2>. QED
    BY <1>1, <2>1
<1>5. /\ trades' \in Seq(Kinds) /\ pc' \in [Writers -> Steps]
      /\ DOMAIN seen' = Writers /\ DOMAIN trade' = Writers
  BY <1>1, <1>2 DEF Steps
<1>6. ASSUME ~raced' PROVE Unraced'
  <2>1. ~raced /\ \A v \in Writers : pc[v] = "idle"
    BY <1>1, <1>6, Zenon
  <2>2. Accounts(row, trades)
    BY <2>1 DEF AccountsInv, Unraced, AtRest
  <2>3. pc'[w] = "read" /\ \A v \in Writers : v # w => pc'[v] = "idle"
    BY <1>1, <1>2, <2>1
  <2>4. trade'[w] = t
    BY <1>1, <1>2
  <2>5. Accounts(row', trades)
    BY <1>1, <2>2
  <2>6. Pending(w)'
    BY <1>1, <1>2, <2>4, <2>5 DEF Pending
  <2>7. ~AtRest'
    BY <2>3 DEF AtRest
  <2>. QED
    BY <2>3, <2>6, <2>7 DEF Unraced
<1>. QED
  BY <1>4, <1>5, <1>6 DEF AccountsInv

\* get_position(): with nobody else at work what is read stays the row.
LEMMA GetAccounted ==
  ASSUME AccountsInv, NEW w \in Writers, get_position(w)
  PROVE  AccountsInv'
<1>1. /\ pc[w] = "read" /\ pc' = [pc EXCEPT ![w] = "write"]
      /\ seen' = [seen EXCEPT ![w] = row]
      /\ trades' = trades /\ row' = row /\ trade' = trade /\ raced' = raced
  BY DEF get_position, Goto
<1>2. /\ trades \in Seq(Kinds) /\ pc \in [Writers -> Steps]
      /\ DOMAIN seen = Writers /\ DOMAIN trade = Writers
      /\ FifoInv(trades) /\ CashMatches(trades)
  BY DEF AccountsInv
<1>3. /\ trades' \in Seq(Kinds) /\ pc' \in [Writers -> Steps]
      /\ DOMAIN seen' = Writers /\ DOMAIN trade' = Writers
      /\ FifoInv(trades)' /\ CashMatches(trades)'
  BY <1>1, <1>2 DEF Steps
<1>4. ASSUME ~raced' PROVE Unraced'
  <2>1. Unraced
    BY <1>1, <1>4, Zenon DEF AccountsInv
  <2>2. Pending(w) /\ \A v \in Writers : v # w => pc[v] = "idle"
    BY <1>1, <2>1 DEF Unraced
  <2>3. pc'[w] = "write" /\ (\A v \in Writers : v # w => pc'[v] = "idle") /\ seen'[w] = row'
    BY <1>1, <1>2, <2>2
  <2>4. Pending(w)'
    BY <1>1, <2>2 DEF Pending
  <2>5. ~AtRest'
    BY <2>3 DEF AtRest
  <2>. QED
    BY <2>3, <2>4, <2>5 DEF Unraced
<1>. QED
  BY <1>3, <1>4 DEF AccountsInv

\* The update writes what the trade makes of the row it has read.
LEMMA UpsertAccounted ==
  ASSUME AccountsInv, NEW w \in Writers, upsert(w)
  PROVE  AccountsInv'
<1>1. /\ pc[w] \in {"write", "rewrite"} /\ pc' = [pc EXCEPT ![w] = "idle"]
      /\ trades' = trades /\ trade' = trade /\ seen' = seen /\ raced' = raced
      /\ \E k : row' = Values(w, k)
  BY DEF upsert, updated, Goto
<1>2. /\ trades \in Seq(Kinds) /\ pc \in [Writers -> Steps]
      /\ DOMAIN seen = Writers /\ DOMAIN trade = Writers
      /\ FifoInv(trades) /\ CashMatches(trades)
  BY DEF AccountsInv
<1>3. /\ trades' \in Seq(Kinds) /\ pc' \in [Writers -> Steps]
      /\ DOMAIN seen' = Writers /\ DOMAIN trade' = Writers
      /\ FifoInv(trades)' /\ CashMatches(trades)'
  BY <1>1, <1>2 DEF Steps
<1>4. ASSUME ~raced' PROVE Unraced'
  <2>1. Unraced
    BY <1>1, <1>4, Zenon DEF AccountsInv
  <2>2. pc[w] = "write" /\ seen[w] = row /\ Pending(w) /\ \A v \in Writers : v # w => pc[v] = "idle"
    BY <1>1, <2>1 DEF Unraced
  <2>3. PICK ts \in Seq(Kinds), t \in Kinds :
          trades = Append(ts, t) /\ trade[w] = t /\ Accounts(row, ts)
    BY <2>2 DEF Pending
  <2>. DEFINE p == average(row, t)
  <2>4. Accounts(p, trades)
    BY <2>3, KindsAreTrades, AccountsMore
  <2>. HIDE DEF p
  <2>5. PICK k : row' = [base |-> p.base, avg |-> p.avg, realized |-> p.realized, version |-> k]
    BY <1>1, <2>2, <2>3 DEF Values, p
  <2>6. /\ row'.base = p.base /\ row'.avg = p.avg /\ row'.realized = p.realized
        /\ DOMAIN row' = {"base", "avg", "realized", "version"}
    BY <2>5
  <2>7. Accounts(row', trades)
    BY <2>4, <2>6 DEF Accounts, Rows
  <2>8. \A v \in Writers : pc'[v] = "idle"
    BY <1>1, <1>2, <2>2
  <2>. QED
    BY <1>1, <2>7, <2>8 DEF Unraced
<1>. QED
  BY <1>3, <1>4 DEF AccountsInv

\* Alone, nobody finds another version than the one read.
LEMMA OthersAccounted ==
  ASSUME AccountsInv, NEW w \in Writers, conflict(w) \/ reread(w)
  PROVE  AccountsInv'
<1>1. /\ pc[w] # "idle" /\ (pc[w] = "write" => row.version # seen[w].version)
      /\ \E s \in Steps : pc' = [pc EXCEPT ![w] = s]
      /\ trades' = trades /\ row' = row /\ trade' = trade /\ raced' = raced
      /\ DOMAIN seen' = DOMAIN seen
  BY DEF conflict, reread, Goto, Steps
<1>2. /\ trades \in Seq(Kinds) /\ pc \in [Writers -> Steps]
      /\ DOMAIN seen = Writers /\ DOMAIN trade = Writers
      /\ FifoInv(trades) /\ CashMatches(trades)
  BY DEF AccountsInv
<1>3. /\ trades' \in Seq(Kinds) /\ pc' \in [Writers -> Steps]
      /\ DOMAIN seen' = Writers /\ DOMAIN trade' = Writers
      /\ FifoInv(trades)' /\ CashMatches(trades)'
  BY <1>1, <1>2
<1>4. raced'
  <2>1. ASSUME ~raced PROVE FALSE
    <3>1. Unraced
      BY <2>1 DEF AccountsInv
    <3>2. pc[w] \in {"write", "reread", "rewrite"}
      BY DEF conflict, reread
    <3>3. pc[w] = "write" /\ seen[w] = row
      BY <3>1, <3>2 DEF Unraced
    <3>. QED
      BY <1>1, <3>3
  <2>. QED
    BY <1>1, <2>1, Zenon
<1>. QED
  BY <1>3, <1>4 DEF AccountsInv

\* The trades and the row that stands for them (positions.py, utils/pnl.py), for any kinds
\* and number of trades and processes: both ways of matching and the units one by one
\* make the same profit, and a row nobody raced accounts for its trades.
THEOREM AccountsInductive == Spec => []AccountsInv
<1>1. AccountsInv /\ [Next]_vars => AccountsInv'
  <2>. SUFFICES ASSUME AccountsInv, [Next]_vars PROVE AccountsInv'
    OBVIOUS
  <2>1. CASE UNCHANGED vars
    BY <2>1 DEF vars, AccountsInv, Unraced, Pending, AtRest
  <2>2. ASSUME NEW w \in Writers,
               \/ add_from_order(w) \/ get_position(w) \/ upsert(w)
               \/ conflict(w) \/ reread(w)
        PROVE  AccountsInv'
    BY <2>2, AddAccounted, GetAccounted, UpsertAccounted, OthersAccounted
  <2>. QED
    BY <2>1, <2>2 DEF Next
<1>. QED
  BY <1>1, AccountsInit, PTL DEF Spec

\* What was to be shown follows.
LEMMA AccountsAgree == AccountsInv => CashConserved /\ FifoMatchesUnits
<1>. SUFFICES ASSUME AccountsInv PROVE CashConserved /\ FifoMatchesUnits
  OBVIOUS
<1>1. /\ trades \in Seq(Trade) /\ FifoInv(trades) /\ CashMatches(trades)
      /\ ~raced => Unraced
  BY KindsAreTrades DEF AccountsInv
<1>2. Bought = NBought(trades) /\ SoldUnits = NSold(trades) /\ Cash = CashOf(trades)
  BY DEF Bought, SoldUnits, Cash, NBought, NSold, CashOf
<1>3. FifoMatchesUnits
  BY <1>1 DEF FifoMatchesUnits, FifoInv, SumOfDays, Days
<1>4. AtRest /\ ~raced => Accounts(row, trades)
  BY <1>1 DEF Unraced
<1>5. ASSUME AtRest, ~raced, NeverOversold(trades), Complete(trades), row.base = 0
      PROVE  remaining_base(trades) = 0 /\ row.realized = Whole(fifo_detail(trades).realized)
  <2>. DEFINE c == CashOf(trades)
  <2>1. Rows(row) /\ row.base = NBought(trades) - NSold(trades)
    BY <1>4, <1>5 DEF Accounts
  <2>2. Plus(row.realized, Times(row.avg, -row.base)) = Whole(c)
    BY <1>4, <1>5 DEF Accounts
  <2>3. NBought(trades) \in Nat /\ NSold(trades) \in Nat
    BY <1>1, UnitsAreTrades DEF NBought, NSold
  <2>4. NSold(trades) = NBought(trades)
    BY <1>5, <2>1, <2>3
  <2>5. Remaining(fifo_detail(trades), trades) /\ fifo_detail(trades).realized = MatchedUnits(trades)
    BY <1>1, <1>5 DEF FifoInv
  <2>6. remaining_base(trades) = 0
    BY <1>1, <2>4, <2>5, FlatHasNoLots
  <2>7. MatchedUnits(trades) \in Int
    BY <1>1, <2>3, <2>4, MatchedIs
  <2>8. HeldCost(trades) = 0
    <3>. DEFINE h == Costs(trades)[NBought(trades)]
    <3>1. h \in Int
      BY <1>1, <2>3, CostsTyped DEF NBought
    <3>2. HeldCost(trades) = h - h
      BY <2>4 DEF HeldCost
    <3>. HIDE DEF h
    <3>. QED
      BY <3>1, <3>2
  <2>9. c = MatchedUnits(trades)
    BY <1>1, <1>5, <2>7, <2>8 DEF CashMatches
  <2>. HIDE DEF c
  <2>10. Fraction(row.realized) /\ Fraction(row.avg) /\ Shaped(row.realized) /\ Lowest(row.realized)
    BY <2>1 DEF Rows, Shaped
  <2>11. PICK D \in Nat \ {0}, R \in Int, V \in Int : Is(row.realized, R, D) /\ Is(row.avg, V, D)
    BY <2>10, OverOne
  <2>. DEFINE base == row.base
  <2>12. base \in Int /\ base = 0 /\ Plus(row.realized, Times(row.avg, -base)) = Whole(c)
    BY <1>5, <2>1, <2>2 DEF Rows
  <2>. HIDE DEF base
  <2>13. R = c * D
    <3>1. -base \in Int
      BY <2>12
    <3>2. R + V * (-base) = c * D
      BY <2>7, <2>9, <2>11, <2>12, <3>1, WorthOfWhole
    <3>3. V * (-base) = 0
      BY <2>12
    <3>. QED
      BY <3>2, <3>3
  <2>14. row.realized = Whole(c)
    BY <2>7, <2>9, <2>10, <2>11, <2>13, IsWhole
  <2>. QED
    BY <2>5, <2>6, <2>9, <2>14
<1>6. CashConserved
  BY <1>2, <1>4, <1>5 DEF CashConserved, FlatAgrees, Accounts
<1>. QED
  BY <1>3, <1>6

\* The row's profit, base and average account for the cash that moved, and a position
\* that is closed made what FIFO matching says (repositories/positions.py, utils/pnl.py).
THEOREM LedgerConserves == Spec => []CashConserved
<1>1. AccountsInv => CashConserved
  BY AccountsAgree
<1>. QED
  BY <1>1, AccountsInductive, PTL

\* FIFO matching over lots makes what the units matched one by one make, over all days
\* together as day by day (utils/pnl.py).
THEOREM FifoAgrees == Spec => []FifoMatchesUnits
<1>1. AccountsInv => FifoMatchesUnits
  BY AccountsAgree
<1>. QED
  BY <1>1, AccountsInductive, PTL

-----------------------------------------------------------------------------
(* Fills.                                                                  *)
Entries == [order : Orders, filled : Nat]

FillsTyped ==
  /\ filled \in [Orders -> Nat] /\ open \subseteq Orders
  /\ recorded \in [Orders -> Int] /\ announced \in [Orders -> Int]
  /\ pass \in [Passes -> [stage : {"idle", "load", "persist", "publish"},
                          todo : SUBSET Entries, at : Entries \cup {NoOrder}, delta : Int]]
  /\ \A p \in Passes : pass[p].stage \in {"persist", "publish"} => pass[p].at \in Entries

OneActive ==
  \A p, q \in Passes : p # q => pass[p].stage = "idle" \/ pass[q].stage = "idle"

\* No list is ahead of the exchange.
ListsBehind == \A p \in Passes : \A e \in pass[p].todo : e.filled <= filled[e.order]

InOrder == \A o \in Orders : announced[o] <= recorded[o] /\ recorded[o] <= filled[o]

\* What a pass is about to record or to announce of its order.
Due(p) ==
  LET o == pass[p].at.order IN
  /\ pass[p].stage = "persist" => recorded[o] + pass[p].delta <= filled[o] /\ pass[p].delta > 0
  /\ pass[p].stage = "publish" => announced[o] + pass[p].delta <= recorded[o]

Books == OneActive /\ ListsBehind /\ InOrder /\ \A p \in Passes : Due(p)

FillsInv == FillsTyped /\ (tracks /\ ~excused => Books)

LEMMA FillsInit == SettlementInit => FillsInv
BY DEF SettlementInit, FillsInv, FillsTyped, Books, OneActive, ListsBehind, InOrder, Due, Resting, NoOrder,
       Entries

\* Fills only make room; an order that leaves the list changes no account.
LEMMA ExchangeInv ==
  ASSUME FillsInv, NEW o \in Orders, Fill(o) \/ Leave(o)
  PROVE  FillsInv'
<1>1. CASE Fill(o)
  <2>1. /\ filled' = [filled EXCEPT ![o] = @ + 1]
        /\ UNCHANGED <<open, tracks, recorded, announced, pass, excused>>
    BY <1>1 DEF Fill, passVars
  <2>2. filled' \in [Orders -> Nat] /\ \A x \in Orders : filled[x] <= filled'[x]
    BY <2>1 DEF FillsInv, FillsTyped
  <2>3. FillsTyped'
    BY <2>1, <2>2 DEF FillsInv, FillsTyped
  <2>4. ASSUME tracks', ~excused' PROVE Books'
    <3>1. Books
      BY <2>1, <2>4 DEF FillsInv
    <3>2. OneActive'
      BY <2>1, <3>1 DEF Books, OneActive
    <3>3. ListsBehind'
      <4>. SUFFICES ASSUME NEW p \in Passes, NEW e \in pass[p].todo PROVE e.filled <= filled'[e.order]
        BY <2>1 DEF ListsBehind
      <4>1. e \in Entries /\ e.filled <= filled[e.order]
        BY <3>1 DEF Books, ListsBehind, FillsInv, FillsTyped
      <4>. QED
        BY <4>1, <2>2 DEF Entries, FillsInv, FillsTyped
    <3>4. InOrder'
      BY <2>1, <2>2, <3>1 DEF Books, InOrder, FillsInv, FillsTyped
    <3>5. ASSUME NEW p \in Passes PROVE Due(p)'
      <4>1. Due(p) /\ (pass[p].stage = "persist" => pass[p].at \in Entries)
        BY <3>1 DEF Books, FillsInv, FillsTyped
      <4>. QED
        BY <4>1, <2>1, <2>2 DEF Due, Entries, FillsInv, FillsTyped
    <3>. QED
      BY <3>2, <3>3, <3>4, <3>5 DEF Books
  <2>. QED
    BY <2>3, <2>4 DEF FillsInv
<1>2. CASE Leave(o)
  BY <1>2 DEF Leave, passVars, FillsInv, FillsTyped, Books, OneActive, ListsBehind, InOrder, Due
<1>. QED
  BY <1>1, <1>2

\* A new pass sees what is filled now; if it is not alone that is noted.
LEMMA FetchInv ==
  ASSUME FillsInv, NEW p \in Passes, Fetch(p)
  PROVE  FillsInv'
<1>1. /\ pass' = [pass EXCEPT ![p] = Looking(Listed)]
      /\ UNCHANGED <<filled, open, tracks, recorded, announced>>
      /\ excused' = (excused \/ \E q \in Passes \ {p} : pass[q].stage # "idle")
  BY DEF Fetch, exchangeSide
<1>. DEFINE new == [stage |-> "load", todo |-> Listed, at |-> NoOrder, delta |-> 0]
<1>2. pass' = [pass EXCEPT ![p] = new]
  BY <1>1 DEF Looking
<1>3. \A e \in Listed : e \in Entries /\ e.filled <= filled[e.order]
  <2>. SUFFICES ASSUME NEW o \in open
                PROVE  LET e == [order |-> o, filled |-> filled[o]]
                       IN  e \in Entries /\ e.filled <= filled[e.order]
    BY DEF Listed
  <2>1. o \in Orders /\ filled[o] \in Nat
    BY DEF FillsInv, FillsTyped
  <2>. QED
    BY <2>1 DEF Entries
<1>4. pass'[p] = new /\ \A q \in Passes \ {p} : pass'[q] = pass[q]
  BY <1>2 DEF FillsInv, FillsTyped
<1>5. FillsTyped'
  BY <1>1, <1>2, <1>3 DEF FillsInv, FillsTyped
<1>6. ASSUME tracks', ~excused' PROVE Books'
  <2>1. Books /\ \A q \in Passes \ {p} : pass[q].stage = "idle"
    BY <1>1, <1>6 DEF FillsInv
  <2>2. OneActive'
    BY <2>1, <1>4 DEF OneActive
  <2>3. ListsBehind'
    BY <2>1, <1>1, <1>3, <1>4 DEF Books, ListsBehind
  <2>4. InOrder'
    BY <2>1, <1>1 DEF Books, InOrder
  <2>5. ASSUME NEW q \in Passes PROVE Due(q)'
    BY <2>1, <1>1, <1>4 DEF Books, Due
  <2>. QED
    BY <2>2, <2>3, <2>4, <2>5 DEF Books
<1>. QED
  BY <1>5, <1>6 DEF FillsInv

\* Without a failure what is due is what the pass saw beyond the record.
LEMMA LoadInv ==
  ASSUME FillsInv, NEW p \in Passes, NEW e \in pass[p].todo, NEW works \in BOOLEAN, Load(p, e, works)
  PROVE  FillsInv'
<1>. DEFINE delta == e.filled - LoadPrevFilled(e.order, works)
            new == IF delta > 0
                   THEN [stage |-> "persist", todo |-> pass[p].todo \ {e}, at |-> e, delta |-> delta]
                   ELSE [stage |-> "load", todo |-> pass[p].todo \ {e}, at |-> NoOrder, delta |-> 0]
<1>1. e \in Entries /\ e.order \in Orders /\ e.filled \in Nat /\ delta \in Int
  BY DEF FillsInv, FillsTyped, Entries, LoadPrevFilled
<1>2. /\ pass[p].stage = "load"
      /\ UNCHANGED <<filled, open, tracks, recorded, announced>>
      /\ excused' = (excused \/ ~works)
  BY DEF Load, exchangeSide
<1>3. pass' = [pass EXCEPT ![p] = new]
  BY DEF Load, Looking
<1>4. pass'[p] = new /\ \A q \in Passes \ {p} : pass'[q] = pass[q]
  BY <1>3 DEF FillsInv, FillsTyped
<1>. HIDE DEF delta
<1>5. new \in [stage : {"idle", "load", "persist", "publish"},
               todo : SUBSET Entries, at : Entries \cup {NoOrder}, delta : Int]
  BY <1>1 DEF FillsInv, FillsTyped
<1>6. FillsTyped'
  BY <1>1, <1>2, <1>3, <1>4, <1>5 DEF FillsInv, FillsTyped
<1>7. ASSUME tracks', ~excused' PROVE Books'
  <2>1. Books /\ works /\ tracks
    BY <1>2, <1>7 DEF FillsInv
  <2>2. delta = e.filled - recorded[e.order] /\ e.filled <= filled[e.order]
    BY <2>1 DEF delta, LoadPrevFilled, Books, ListsBehind
  <2>3. OneActive'
    BY <2>1, <1>2, <1>4 DEF Books, OneActive
  <2>4. ListsBehind'
    BY <2>1, <1>2, <1>4 DEF Books, ListsBehind
  <2>5. InOrder'
    BY <2>1, <1>2 DEF Books, InOrder
  <2>6. ASSUME NEW q \in Passes PROVE Due(q)'
    <3>1. CASE q = p
      BY <3>1, <1>1, <1>2, <1>4, <2>2 DEF Due, FillsInv, FillsTyped
    <3>2. CASE q # p
      BY <3>2, <1>2, <1>4, <2>1 DEF Due, Books
    <3>. QED
      BY <3>1, <3>2
  <2>. QED
    BY <2>3, <2>4, <2>5, <2>6 DEF Books
<1>. QED
  BY <1>6, <1>7 DEF FillsInv

\* Recording brings the record up to what the pass saw.
LEMMA PersistInv ==
  ASSUME FillsInv, NEW p \in Passes, NEW works \in BOOLEAN, Persist(p, works)
  PROVE  FillsInv'
<1>. DEFINE o == pass[p].at.order
<1>1. /\ pass[p].stage = "persist" /\ o \in Orders /\ pass[p].delta \in Int
      /\ pass' = [pass EXCEPT ![p].stage = "publish"]
      /\ UNCHANGED <<filled, open, tracks, announced>>
      /\ excused' = (excused \/ ~works)
      /\ recorded' = IF tracks /\ works THEN [recorded EXCEPT ![o] = @ + pass[p].delta] ELSE recorded
  BY DEF Persist, Increment, exchangeSide, FillsInv, FillsTyped, Entries
<1>2. /\ pass'[p] = [pass[p] EXCEPT !.stage = "publish"]
      /\ \A q \in Passes \ {p} : pass'[q] = pass[q]
  BY <1>1 DEF FillsInv, FillsTyped
<1>3. /\ pass'[p].stage = "publish" /\ pass'[p].todo = pass[p].todo
      /\ pass'[p].at = pass[p].at /\ pass'[p].delta = pass[p].delta
  BY <1>2 DEF FillsInv, FillsTyped
<1>4. FillsTyped'
  <2>1. recorded' \in [Orders -> Int]
    BY <1>1 DEF FillsInv, FillsTyped
  <2>2. pass' \in [Passes -> [stage : {"idle", "load", "persist", "publish"},
                              todo : SUBSET Entries, at : Entries \cup {NoOrder}, delta : Int]]
    BY <1>1 DEF FillsInv, FillsTyped
  <2>3. ASSUME NEW q \in Passes, pass'[q].stage \in {"persist", "publish"} PROVE pass'[q].at \in Entries
    BY <2>3, <1>1, <1>2, <1>3 DEF FillsInv, FillsTyped
  <2>. QED
    BY <2>1, <2>2, <2>3, <1>1 DEF FillsInv, FillsTyped
<1>5. ASSUME tracks', ~excused' PROVE Books'
  <2>1. Books /\ recorded' = [recorded EXCEPT ![o] = @ + pass[p].delta]
    BY <1>1, <1>5 DEF FillsInv
  <2>2. recorded[o] + pass[p].delta <= filled[o] /\ pass[p].delta > 0
    BY <2>1, <1>1 DEF Books, Due
  <2>3. OneActive'
    BY <2>1, <1>1, <1>2 DEF Books, OneActive
  <2>4. ListsBehind'
    BY <2>1, <1>1, <1>2, <1>3 DEF Books, ListsBehind
  <2>5. InOrder'
    <3>. SUFFICES ASSUME NEW x \in Orders PROVE announced[x] <= recorded'[x] /\ recorded'[x] <= filled[x]
      BY <1>1 DEF InOrder
    <3>1. announced[x] <= recorded[x] /\ recorded[x] <= filled[x]
      BY <2>1 DEF Books, InOrder
    <3>. QED
      BY <3>1, <2>1, <2>2, <1>1 DEF FillsInv, FillsTyped
  <2>6. ASSUME NEW q \in Passes PROVE Due(q)'
    <3>1. CASE q = p
      <4>1. announced[o] <= recorded[o] /\ recorded'[o] = recorded[o] + pass[p].delta
        BY <2>1, <1>1 DEF Books, InOrder, FillsInv, FillsTyped
      <4>. QED
        BY <3>1, <4>1, <1>1, <1>3 DEF Due, FillsInv, FillsTyped
    <3>2. CASE q # p
      BY <3>2, <2>1, <1>1, <1>2 DEF Due, Books, OneActive
    <3>. QED
      BY <3>1, <3>2
  <2>. QED
    BY <2>3, <2>4, <2>5, <2>6 DEF Books
<1>. QED
  BY <1>4, <1>5 DEF FillsInv

\* Announcing catches up with the record, or does not.
LEMMA PublishInv ==
  ASSUME FillsInv, NEW p \in Passes, NEW works \in BOOLEAN, Publish(p, works)
  PROVE  FillsInv'
<1>. DEFINE o == pass[p].at.order
            new == [stage |-> "load", todo |-> pass[p].todo, at |-> NoOrder, delta |-> 0]
<1>1. /\ pass[p].stage = "publish" /\ o \in Orders /\ pass[p].delta \in Int
      /\ UNCHANGED <<filled, open, tracks, recorded, excused>>
      /\ announced' = IF works THEN [announced EXCEPT ![o] = @ + pass[p].delta] ELSE announced
  BY DEF Publish, exchangeSide, FillsInv, FillsTyped, Entries
<1>2. pass' = [pass EXCEPT ![p] = new]
  BY DEF Publish, Looking
<1>3. pass'[p] = new /\ \A q \in Passes \ {p} : pass'[q] = pass[q]
  BY <1>2 DEF FillsInv, FillsTyped
<1>4. FillsTyped'
  <2>1. announced' \in [Orders -> Int]
    BY <1>1 DEF FillsInv, FillsTyped
  <2>2. new \in [stage : {"idle", "load", "persist", "publish"},
                 todo : SUBSET Entries, at : Entries \cup {NoOrder}, delta : Int]
    BY DEF FillsInv, FillsTyped
  <2>. QED
    BY <2>1, <2>2, <1>1, <1>2, <1>3 DEF FillsInv, FillsTyped
<1>5. ASSUME tracks', ~excused' PROVE Books'
  <2>1. Books
    BY <1>1, <1>5 DEF FillsInv
  <2>2. announced[o] + pass[p].delta <= recorded[o]
    BY <2>1, <1>1 DEF Books, Due
  <2>3. OneActive'
    BY <2>1, <1>1, <1>3 DEF Books, OneActive
  <2>4. ListsBehind'
    BY <2>1, <1>1, <1>3 DEF Books, ListsBehind
  <2>5. InOrder'
    BY <2>1, <2>2, <1>1 DEF Books, InOrder, FillsInv, FillsTyped
  <2>6. ASSUME NEW q \in Passes PROVE Due(q)'
    BY <2>1, <1>1, <1>3 DEF Due, Books, OneActive
  <2>. QED
    BY <2>3, <2>4, <2>5, <2>6 DEF Books
<1>. QED
  BY <1>4, <1>5 DEF FillsInv

LEMMA EndPassInv ==
  ASSUME FillsInv, NEW p \in Passes, EndPass(p)
  PROVE  FillsInv'
<1>1. /\ pass' = [pass EXCEPT ![p].stage = "idle"]
      /\ UNCHANGED <<filled, open, tracks, recorded, announced, excused>>
  BY DEF EndPass, exchangeSide
<1>2. /\ pass'[p].stage = "idle" /\ pass'[p].todo = pass[p].todo
      /\ \A q \in Passes \ {p} : pass'[q] = pass[q]
  BY <1>1 DEF FillsInv, FillsTyped
<1>3. FillsTyped'
  BY <1>1, <1>2 DEF FillsInv, FillsTyped
<1>4. ASSUME Books PROVE Books'
  <2>1. OneActive' /\ ListsBehind' /\ InOrder'
    BY <1>1, <1>2, <1>4 DEF Books, OneActive, ListsBehind, InOrder
  <2>2. ASSUME NEW q \in Passes PROVE Due(q)'
    BY <1>1, <1>2, <1>4 DEF Books, Due
  <2>. QED
    BY <2>1, <2>2 DEF Books
<1>. QED
  BY <1>1, <1>3, <1>4 DEF FillsInv

LEMMA FillsNext ==
  ASSUME FillsInv, [SettleNext]_settlementVars
  PROVE  FillsInv'
<1>1. CASE UNCHANGED settlementVars
  BY <1>1 DEF settlementVars, exchangeSide, passVars, FillsInv, FillsTyped, Books, OneActive, ListsBehind,
              InOrder, Due
<1>2. ASSUME NEW o \in Orders, Fill(o) \/ Leave(o) PROVE FillsInv'
  BY <1>2, ExchangeInv
<1>3. ASSUME NEW p \in Passes, SyncPartialFills(p) PROVE FillsInv'
  BY <1>3, FetchInv, LoadInv, PersistInv, PublishInv, EndPassInv DEF SyncPartialFills
<1>. QED
  BY <1>1, <1>2, <1>3 DEF SettleNext

\* sync_partial_fills() counts a fill once.
THEOREM FillsSettledOnce == SettleSpec => []SettledOnce
<1>1. FillsInv => SettledOnce
  BY DEF FillsInv, Books, InOrder, SettledOnce
<1>. QED
  BY FillsInit, FillsNext, <1>1, PTL DEF SettleSpec
-----------------------------------------------------------------------------
(* Rows and reconciliation.  What the reconciler has read was the table of *)
(* some earlier time: one row for each order and id, whatever was written  *)
(* since.  What the exchange told has one entry for each order.            *)
OrderRows == [order : Orders, ids : Ids, filled : Nat, closed : BOOLEAN]
Answers == [order : Orders, filled : Nat]

OneForEachId(rs) == \A r, s \in rs : r.order = s.order /\ r.ids \cap s.ids # {} => r = s

RowsTyped ==
  /\ filled \in [Orders -> Nat] /\ open \subseteq Orders
  /\ rows \subseteq OrderRows /\ IsFiniteSet(rows)
  /\ report \in [stage : {"idle", "asked", "told", "untold"},
                 local : SUBSET OrderRows, remote : SUBSET Answers]
  /\ IsFiniteSet(report.local)

RowsInv ==
  /\ RowsTyped
  /\ OneForEachId(rows) /\ OneForEachId(report.local)
  /\ \A d, e \in report.remote : d.order = e.order => d = e

LEMMA RowsStart == SettlementInit => RowsInv
BY FS_EmptySet DEF SettlementInit, RowsInv, RowsTyped, OneForEachId

\* What the exchange does is not seen in the rows.
LEMMA ExchangeMoves ==
  ASSUME RowsInv, NEW o \in Orders, Fill(o) \/ Leave(o)
  PROVE  RowsInv'
BY DEF Fill, Leave, rowVars, RowsInv, RowsTyped

\* Rows written over in place stand for the orders and ids they stood for.
LEMMA RowsReplaced ==
  ASSUME RowsInv, NEW mine \in SUBSET rows, NEW f \in [mine -> OrderRows],
         \A r \in mine : f[r].order = r.order /\ f[r].ids = r.ids,
         rows' = (rows \ mine) \cup {f[r] : r \in mine}, UNCHANGED <<exchangeSide, report>>
  PROVE  RowsInv'
<1>. DEFINE new == {f[r] : r \in mine}
<1>1. IsFiniteSet(rows')
  <2>1. IsFiniteSet(rows \ mine) /\ IsFiniteSet(mine)
    BY FS_Subset DEF RowsInv, RowsTyped
  <2>2. f \in Surjection(mine, new)
    BY DEF Surjection
  <2>. HIDE DEF new
  <2>3. IsFiniteSet(new)
    BY <2>1, <2>2, FS_Surjection
  <2>. QED
    BY <2>1, <2>3, FS_Union DEF new
<1>2. rows' \subseteq OrderRows
  BY DEF RowsInv, RowsTyped
<1>3. OneForEachId(rows')
  <2>. SUFFICES ASSUME NEW a \in rows', NEW b \in rows', a.order = b.order, a.ids \cap b.ids # {}
                PROVE  a = b
    BY DEF OneForEachId
  <2>1. PICK r \in rows : r.order = a.order /\ r.ids = a.ids /\ a = IF r \in mine THEN f[r] ELSE r
    OBVIOUS
  <2>2. PICK s \in rows : s.order = b.order /\ s.ids = b.ids /\ b = IF s \in mine THEN f[s] ELSE s
    OBVIOUS
  <2>3. r = s
    BY <2>1, <2>2 DEF RowsInv, OneForEachId
  <2>. QED
    BY <2>1, <2>2, <2>3
<1>. QED
  BY <1>1, <1>2, <1>3 DEF RowsInv, RowsTyped, exchangeSide

\* A row is added when none has one of its ids.
LEMMA OpenUpserted ==
  ASSUME RowsInv, NEW o \in Orders, NEW ids \in Ids, UpsertOpen(o, ids)
  PROVE  RowsInv'
<1>. DEFINE new == [order |-> o, ids |-> ids, filled |-> filled[o], closed |-> FALSE]
<1>1. rows' = rows \cup {new} /\ ~Exists(o, ids) /\ UNCHANGED <<exchangeSide, report>>
  BY DEF UpsertOpen, Write
<1>2. new \in OrderRows
  BY DEF OrderRows, RowsInv, RowsTyped
<1>3. new.order = o /\ new.ids = ids
  OBVIOUS
<1>. HIDE DEF new
<1>4. IsFiniteSet(rows') /\ rows' \subseteq OrderRows
  BY <1>1, <1>2, FS_AddElement DEF RowsInv, RowsTyped
<1>5. OneForEachId(rows')
  BY <1>1, <1>3 DEF RowsInv, OneForEachId, Exists
<1>. QED
  BY <1>1, <1>4, <1>5 DEF RowsInv, RowsTyped, exchangeSide

LEMMA ProgressUpdated ==
  ASSUME RowsInv, NEW o \in Orders, UpdateProgress(o)
  PROVE  RowsInv'
<1>. DEFINE mine == {r \in ByBroker(o) : ~r.closed}
            f == [r \in mine |-> [r EXCEPT !.filled = filled[o]]]
<1>1. rows' = (rows \ mine) \cup {f[r] : r \in mine} /\ UNCHANGED <<exchangeSide, report>>
  BY DEF UpdateProgress, Write
<1>2. mine \subseteq rows /\ mine \subseteq OrderRows
  BY DEF ByBroker, RowsInv, RowsTyped
<1>3. filled[o] \in Nat
  BY DEF RowsInv, RowsTyped
<1>4. \A r \in mine : f[r] \in OrderRows /\ f[r].order = r.order /\ f[r].ids = r.ids
  BY <1>2, <1>3 DEF OrderRows
<1>5. f \in [mine -> OrderRows]
  BY <1>4
<1>. HIDE DEF mine, f
<1>. QED
  BY <1>1, <1>2, <1>4, <1>5, RowsReplaced

LEMMA ClosedMarked ==
  ASSUME RowsInv, NEW o \in Orders, MarkClosed(o)
  PROVE  RowsInv'
<1>. DEFINE mine == ByBroker(o)
            f == [r \in mine |-> [r EXCEPT !.filled = filled[o], !.closed = TRUE]]
<1>1. rows' = (rows \ mine) \cup {f[r] : r \in mine} /\ UNCHANGED <<exchangeSide, report>>
  BY DEF MarkClosed, Write
<1>2. mine \subseteq rows /\ mine \subseteq OrderRows
  BY DEF ByBroker, RowsInv, RowsTyped
<1>3. filled[o] \in Nat
  BY DEF RowsInv, RowsTyped
<1>4. \A r \in mine : f[r] \in OrderRows /\ f[r].order = r.order /\ f[r].ids = r.ids
  BY <1>2, <1>3 DEF OrderRows
<1>5. f \in [mine -> OrderRows]
  BY <1>4
<1>. HIDE DEF mine, f
<1>. QED
  BY <1>1, <1>2, <1>4, <1>5, RowsReplaced

\* The reconciler reads the rows, asks the exchange, and starts again.
LEMMA Reconciled ==
  ASSUME RowsInv, FetchLocalOpen \/ Again \/ \E works \in BOOLEAN : FetchRemoteOpen(works)
  PROVE  RowsInv'
<1>. USE DEF RowsInv, RowsTyped
<1>1. CASE FetchLocalOpen
  <2>1. /\ ListOpen \subseteq OrderRows /\ IsFiniteSet(ListOpen) /\ OneForEachId(ListOpen)
    BY FS_Subset DEF ListOpen, OneForEachId
  <2>. QED
    BY <1>1, <2>1 DEF FetchLocalOpen, exchangeSide
<1>2. CASE Again
  BY <1>2, FS_EmptySet DEF Again, exchangeSide, OneForEachId
<1>3. ASSUME NEW works \in BOOLEAN, FetchRemoteOpen(works) PROVE RowsInv'
  <2>1. Listed \subseteq Answers /\ \A d, e \in Listed : d.order = e.order => d = e
    <3>1. open \subseteq Orders /\ \A o \in open : filled[o] \in Nat
      OBVIOUS
    <3>2. \A e \in Listed : \E o \in open : e = [order |-> o, filled |-> filled[o]]
      BY DEF Listed
    <3>. QED
      BY <3>1, <3>2 DEF Answers
  <2>2. /\ report'.local = report.local
        /\ report' \in [stage : {"idle", "asked", "told", "untold"},
                        local : SUBSET OrderRows, remote : SUBSET Answers]
        /\ report'.remote \in {Listed, {}}
    BY <1>3, <2>1 DEF FetchRemoteOpen
  <2>. QED
    <3>1. UNCHANGED <<filled, open, rows>>
      BY <1>3 DEF FetchRemoteOpen, exchangeSide
    <3>2. \A d, e \in report'.remote : d.order = e.order => d = e
      BY <2>1, <2>2
    <3>. QED
      BY <2>2, <3>1, <3>2
<1>. QED
  BY <1>1, <1>2, <1>3

LEMMA RowsNextInv == RowsInv /\ [RowsNext]_settlementVars => RowsInv'
<1>. SUFFICES ASSUME RowsInv, [RowsNext]_settlementVars PROVE RowsInv'
  OBVIOUS
<1>1. CASE UNCHANGED settlementVars
  BY <1>1 DEF settlementVars, exchangeSide, rowVars, RowsInv, RowsTyped
<1>. QED
  BY <1>1, ExchangeMoves, OpenUpserted, ProgressUpdated, ClosedMarked, Reconciled DEF RowsNext

\* Equal keys match the rows that were read with the orders that were listed,
\* one to one.
LEMMA KeysMatch == RowsInv => OrdersAgree
<1>. SUFFICES ASSUME RowsInv, report.stage = "told", ~HasDiscrepancies
              PROVE  /\ Cardinality(report.local) = Cardinality(report.remote)
                     /\ \A e \in report.remote : \E l \in report.local :
                          l.order = e.order /\ l.filled = e.filled
  BY DEF OrdersAgree, RowsInv, OneForEachId
<1>. DEFINE local == report.local  remote == report.remote  both == {"client", "broker"}
<1>0. local \subseteq OrderRows /\ remote \subseteq Answers /\ IsFiniteSet(local)
  BY DEF RowsInv, RowsTyped
<1>1. \A l \in local : l.ids = both /\ \E e \in remote : e.order = l.order
  <2>. TAKE l \in local
  <2>1. <<l.order, l.ids>> \in Keys(Remote)
    BY DEF HasDiscrepancies, Keys
  <2>2. PICK r \in Remote : <<l.order, l.ids>> = <<r.order, r.ids>>
    BY <2>1 DEF Keys
  <2>. QED
    BY <2>2 DEF Remote
<1>2. \A e \in remote : \E l \in local : l.order = e.order /\ l.ids = both /\ l.filled = e.filled
  <2>. TAKE e \in remote
  <2>. DEFINE r == [order |-> e.order, ids |-> both, filled |-> e.filled]
  <2>1. r \in Remote
    BY DEF Remote
  <2>2. r.order = e.order /\ r.ids = both /\ r.filled = e.filled
    OBVIOUS
  <2>. HIDE DEF r
  <2>3. <<r.order, r.ids>> \in Keys(local)
    BY <2>1 DEF HasDiscrepancies, Keys
  <2>4. PICK l \in local : <<r.order, r.ids>> = <<l.order, l.ids>>
    BY <2>3 DEF Keys
  <2>5. l.filled = r.filled
    BY <2>1, <2>4 DEF HasDiscrepancies
  <2>. QED
    BY <2>2, <2>4, <2>5
<1>. DEFINE f == [l \in local |-> CHOOSE e \in remote : e.order = l.order]
<1>3. \A l \in local : f[l] \in remote /\ f[l].order = l.order
  BY <1>1
<1>4. f \in [local -> remote]
  BY <1>3
<1>. HIDE DEF f
<1>5. \A e \in remote : \E l \in local : f[l] = e
  BY <1>2, <1>3 DEF RowsInv
<1>6. \A k, l \in local : f[k] = f[l] => k = l
  BY <1>1, <1>3 DEF RowsInv, OneForEachId
<1>7. f \in Surjection(local, remote) /\ f \in Injection(local, remote)
  BY <1>4, <1>5, <1>6 DEF Surjection, Injection, IsInjective
<1>. HIDE DEF local, remote
<1>8. Cardinality(remote) = Cardinality(local)
  BY <1>0, <1>7, FS_Surjection
<1>. QED
  BY <1>2, <1>8 DEF local, remote

\* A reconciliation that finds nothing found every order the exchange listed
\* in one open row, with the same amount filled: for any orders, and whatever
\* is written, filled or cancelled between its two reads
\* (repositories/orders.py, reconciliation/orders.py).
THEOREM RowsAgree == RowsSpec => []OrdersAgree
BY RowsStart, RowsNextInv, KeysMatch, PTL DEF RowsSpec
-----------------------------------------------------------------------------
(* Keys.                                                                   *)
Requests == [stage : {"idle", "locking"}, now : Nat, name : Names \cup {"none"}, ttl : Nat]

KeysTyped ==
  /\ ms \in Nat
  /\ expires \in [Names -> Int]
  /\ granted \in [Names -> Int]
  /\ asking \in [Connections -> Requests]

(* Nobody has read a time that is yet to come.                             *)
NoFutureStamp == \A c \in Connections : asking[c].now <= ms

(* Until a grant is over the row it wrote is there.                        *)
GrantHasRow == \A k \in Names : ms <= granted[k] => expires[k] = granted[k]

KeysInv == KeysTyped /\ NoFutureStamp /\ GrantHasRow /\ GrantedOnce

LEMMA KeysStart == KeysInit => KeysInv
BY DEF KeysInit, KeysInv, KeysTyped, NoFutureStamp, GrantHasRow, GrantedOnce, Absent, Requests

\* Deleting what expired before a time that is not to come leaves the rows of
\* all grants that are not over.
LEMMA PrunedKeepsGrants ==
  ASSUME KeysInv, NEW t \in Int, t <= ms, NEW k \in Names, ms <= granted[k]
  PROVE  Pruned(t)[k] = granted[k] /\ Pruned(t)[k] # Absent
BY DEF KeysInv, KeysTyped, GrantHasRow, Pruned, Absent

LEMMA PrunedTyped ==
  ASSUME KeysInv, NEW t \in Int
  PROVE  Pruned(t) \in [Names -> Int]
BY DEF KeysInv, KeysTyped, Pruned, Absent

\* A connection that goes back keeps the types and has read no time.
LEMMA BackInv ==
  ASSUME KeysInv, NEW c \in Connections, Back(c), UNCHANGED ms
  PROVE  asking' \in [Connections -> Requests] /\ NoFutureStamp'
<1>. USE DEF KeysInv, KeysTyped, Requests
<1>1. asking' \in [Connections -> Requests]
  BY DEF Back
<1>2. ASSUME NEW d \in Connections PROVE asking'[d].now <= ms
  BY DEF Back, NoFutureStamp
<1>. QED
  BY <1>1, <1>2 DEF NoFutureStamp

\* check_and_store(): a row that is missing is that of no grant still running.
LEMMA CheckAndStoreInv ==
  ASSUME KeysInv, NEW c \in Connections, CheckAndStore(c)
  PROVE  KeysInv'
<1>. DEFINE k == asking[c].name
            left == Pruned(asking[c].now)
            end == asking[c].now + asking[c].ttl
<1>1. /\ k \in Names /\ end \in Nat
      /\ asking[c].now \in Int /\ asking[c].now <= ms
  BY DEF KeysInv, KeysTyped, Requests, CheckAndStore, NoFutureStamp
<1>2. left \in [Names -> Int]
  BY <1>1, PrunedTyped
<1>3. ASSUME NEW j \in Names, ms <= granted[j] PROVE left[j] = granted[j] /\ left[j] # Absent
  BY <1>1, <1>3, PrunedKeepsGrants
<1>4. asking' \in [Connections -> Requests] /\ NoFutureStamp'
  BY BackInv DEF CheckAndStore
<1>5. CASE left[k] = Absent /\ ~migrated
  <2>1. /\ expires' = [left EXCEPT ![k] = end]
        /\ granted' = [granted EXCEPT ![k] = end]
        /\ twice' = (twice \/ ms <= granted[k]) /\ ms' = ms
    BY <1>5 DEF CheckAndStore
  <2>2. ~(ms <= granted[k])
    BY <1>1, <1>3, <1>5
  <2>3. GrantHasRow'
    BY <2>1, <1>1, <1>2, <1>3 DEF GrantHasRow, KeysInv, KeysTyped
  <2>4. KeysTyped'
    BY <2>1, <1>1, <1>2, <1>4 DEF KeysInv, KeysTyped
  <2>5. GrantedOnce'
    BY <2>1, <2>2 DEF KeysInv, GrantedOnce
  <2>. QED
    BY <2>3, <2>4, <2>5, <1>4 DEF KeysInv
<1>6. CASE ~(left[k] = Absent /\ ~migrated)
  <2>1. expires' = left /\ UNCHANGED <<granted, twice, ms>>
    BY <1>6 DEF CheckAndStore
  <2>. QED
    BY <2>1, <1>2, <1>3, <1>4 DEF KeysInv, KeysTyped, GrantHasRow, GrantedOnce
<1>. QED
  BY <1>5, <1>6

\* prune_older_than(): what it deletes expired before the time it read.
LEMMA PruneInv ==
  ASSUME KeysInv, NEW c \in Connections, Prune(c)
  PROVE  KeysInv'
<1>. DEFINE t == Cutoff(asking[c].now, asking[c].ttl)
<1>1. t \in Int /\ t <= ms
  BY DEF KeysInv, KeysTyped, Requests, NoFutureStamp, Cutoff
<1>2. expires' = Pruned(t) /\ UNCHANGED <<granted, twice, ms>>
  BY DEF Prune
<1>3. GrantHasRow'
  BY <1>1, <1>2, PrunedKeepsGrants DEF GrantHasRow
<1>4. asking' \in [Connections -> Requests] /\ NoFutureStamp'
  BY BackInv DEF Prune
<1>5. KeysTyped'
  BY <1>1, <1>2, <1>4, PrunedTyped DEF KeysInv, KeysTyped
<1>. QED
  BY <1>2, <1>3, <1>4, <1>5 DEF KeysInv, GrantedOnce

LEMMA KeysNextInv ==
  ASSUME KeysInv, [KeysNext]_keyVars
  PROVE  KeysInv'
<1>1. ASSUME NEW c \in Connections, NEW k \in Names \cup {"none"}, NEW ttl \in Ttls, Stamp(c, k, ttl)
      PROVE  KeysInv'
  <2>1. asking' \in [Connections -> Requests]
    BY <1>1, TtlsOK DEF Stamp, KeysInv, KeysTyped, Requests
  <2>2. NoFutureStamp'
    BY <1>1 DEF Stamp, KeysInv, KeysTyped, Requests, NoFutureStamp
  <2>. QED
    BY <1>1, <2>1, <2>2 DEF Stamp, KeysInv, KeysTyped, GrantHasRow, GrantedOnce
<1>2. ASSUME NEW c \in Connections, Rollback(c) PROVE KeysInv'
  BY <1>2, BackInv DEF Rollback, KeysInv, KeysTyped, GrantHasRow, GrantedOnce
<1>3. ASSUME Millisecond PROVE KeysInv'
  BY <1>3 DEF Millisecond, KeysInv, KeysTyped, Requests, NoFutureStamp, GrantHasRow, GrantedOnce
<1>4. CASE UNCHANGED keyVars
  BY <1>4 DEF keyVars, KeysInv, KeysTyped, NoFutureStamp, GrantHasRow, GrantedOnce
<1>. QED
  BY <1>1, <1>2, <1>3, <1>4, CheckAndStoreInv, PruneInv DEF KeysNext

\* IdempotencyRepository grants a key once in its time, whoever asks, waits,
\* prunes or fails in between.
THEOREM KeysGrantedOnce == KeysSpec => []GrantedOnce
<1>1. KeysInv => GrantedOnce
  BY DEF KeysInv
<1>. QED
  BY KeysStart, KeysNextInv, <1>1, PTL DEF KeysSpec
-----------------------------------------------------------------------------
(* The reconciliation tool.                                                *)
Stages == {"off", "orders", "fixing", "position", "compare", "balances", "done"}
Marks == [fixable : BOOLEAN, fixed : BOOLEAN]

\* What is written is written by a run that was to fix.
WritesAsked == written => suite.stage = "off" \/ suite.fix

ToolTyped ==
  /\ listed \in [OrderIds -> Statuses \cup {"none"}]
  /\ held \in Amounts /\ DOMAIN stored = OrderIds
  /\ methods \in BOOLEAN
  /\ suite \in [stage : Stages, fix : BOOLEAN,
                todo : SUBSET [rank : 1..3, order : OrderIds, status : Statuses \cup {"canceled"}],
                saw : Amounts \cup {0}]
  /\ found \in Seq(Marks)

OrdersSettled ==
  \A o \in OrderIds : IF listed[o] = "none" THEN o \notin OpenRows ELSE stored[o] = listed[o]

\* Nothing so far excuses the run: no error, and when it is not to fix no finding.
Clean == IF suite.fix THEN \A i \in DOMAIN found : found[i] # Error ELSE found = <<>>

\* How the exchange has an order of the work that is left.
AsListed(e) == e.status = IF listed[e.order] = "none" THEN "canceled" ELSE listed[e.order]

Settling ==
  /\ suite.stage = "orders" => found = <<>>
  /\ suite.stage = "fixing" =>
       /\ Compared(OpenRows) \subseteq suite.todo
       /\ \A e \in suite.todo : AsListed(e)
  /\ suite.stage \in {"position", "compare", "balances", "done"} => OrdersSettled
  /\ suite.stage = "compare" => suite.saw = held
  /\ suite.stage \in {"balances", "done"} => position = held

Undisturbed == methods /\ ~moved /\ suite.stage # "off"

ToolInv ==
  /\ ToolTyped /\ WritesAsked
  /\ Undisturbed =>
       /\ Clean => Settling
       /\ ~suite.fix => \A i \in DOMAIN found : ~found[i].fixed

LEMMA ToolStart == ToolInit => ToolInv
BY DEF ToolInit, ToolInv, ToolTyped, WritesAsked, Undisturbed, Off, Stages, Marks, Statuses

\* What is reported is typed, and excuses only more.
LEMMA Reported ==
  ASSUME ToolTyped, NEW d \in Marks, Report(d), suite'.fix = suite.fix
  PROVE  /\ found' \in Seq(Marks) /\ found' # <<>>
         /\ Clean' => Clean /\ (suite.fix => d # Error) /\ suite.fix
         /\ ~d.fixed /\ (\A i \in DOMAIN found : ~found[i].fixed)
              => \A i \in DOMAIN found' : ~found'[i].fixed
<1>. USE DEF ToolTyped, Report
<1>1. found' \in Seq(Marks) /\ found' # <<>> /\ DOMAIN found' = 1..(Len(found) + 1)
  OBVIOUS
<1>2. /\ DOMAIN found = 1..Len(found) /\ Len(found) \in Nat
      /\ \A i \in DOMAIN found : found'[i] = found[i]
      /\ found'[Len(found) + 1] = d
  OBVIOUS
<1>3. Clean' => Clean /\ (suite.fix => d # Error) /\ suite.fix
  BY <1>1, <1>2 DEF Clean
<1>4. \A i \in DOMAIN found' : i \in DOMAIN found \/ i = Len(found) + 1
  BY <1>1, <1>2
<1>. QED
  BY <1>1, <1>2, <1>3, <1>4

\* So it is with a finding that could not be put right and the error that came of it.
LEMMA ReportedTwice ==
  ASSUME ToolTyped, NEW d \in Marks, ~d.fixed,
         found' = found \o <<d, Error>>, suite'.fix = suite.fix
  PROVE  /\ found' \in Seq(Marks)
         /\ ~Clean'
         /\ (\A i \in DOMAIN found : ~found[i].fixed)
              => \A i \in DOMAIN found' : ~found'[i].fixed
<1>. USE DEF ToolTyped
<1>1. Error \in Marks /\ ~Error.fixed
  BY DEF Error, Finding, Marks
<1>2. <<d, Error>> \in Seq(Marks) /\ Len(<<d, Error>>) = 2
  BY <1>1
<1>3. /\ found' \in Seq(Marks) /\ DOMAIN found' = 1..(Len(found) + 2)
      /\ DOMAIN found = 1..Len(found) /\ Len(found) \in Nat
      /\ \A i \in DOMAIN found : found'[i] = found[i]
      /\ found'[Len(found) + 1] = d /\ found'[Len(found) + 2] = Error
  BY <1>2
<1>4. ~Clean'
  <2>1. Len(found) + 2 \in DOMAIN found' /\ found' # <<>>
    BY <1>3
  <2>. QED
    BY <1>3, <2>1 DEF Clean
<1>5. \A i \in DOMAIN found' : i \in DOMAIN found \/ i = Len(found) + 1 \/ i = Len(found) + 2
  BY <1>3
<1>. QED
  BY <1>1, <1>3, <1>4, <1>5

\* When nothing is left to compare, rows and exchange agree.
LEMMA NothingLeft ==
  ASSUME ToolTyped, Compared(OpenRows) = {}
  PROVE  OrdersSettled
<1>. SUFFICES ASSUME NEW o \in OrderIds
     PROVE IF listed[o] = "none" THEN o \notin OpenRows ELSE stored[o] = listed[o]
  BY DEF OrdersSettled
<1>. USE DEF ToolTyped
<1>1. \A x : x \notin Compared(OpenRows)
  OBVIOUS
<1>2. CASE listed[o] = "none"
  <2>1. o \in OpenRows => [rank |-> 1, order |-> o, status |-> "canceled"] \in Compared(OpenRows)
    BY <1>2 DEF Compared
  <2>. QED
    BY <1>1, <1>2, <2>1
<1>3. CASE listed[o] # "none" /\ o \notin OpenRows
  <2>1. [rank |-> 2, order |-> o, status |-> listed[o]] \in Compared(OpenRows)
    BY <1>3 DEF Compared
  <2>. QED
    BY <1>1, <2>1
<1>4. CASE listed[o] # "none" /\ o \in OpenRows
  <2>1. listed[o] # stored[o] => [rank |-> 3, order |-> o, status |-> listed[o]] \in Compared(OpenRows)
    BY <1>4 DEF Compared
  <2>. QED
    BY <1>1, <1>4, <2>1
<1>. QED
  BY <1>2, <1>3, <1>4

\* A finding is about an order, and says how the exchange has it.
LEMMA ComparedTyped ==
  ASSUME ToolTyped, NEW db \in SUBSET OrderIds, NEW e \in Compared(db)
  PROVE  /\ e \in [rank : 1..3, order : OrderIds, status : Statuses \cup {"canceled"}]
         /\ AsListed(e)
<1>. USE DEF ToolTyped, AsListed
<1>1. CASE e \in {[rank |-> 1, order |-> o, status |-> "canceled"] : o \in {x \in db : listed[x] = "none"}}
  BY <1>1
<1>2. CASE e \in {[rank |-> 2, order |-> o, status |-> listed[o]] :
                    o \in {x \in OrderIds \ db : listed[x] # "none"}}
  BY <1>2
<1>3. CASE e \in {[rank |-> 3, order |-> o, status |-> listed[o]] :
                    o \in {x \in db : listed[x] # "none" /\ listed[x] # stored[x]}}
  BY <1>3
<1>. QED
  BY <1>1, <1>2, <1>3 DEF Compared

\* The exchange moves on: nothing is promised of the run any more.
LEMMA MoveInv ==
  ASSUME ToolInv, NEW o \in OrderIds, NEW s \in Statuses \cup {"none"}, NEW n \in Amounts, Move(o, s, n)
  PROVE  ToolInv'
BY DEF ToolInv, ToolTyped, Move, WritesAsked, Undisturbed

LEMMA RunInv ==
  ASSUME ToolInv, NEW fix \in BOOLEAN, Run(fix)
  PROVE  ToolInv'
<1>1. suite' = [stage |-> "orders", fix |-> fix, todo |-> {}, saw |-> 0]
  BY DEF Run, Off
<1>2. ToolTyped' /\ WritesAsked' /\ found' = <<>>
  BY <1>1 DEF ToolInv, ToolTyped, Run, WritesAsked, Stages
<1>. QED
  BY <1>1, <1>2 DEF ToolInv, Settling

LEMMA CompareOrdersInv ==
  ASSUME ToolInv, CompareOrders
  PROVE  ToolInv'
<1>. USE DEF ToolInv, ToolTyped, CompareOrders
<1>. DEFINE db == IF methods THEN OpenRows ELSE {}
<1>1. WritesAsked' /\ (Undisturbed' => Undisturbed)
  BY DEF WritesAsked, Undisturbed, Stages
<1>2. CASE suite' = [suite EXCEPT !.stage = "fixing", !.todo = Compared(db)] /\ UNCHANGED found
  <2>1. \A e \in Compared(db) :
          /\ e \in [rank : 1..3, order : OrderIds, status : Statuses \cup {"canceled"}]
          /\ AsListed(e)
    <3>1. db \in SUBSET OrderIds
      BY DEF OpenRows
    <3>. QED
      BY <3>1, ComparedTyped
  <2>2. suite'.stage = "fixing" /\ suite'.todo = Compared(db) /\ suite'.fix = suite.fix
    BY <1>2
  <2>3. ToolTyped'
    BY <1>2, <2>1 DEF Stages
  <2>4. Undisturbed' => Settling'
    BY <1>2, <2>1, <2>2 DEF Settling, AsListed, Compared, OpenRows, Undisturbed
  <2>5. (Undisturbed /\ ~suite.fix => \A i \in DOMAIN found : ~found[i].fixed)
          => (Undisturbed' /\ ~suite'.fix => \A i \in DOMAIN found' : ~found'[i].fixed)
    BY <1>1, <1>2, <2>2
  <2>. QED
    BY <1>1, <2>3, <2>4, <2>5
<1>3. CASE suite' = [suite EXCEPT !.stage = "position"] /\ Report(Error)
  <2>1. Error \in Marks /\ ~Error.fixed
    BY DEF Error, Finding, Marks
  <2>2. suite'.fix = suite.fix
    BY <1>3
  <2>3. /\ found' \in Seq(Marks) /\ ~Clean'
        /\ (\A i \in DOMAIN found : ~found[i].fixed) => \A i \in DOMAIN found' : ~found'[i].fixed
    BY <1>3, <2>1, <2>2, Reported
  <2>4. ToolTyped'
    BY <1>3, <2>3 DEF Stages
  <2>. QED
    BY <1>1, <2>2, <2>3, <2>4
<1>. QED
  BY <1>2, <1>3

\* A row that is written as the exchange has its order needs no more work.
LEMMA WrittenAgrees ==
  ASSUME ToolTyped, NEW e \in suite.todo, AsListed(e), UNCHANGED listed,
         stored' = [stored EXCEPT ![e.order] = e.status],
         Compared(OpenRows) \subseteq suite.todo
  PROVE  Compared(OpenRows)' \subseteq suite.todo \ {e}
<1>. USE DEF ToolTyped
<1>1. e.order \in OrderIds /\ stored'[e.order] = e.status
  OBVIOUS
<1>2. \A o \in OrderIds : o # e.order => stored'[o] = stored[o]
  OBVIOUS
<1>3. e.order \in OpenRows' <=> listed[e.order] # "none"
  BY <1>1 DEF OpenRows, AsListed, Statuses
<1>4. \A o \in OrderIds : o # e.order => (o \in OpenRows' <=> o \in OpenRows)
  BY <1>2 DEF OpenRows
<1>5. ASSUME NEW f \in Compared(OpenRows)'
      PROVE  f.order # e.order /\ f \in Compared(OpenRows)
  <2>1. PICK o \in OrderIds :
          \/ f = [rank |-> 1, order |-> o, status |-> "canceled"] /\ o \in OpenRows' /\ listed[o] = "none"
          \/ f = [rank |-> 2, order |-> o, status |-> listed[o]] /\ o \notin OpenRows' /\ listed[o] # "none"
          \/ /\ f = [rank |-> 3, order |-> o, status |-> listed[o]]
             /\ o \in OpenRows' /\ listed[o] # "none" /\ listed[o] # stored'[o]
    BY <1>5 DEF Compared, OpenRows
  <2>2. f.order = o
    BY <2>1
  <2>3. o # e.order
    BY <1>1, <1>3, <2>1 DEF AsListed
  <2>4. f \in Compared(OpenRows)
    BY <1>2, <1>4, <2>1, <2>3 DEF Compared, OpenRows
  <2>. QED
    BY <2>2, <2>3, <2>4
<1>. QED
  BY <1>5

LEMMA FixOrderInv ==
  ASSUME ToolInv, NEW e \in suite.todo, FixOrder(e)
  PROVE  ToolInv'
<1>. DEFINE d == Finding(TRUE, Fixed(e))
<1>1. d \in Marks /\ (~suite.fix => ~d.fixed) /\ d # Error
  BY DEF ToolInv, ToolTyped, Finding, Fixed, Marks, Error
<1>. HIDE DEF d
<1>2. suite' = [suite EXCEPT !.todo = @ \ {e}] /\ Report(d)
  BY DEF FixOrder, d
<1>3. /\ suite'.fix = suite.fix /\ suite'.stage = "fixing" /\ suite.stage = "fixing"
      /\ suite'.todo = suite.todo \ {e}
  BY <1>2 DEF FixOrder, ToolInv, ToolTyped
<1>4. /\ found' \in Seq(Marks) /\ found' # <<>>
      /\ Clean' => Clean /\ suite.fix
      /\ ~d.fixed /\ (\A i \in DOMAIN found : ~found[i].fixed)
           => \A i \in DOMAIN found' : ~found'[i].fixed
  BY <1>1, <1>2, <1>3, Reported DEF ToolInv
<1>5. ToolTyped'
  <2>1. DOMAIN stored' = OrderIds
    BY DEF ToolInv, ToolTyped, FixOrder
  <2>. QED
    BY <2>1, <1>2, <1>4 DEF ToolInv, ToolTyped, FixOrder
<1>6. WritesAsked'
  BY <1>3 DEF ToolInv, ToolTyped, WritesAsked, FixOrder, Writes
<1>7. (Undisturbed' => Undisturbed) /\ (Undisturbed => methods)
  BY <1>3 DEF Undisturbed, FixOrder
<1>8. ASSUME Undisturbed', Clean' PROVE Settling'
  <2>1. Settling /\ Writes(e)
    BY <1>4, <1>7, <1>8 DEF ToolInv, Writes
  <2>2. AsListed(e) /\ Compared(OpenRows) \subseteq suite.todo
    BY <1>3, <2>1 DEF Settling
  <2>3. stored' = [stored EXCEPT ![e.order] = e.status] /\ UNCHANGED listed
    BY <2>1 DEF FixOrder
  <2>4. Compared(OpenRows)' \subseteq suite'.todo
    BY <1>3, <2>2, <2>3, WrittenAgrees DEF ToolInv
  <2>5. \A f \in suite'.todo : AsListed(f)'
    BY <1>3, <2>1, <2>3 DEF Settling, AsListed
  <2>. QED
    BY <1>3, <2>4, <2>5 DEF Settling
<1>. QED
  BY <1>1, <1>3, <1>4, <1>5, <1>6, <1>7, <1>8 DEF ToolInv

\* With an error among the findings the rest need not be followed.
LEMMA FailedInv ==
  ASSUME ToolInv, found' = found \o <<Finding(TRUE, FALSE), Error>>, suite'.fix = suite.fix,
         suite' \in [stage : Stages, fix : BOOLEAN,
                     todo : SUBSET [rank : 1..3, order : OrderIds, status : Statuses \cup {"canceled"}],
                     saw : Amounts \cup {0}],
         suite.stage # "off", suite'.stage # "off",
         UNCHANGED <<listed, held, methods, stored, moved, written>>
  PROVE  ToolInv'
<1>1. Finding(TRUE, FALSE) \in Marks /\ ~Finding(TRUE, FALSE).fixed
  BY DEF Finding, Marks
<1>2. /\ found' \in Seq(Marks) /\ ~Clean'
      /\ (\A i \in DOMAIN found : ~found[i].fixed) => \A i \in DOMAIN found' : ~found'[i].fixed
  BY <1>1, ReportedTwice DEF ToolInv
<1>3. ToolTyped' /\ WritesAsked' /\ (Undisturbed' => Undisturbed)
  BY <1>2 DEF ToolInv, ToolTyped, WritesAsked, Undisturbed
<1>. QED
  BY <1>2, <1>3 DEF ToolInv

LEMMA FixOrderFailsInv ==
  ASSUME ToolInv, NEW e \in suite.todo, FixOrderFails(e)
  PROVE  ToolInv'
<1>1. suite' = [suite EXCEPT !.stage = "position", !.todo = {}] /\ suite.stage = "fixing"
  BY DEF FixOrderFails
<1>. QED
  BY <1>1, FailedInv DEF ToolInv, ToolTyped, Stages, FixOrderFails

LEMMA ComparePositionFailsInv ==
  ASSUME ToolInv, ComparePositionFails
  PROVE  ToolInv'
<1>1. suite' = [suite EXCEPT !.stage = "balances"] /\ suite.stage = "compare"
  BY DEF ComparePositionFails
<1>. QED
  BY <1>1, FailedInv DEF ToolInv, ToolTyped, Stages, ComparePositionFails

LEMMA EndOrdersInv ==
  ASSUME ToolInv, EndOrders
  PROVE  ToolInv'
<1>1. /\ suite' = [suite EXCEPT !.stage = "position"] /\ suite.stage = "fixing" /\ suite.todo = {}
      /\ UNCHANGED <<listed, held, methods, stored, position, found, moved, written>>
  BY DEF EndOrders
<1>2. suite'.stage = "position" /\ suite'.fix = suite.fix /\ ToolTyped'
  BY <1>1 DEF ToolInv, ToolTyped, Stages
<1>3. WritesAsked' /\ (Undisturbed' => Undisturbed) /\ (Clean' => Clean)
  BY <1>1, <1>2 DEF ToolInv, WritesAsked, Undisturbed, Clean
<1>4. ASSUME Settling PROVE Settling'
  <2>1. OrdersSettled
    BY <1>1, <1>4, NothingLeft DEF ToolInv, Settling
  <2>. QED
    BY <1>1, <1>2, <2>1 DEF Settling, OrdersSettled, OpenRows
<1>. QED
  BY <1>1, <1>2, <1>3, <1>4 DEF ToolInv

LEMMA FetchPositionInv ==
  ASSUME ToolInv, FetchPosition
  PROVE  ToolInv'
<1>. USE DEF FetchPosition
<1>1. UNCHANGED <<listed, held, methods, stored, position, moved, written>> /\ suite.stage = "position"
  OBVIOUS
<1>2. CASE suite' = [suite EXCEPT !.stage = "compare", !.saw = held] /\ UNCHANGED found
  <2>1. suite'.stage = "compare" /\ suite'.saw = held /\ suite'.fix = suite.fix /\ ToolTyped'
    BY <1>1, <1>2 DEF ToolInv, ToolTyped, Stages
  <2>2. WritesAsked' /\ (Undisturbed' => Undisturbed) /\ (Clean' => Clean)
    BY <1>1, <1>2, <2>1 DEF ToolInv, WritesAsked, Undisturbed, Clean
  <2>3. Settling => Settling'
    BY <1>1, <2>1 DEF Settling, OrdersSettled, OpenRows
  <2>. QED
    BY <1>1, <1>2, <2>1, <2>2, <2>3 DEF ToolInv
<1>3. CASE suite' = [suite EXCEPT !.stage = "balances"] /\ Report(Error)
  <2>1. Error \in Marks /\ ~Error.fixed
    BY DEF Error, Finding, Marks
  <2>2. suite'.stage = "balances" /\ suite'.fix = suite.fix
    BY <1>3 DEF ToolInv, ToolTyped
  <2>3. /\ found' \in Seq(Marks) /\ ~Clean'
        /\ (\A i \in DOMAIN found : ~found[i].fixed) => \A i \in DOMAIN found' : ~found'[i].fixed
    BY <1>3, <2>1, <2>2, Reported DEF ToolInv
  <2>4. ToolTyped' /\ WritesAsked' /\ (Undisturbed' => Undisturbed)
    BY <1>1, <1>3, <2>2, <2>3 DEF ToolInv, ToolTyped, WritesAsked, Undisturbed, Stages
  <2>. QED
    BY <2>2, <2>3, <2>4 DEF ToolInv
<1>. QED
  BY <1>2, <1>3

LEMMA ComparePositionInv ==
  ASSUME ToolInv, ComparePosition
  PROVE  ToolInv'
<1>1. /\ suite' = [suite EXCEPT !.stage = "balances"] /\ suite.stage = "compare"
      /\ UNCHANGED <<listed, held, methods, stored, moved>>
  BY DEF ComparePosition
<1>2. suite'.stage = "balances" /\ suite'.fix = suite.fix
  BY <1>1 DEF ToolInv, ToolTyped
<1>3. (Undisturbed' => Undisturbed) /\ (Undisturbed => methods)
  BY <1>1 DEF Undisturbed
<1>4. WritesAsked'
  BY <1>1, <1>2 DEF ToolInv, WritesAsked, ComparePosition
<1>5. CASE ~Differs
  <2>1. UNCHANGED <<found, position, written>> /\ (methods => position = suite.saw)
    BY <1>5 DEF ComparePosition, Differs, ToolInv, ToolTyped
  <2>2. ToolTyped' /\ (Clean' => Clean)
    BY <1>1, <1>2, <2>1 DEF ToolInv, ToolTyped, Stages, Clean
  <2>3. Settling /\ methods => Settling'
    BY <1>1, <1>2, <2>1 DEF Settling, OrdersSettled, OpenRows
  <2>. QED
    BY <1>2, <1>3, <1>4, <2>1, <2>2, <2>3 DEF ToolInv
<1>6. CASE Differs
  <2>. DEFINE d == Finding(TRUE, suite.fix /\ (methods \/ suite.saw # 0))
  <2>1. d \in Marks /\ (~suite.fix => ~d.fixed) /\ Report(d)
    BY <1>6 DEF ToolInv, ToolTyped, ComparePosition, Finding, Marks
  <2>. HIDE DEF d
  <2>2. /\ found' \in Seq(Marks) /\ (Clean' => Clean /\ suite.fix)
        /\ ~d.fixed /\ (\A i \in DOMAIN found : ~found[i].fixed)
             => \A i \in DOMAIN found' : ~found'[i].fixed
    BY <1>2, <2>1, Reported DEF ToolInv
  <2>3. ToolTyped'
    BY <1>1, <2>2 DEF ToolInv, ToolTyped, Stages
  <2>4. methods /\ suite.fix => position' = suite.saw
    BY <1>6 DEF ComparePosition
  <2>5. Settling /\ methods /\ suite.fix => Settling'
    BY <1>1, <1>2, <2>4 DEF Settling, OrdersSettled, OpenRows
  <2>. QED
    BY <1>2, <1>3, <1>4, <2>1, <2>2, <2>3, <2>5 DEF ToolInv
<1>. QED
  BY <1>5, <1>6

LEMMA CompareBalancesInv ==
  ASSUME ToolInv, NEW wrong \in BOOLEAN, CompareBalances(wrong)
  PROVE  ToolInv'
<1>1. /\ suite' = [suite EXCEPT !.stage = "done"] /\ suite.stage = "balances"
      /\ UNCHANGED <<listed, held, methods, stored, position, moved, written>>
  BY DEF CompareBalances
<1>2. suite'.stage = "done" /\ suite'.fix = suite.fix
  BY <1>1 DEF ToolInv, ToolTyped
<1>3. WritesAsked' /\ (Undisturbed' => Undisturbed)
  BY <1>1, <1>2 DEF ToolInv, WritesAsked, Undisturbed
<1>4. Settling => Settling'
  BY <1>1, <1>2 DEF Settling, OrdersSettled, OpenRows
<1>5. CASE UNCHANGED found
  BY <1>1, <1>2, <1>3, <1>4, <1>5 DEF ToolInv, ToolTyped, Stages, Clean
<1>6. CASE Report(Error)
  <2>1. Error \in Marks /\ ~Error.fixed
    BY DEF Error, Finding, Marks
  <2>2. /\ found' \in Seq(Marks) /\ ~Clean'
        /\ (\A i \in DOMAIN found : ~found[i].fixed) => \A i \in DOMAIN found' : ~found'[i].fixed
    BY <1>2, <1>6, <2>1, Reported DEF ToolInv
  <2>3. ToolTyped'
    BY <1>1, <2>2 DEF ToolInv, ToolTyped, Stages
  <2>. QED
    BY <1>2, <1>3, <2>2, <2>3 DEF ToolInv
<1>. QED
  BY <1>5, <1>6 DEF CompareBalances, Error

\* Between runs nothing is promised but that nobody writes.
LEMMA FinishInv ==
  ASSUME ToolInv, Finish \/ UNCHANGED toolVars
  PROVE  ToolInv'
<1>1. CASE Finish
  <2>1. suite' = Off /\ UNCHANGED <<listed, held, methods, stored, found, moved, written>>
    BY <1>1 DEF Finish
  <2>2. suite'.stage = "off" /\ ToolTyped'
    BY <2>1 DEF ToolInv, ToolTyped, Off, Stages
  <2>. QED
    BY <2>2 DEF ToolInv, WritesAsked, Undisturbed
<1>2. CASE UNCHANGED toolVars
  BY <1>2 DEF toolVars, ToolInv, ToolTyped, WritesAsked, Undisturbed, Clean, Settling,
              OrdersSettled, OpenRows, Compared, AsListed
<1>. QED
  BY <1>1, <1>2

\* The status of a report without a repair in it.
LEMMA StatusFound ==
  ASSUME found \in Seq(Marks), found # <<>>, \A i \in DOMAIN found : ~found[i].fixed
  PROVE  Status(found) = "discrepancies_found"
BY DEF Status

LEMMA ToolKeepsWord == ToolInv => RunsSettle
<1>. SUFFICES ASSUME ToolInv, suite.stage = "done", methods, ~moved,
                     \A i \in DOMAIN found : found[i] # Error,
                     ~(~suite.fix /\ Status(found) = "discrepancies_found")
     PROVE  Agree
  BY DEF RunsSettle, ToolInv, WritesAsked
<1>1. Clean
  <2>1. CASE suite.fix
    BY <2>1 DEF Clean
  <2>2. CASE ~suite.fix
    <3>1. \A i \in DOMAIN found : ~found[i].fixed
      BY <2>2 DEF ToolInv, Undisturbed
    <3>. QED
      BY <2>2, <3>1, StatusFound DEF Clean, ToolInv, ToolTyped
  <2>. QED
    BY <2>1, <2>2
<1>. QED
  BY <1>1 DEF ToolInv, Undisturbed, Settling, Agree, OrdersSettled

\* What a run of the tool leaves behind (cli/reconcile.py), for any orders, amounts,
\* runs and moves of the exchange: nothing written unless it was to fix, and agreement
\* with an exchange that stood still unless the report says otherwise.
THEOREM ToolSettles == ToolSpec => []RunsSettle
<1>1. ToolInv /\ [ToolNext]_toolVars => ToolInv'
  BY MoveInv, RunInv, CompareOrdersInv, EndOrdersInv, FetchPositionInv, ComparePositionInv,
     ComparePositionFailsInv, FinishInv, FixOrderInv, FixOrderFailsInv, CompareBalancesInv
     DEF ToolNext
<1>. QED
  BY ToolStart, ToolKeepsWord, <1>1, PTL DEF ToolSpec
=============================================================================
