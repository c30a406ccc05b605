--------------------------- MODULE TranchePoolProofs ---------------------------
(***************************************************************************)
(* What TranchePool guarantees for any finite sets of assets and investors,*)
(* any prices, ratios, limits, lots, marks and collections.                *)
(***************************************************************************)
EXTENDS TranchePool, Sums, SequenceTheorems, TLAPS

(* Arithmetic.                                                             *)
LEMMA LeastIs ==
  \A x, y \in Int: Least(x, y) \in {x, y} /\ Least(x, y) <= x /\ Least(x, y) <= y
BY DEF Least

LEMMA ExcessIs ==
  \A x, y \in Int: Excess(x, y) \in Nat /\ (x <= y => Excess(x, y) = 0)
BY DEF Excess

LEMMA Divides ==
  \A a \in Int, d \in Nat \ {0}:
    a \div d \in Int /\ d * (a \div d) <= a /\ a < d * (a \div d) + d
OBVIOUS

LEMMA DividesNat ==
  ASSUME NEW a \in Nat, NEW d \in Nat \ {0}
  PROVE  a \div d \in Nat /\ d * (a \div d) <= a
<1>1. a \div d \in Int /\ d * (a \div d) <= a /\ a < d * (a \div d) + d
  BY Divides
<1>2. \A q \in Int: q < 0 => d * q + d <= 0
  OBVIOUS
<1>3. QED
  BY <1>1, <1>2

LEMMA StepInduction ==
  ASSUME NEW n \in Nat, NEW G, 0 \in G, \A k \in 1..n: k - 1 \in G => k \in G
  PROVE  \A k \in 0..n: k \in G
<1> DEFINE B == {k \in 0..n: k \notin G}
           I == {0..k: k \in B}
<1>1. IsFiniteSet(0..n)
  <2>1. 0 \in Int /\ n \in Int
    OBVIOUS
  <2>2. QED
    BY <2>1, FS_Interval
<1>2. I # {} => \E m \in I: \A u \in I: u \subseteq m => u = m
  <2>1. ASSUME NEW k \in B PROVE 0..k \in SUBSET (0..n)
    OBVIOUS
  <2>2. I \subseteq SUBSET (0..n)
    BY <2>1
  <2> DEFINE F == 0..n
  <2> HIDE DEF I, F
  <2>3. ASSUME I # {} PROVE \E m \in I: \A u \in I: u \subseteq m => u = m
    <3>1. IsFiniteSet(F) /\ I \subseteq SUBSET F
      BY <1>1, <2>2 DEF F
    <3>2. QED
      BY ONLY <2>3, <3>1, SmallestSubset
  <2>4. QED
    BY <2>3
<1>3. ASSUME NEW k \in B, \A j \in B: 0..j \subseteq 0..k => 0..j = 0..k PROVE FALSE
  <2>1. k \in 1..n /\ k - 1 \in 0..n /\ k - 1 \notin G
    BY <1>3
  <2>2. k - 1 \in B /\ 0..(k - 1) \subseteq 0..k /\ k \in 0..k /\ k \notin 0..(k - 1)
    BY <2>1
  <2>3. QED
    BY <1>3, <2>2
<1>4. B = {}
  <2>1. ASSUME NEW m \in I, \A u \in I: u \subseteq m => u = m PROVE FALSE
    <3>1. PICK k \in B: m = 0..k
      OBVIOUS
    <3>2. \A j \in B: 0..j \in I
      OBVIOUS
    <3>3. \A j \in B: 0..j \subseteq 0..k => 0..j = 0..k
      BY <2>1, <3>1, <3>2
    <3>4. QED
      BY <1>3, <3>3
  <2>2. I = {}
    BY <1>2, <2>1
  <2>3. \A j \in B: 0..j \in I
    OBVIOUS
  <2>4. QED
    BY <2>2, <2>3
<1>5. QED
  BY <1>4
-------------------------------------------------------------------------------
(* The redemptions of one tranche: the table of what is left after each    *)
(* request exists, so that Redeem returns its last row.                    *)
IsTable(g, start, q, nav, n) ==
  /\ DOMAIN g = 0..n
  /\ g[0] = start
  /\ \A k \in 1..n: g[k] = Serve(g[k - 1], q[k], nav)

LEMMA TableExists ==
  ASSUME NEW start, NEW q, NEW nav, NEW n \in Nat
  PROVE  \E g: IsTable(g, start, q, nav, n)
<1> DEFINE G == {k \in 0..n: \E g: IsTable(g, start, q, nav, k)}
<1>1. 0 \in G
  <2>1. IsTable([k \in 0..0 |-> start], start, q, nav, 0)
    BY DEF IsTable
  <2>2. QED
    BY <2>1
<1>2. ASSUME NEW k \in 1..n, k - 1 \in G PROVE k \in G
  <2>1. PICK g: IsTable(g, start, q, nav, k - 1)
    BY <1>2
  <2> DEFINE h == [j \in 0..k |-> IF j = k THEN Serve(g[k - 1], q[k], nav) ELSE g[j]]
  <2>2. DOMAIN h = 0..k /\ h[0] = start
    BY <2>1 DEF IsTable
  <2>3. ASSUME NEW j \in 1..k PROVE h[j] = Serve(h[j - 1], q[j], nav)
    <3>1. h[j - 1] = g[j - 1]
      OBVIOUS
    <3>2. CASE j = k
      BY <3>1, <3>2
    <3>3. CASE j # k
      <4>1. j \in 1..(k - 1) /\ h[j] = g[j]
        BY <3>3
      <4> HIDE DEF h
      <4>2. QED
        BY <2>1, <3>1, <4>1 DEF IsTable
    <3>4. QED
      BY <3>2, <3>3
  <2>4. IsTable(h, start, q, nav, k)
    <3> HIDE DEF h
    <3>1. QED
      BY <2>2, <2>3 DEF IsTable
  <2>5. QED
    BY <2>4
<1>3. n \in G
  <2> HIDE DEF G
  <2>1. \A k \in 0..n: k \in G
    BY ONLY <1>1, <1>2, StepInduction, n \in Nat
  <2>2. QED
    BY <2>1
<1>4. QED
  BY <1>3

Start(t, cash) == [cash |-> cash, held |-> holding[t], waiting |-> <<>>, tokens |-> 0]

LEMMA RedeemIsTable ==
  ASSUME NEW t \in Tranche, NEW nav, NEW cash, Len(queue[t]) \in Nat
  PROVE  \E g: /\ IsTable(g, Start(t, cash), queue[t], nav, Len(queue[t]))
               /\ Redeem(t, nav, cash) = g[Len(queue[t])]
<1> DEFINE n == Len(queue[t])
           start == Start(t, cash)
           body(g) == [k \in 0..n |-> IF k = 0 THEN start ELSE Serve(g[k - 1], queue[t][k], nav)]
           after == CHOOSE g: g = body(g)
<1>1. Redeem(t, nav, cash) = after[n]
  BY DEF Redeem, Start
<1>2. PICK g: IsTable(g, start, queue[t], nav, n)
  BY TableExists
<1>3. \E h: h = body(h)
  <2> DEFINE h == [k \in 0..n |-> g[k]]
  <2>1. ASSUME NEW k \in 0..n PROVE h[k] = body(h)[k]
    <3>1. CASE k = 0
      BY <1>2, <3>1 DEF IsTable
    <3>2. CASE k # 0
      <4>1. k \in 1..n /\ k - 1 \in 0..n
        BY <3>2
      <4>2. h[k] = g[k] /\ h[k - 1] = g[k - 1]
        BY <4>1
      <4>3. g[k] = Serve(g[k - 1], queue[t][k], nav)
        BY <1>2, <4>1 DEF IsTable
      <4>4. body(h)[k] = Serve(h[k - 1], queue[t][k], nav)
        BY <3>2
      <4>5. QED
        BY <4>2, <4>3, <4>4
    <3>3. QED
      BY <3>1, <3>2
  <2>2. DOMAIN h = 0..n /\ DOMAIN body(h) = 0..n
    OBVIOUS
  <2>3. h = body(h)
    BY <2>1, <2>2
  <2>4. QED
    BY <2>3
<1>4. after = body(after)
  BY <1>3
<1>5. IsTable(after, start, queue[t], nav, n)
  <2> HIDE DEF after, start
  <2>1. DOMAIN after = 0..n
    BY <1>4
  <2>2. ASSUME NEW k \in 0..n
        PROVE  after[k] = IF k = 0 THEN start ELSE Serve(after[k - 1], queue[t][k], nav)
    BY <1>4
  <2> HIDE DEF n
  <2>3. n \in Nat
    BY DEF n
  <2>4. QED
    BY <2>1, <2>2, <2>3 DEF IsTable
<1>6. QED
  BY <1>1, <1>5
-------------------------------------------------------------------------------
(* What an investor asks for in a queue, and in the part of it after k.    *)
Amounts(q, i) == [k \in DOMAIN q |-> IF q[k].investor = i THEN q[k].amount ELSE 0]
Asked(q, i)   == SumFunctionOnSet(Amounts(q, i), DOMAIN q)
Rest(q, i, k) == SumFunctionOnSet(Amounts(q, i), (k + 1)..Len(q))

LEMMA AmountsType ==
  ASSUME NEW q \in Seq(Request), NEW i
  PROVE  /\ Len(q) \in Nat /\ DOMAIN q = 1..Len(q) /\ IsFiniteSet(DOMAIN q)
         /\ \A k \in DOMAIN q: q[k] \in Request /\ Amounts(q, i)[k] \in Nat
<1>1. Len(q) \in Nat /\ DOMAIN q = 1..Len(q) /\ \A k \in 1..Len(q): q[k] \in Request
  BY LenProperties, ElementOfSeq
<1>2. IsFiniteSet(1..Len(q))
  <2>1. 1 \in Int /\ Len(q) \in Int
    BY <1>1
  <2>2. QED
    BY <2>1, FS_Interval
<1>3. \A r \in Request: r.amount \in Nat
  BY PoolAssumption DEF Request
<1>4. QED
  BY <1>1, <1>2, <1>3 DEF Amounts

LEMMA AskedNat ==
  ASSUME NEW q \in Seq(Request), NEW i
  PROVE  Asked(q, i) \in Nat
BY AmountsType, SumIsNat DEF Asked

LEMMA AskedOfNone == ASSUME NEW i PROVE Asked(<<>>, i) = 0
<1>1. DOMAIN <<>> = {}
  OBVIOUS
<1>2. QED
  BY <1>1, SumOfNone DEF Asked

LEMMA AskedAppend ==
  ASSUME NEW q \in Seq(Request), NEW r \in Request, NEW i
  PROVE  Asked(Append(q, r), i) = Asked(q, i) + (IF r.investor = i THEN r.amount ELSE 0)
<1> DEFINE p == Append(q, r)
           n == Len(q) + 1
<1>1. /\ p \in Seq(Request) /\ Len(q) \in Nat /\ DOMAIN q = 1..Len(q)
      /\ DOMAIN p = 1..n /\ p[n] = r /\ \A k \in 1..Len(q): p[k] = q[k]
  BY AppendProperties, LenProperties
<1> HIDE DEF p
<1>2. /\ IsFiniteSet(DOMAIN p) /\ IsFiniteSet(DOMAIN q)
      /\ \A k \in DOMAIN p: Amounts(p, i)[k] \in Int
      /\ \A k \in DOMAIN q: Amounts(q, i)[k] \in Int
  BY <1>1, AmountsType
<1>3. n \in DOMAIN p /\ DOMAIN p \ {n} = DOMAIN q
  BY <1>1
<1>4. Asked(p, i) = Amounts(p, i)[n] + SumFunctionOnSet(Amounts(p, i), DOMAIN p \ {n})
  BY <1>2, <1>3, SumTakeOut DEF Asked
<1>5. SumFunctionOnSet(Amounts(p, i), DOMAIN q) = Asked(q, i)
  <2>1. \A k \in DOMAIN q: Amounts(p, i)[k] = Amounts(q, i)[k]
    BY <1>1 DEF Amounts
  <2>2. QED
    BY <1>2, <2>1, SumSame DEF Asked
<1>6. Amounts(p, i)[n] = IF r.investor = i THEN r.amount ELSE 0
  BY <1>1, <1>3 DEF Amounts
<1>7. /\ Asked(q, i) \in Nat
      /\ Asked(p, i) = Amounts(p, i)[n] + Asked(q, i) /\ Amounts(p, i)[n] \in Int
  BY <1>2, <1>3, <1>4, <1>5, AskedNat
<1>8. QED
  BY <1>6, <1>7 DEF p

LEMMA RestSteps ==
  ASSUME NEW q \in Seq(Request), NEW i, NEW k \in 1..Len(q)
  PROVE  /\ Rest(q, i, k - 1) = Rest(q, i, k) + Amounts(q, i)[k]
         /\ Rest(q, i, k) \in Int
<1>1. /\ Len(q) \in Nat /\ DOMAIN q = 1..Len(q) /\ IsFiniteSet(DOMAIN q)
      /\ \A j \in DOMAIN q: Amounts(q, i)[j] \in Nat
  BY AmountsType
<1> DEFINE f == Amounts(q, i)
<1>2. /\ k \in Int /\ Len(q) \in Int /\ k <= Len(q) /\ \A j \in k..Len(q): f[j] \in Int
      /\ (k - 1) + 1 = k
  BY <1>1
<1> HIDE DEF f
<1>3. /\ SumFunctionOnSet(f, k..Len(q)) = f[k] + SumFunctionOnSet(f, (k + 1)..Len(q))
      /\ SumFunctionOnSet(f, (k + 1)..Len(q)) \in Int /\ f[k] \in Int
  BY <1>2, SumRange
<1>4. QED
  BY <1>2, <1>3 DEF Rest, f

LEMMA RestEnds ==
  ASSUME NEW q \in Seq(Request), NEW i
  PROVE  Rest(q, i, 0) = Asked(q, i) /\ Rest(q, i, Len(q)) = 0
<1>1. Len(q) \in Nat /\ DOMAIN q = 1..Len(q)
  BY AmountsType
<1>2. (0 + 1)..Len(q) = DOMAIN q /\ (Len(q) + 1)..Len(q) = {}
  BY <1>1
<1>3. QED
  BY <1>2, SumOfNone DEF Rest, Asked
-------------------------------------------------------------------------------
(* The books of the redemptions, k requests on: what left the holdings was *)
(* counted, and what a position has pending is asked for by the requests   *)
(* that wait and those still to come.                                      *)
Held(h) == SumFunctionOnSet([i \in Investors |-> h[i].tokens], Investors)

Books(s, h, q, k) ==
  /\ s \in [cash: Int, held: [Investors -> Holding], waiting: Seq(Request), tokens: Nat]
  /\ Held(s.held) = Held(h) - s.tokens
  /\ \A i \in Investors:
       /\ s.held[i].tokens - s.held[i].pending = h[i].tokens - h[i].pending
       /\ s.held[i].pending
            = h[i].pending - Asked(q, i) + Asked(s.waiting, i) + Rest(q, i, k)

LEMMA HeldMoves ==
  ASSUME NEW h \in [Investors -> Holding], NEW i \in Investors, NEW x \in Holding
  PROVE  /\ Held([h EXCEPT ![i] = x]) = Held(h) - h[i].tokens + x.tokens
         /\ Held(h) \in Int
<1> DEFINE f == [j \in Investors |-> h[j].tokens]
           g == [j \in Investors |-> [h EXCEPT ![i] = x][j].tokens]
<1>1. /\ \A j \in Investors: f[j] \in Int /\ (j # i => g[j] = f[j])
      /\ g[i] = x.tokens /\ f[i] = h[i].tokens /\ g[i] \in Int
      /\ IsFiniteSet(Investors)
  BY PoolAssumption DEF Holding
<1>2. Held(h) = SumFunctionOnSet(f, Investors)
      /\ Held([h EXCEPT ![i] = x]) = SumFunctionOnSet(g, Investors)
  BY DEF Held
<1> HIDE DEF f, g
<1>3. SumFunctionOnSet(g, Investors) = SumFunctionOnSet(f, Investors) - f[i] + g[i]
  BY <1>1, SumChanged
<1>4. SumFunctionOnSet(f, Investors) \in Int
  BY <1>1, SumIsInt
<1>5. QED
  BY <1>1, <1>2, <1>3, <1>4

LEMMA ServeKeepsBooks ==
  ASSUME NEW h \in [Investors -> Holding], NEW q \in Seq(Request), NEW k \in 1..Len(q),
         NEW nav \in Nat, NEW s, Books(s, h, q, k - 1)
  PROVE  Books(Serve(s, q[k], nav), h, q, k)
<1> DEFINE r == q[k]
           who == r.investor
           n == r.amount
           z == Serve(s, r, nav)
<1>1. /\ r \in Request /\ who \in Investors /\ n \in Nat /\ n * nav \in Int
      /\ s \in [cash: Int, held: [Investors -> Holding], waiting: Seq(Request), tokens: Nat]
      /\ s.held[who] \in Holding
  <2>1. r \in Request
    BY AmountsType
  <2>2. who \in Investors /\ n \in Nat
    BY <2>1, PoolAssumption DEF Request
  <2>3. \A x, y \in Nat: x * y \in Int
    OBVIOUS
  <2> HIDE DEF who, n
  <2>4. QED
    BY <2>1, <2>2, <2>3 DEF Books
<1>2. ASSUME NEW i \in Investors
      PROVE  /\ Rest(q, i, k - 1) = Rest(q, i, k) + (IF who = i THEN n ELSE 0)
             /\ Rest(q, i, k) \in Int /\ Asked(q, i) \in Int /\ Asked(s.waiting, i) \in Int
             /\ s.held[i].tokens - s.held[i].pending = h[i].tokens - h[i].pending
             /\ s.held[i].pending
                  = h[i].pending - Asked(q, i) + Asked(s.waiting, i) + Rest(q, i, k - 1)
             /\ s.held[i].tokens \in Int /\ s.held[i].pending \in Int
             /\ h[i].tokens \in Int /\ h[i].pending \in Int
  <2>1. k \in DOMAIN q
    BY AmountsType
  <2>2. Amounts(q, i)[k] = IF who = i THEN n ELSE 0
    BY <2>1 DEF Amounts
  <2>3. Asked(q, i) \in Nat /\ Asked(s.waiting, i) \in Nat
    BY <1>1, AskedNat
  <2> HIDE DEF who, n, r
  <2>4. s.held[i] \in Holding /\ h[i] \in Holding
    BY <1>1
  <2>5. /\ Rest(q, i, k - 1) = Rest(q, i, k) + (IF who = i THEN n ELSE 0)
        /\ Rest(q, i, k) \in Int
    BY <2>2, RestSteps
  <2>6. /\ s.held[i].tokens - s.held[i].pending = h[i].tokens - h[i].pending
        /\ s.held[i].pending
             = h[i].pending - Asked(q, i) + Asked(s.waiting, i) + Rest(q, i, k - 1)
    BY DEF Books
  <2>7. /\ s.held[i].tokens \in Int /\ s.held[i].pending \in Int
        /\ h[i].tokens \in Int /\ h[i].pending \in Int
    BY <2>4 DEF Holding
  <2>8. QED
    BY <2>3, <2>5, <2>6, <2>7
<1> HIDE DEF r, who, n
<1>3. CASE n * nav <= s.cash
  <2> DEFINE x == Served(s.held[who], n)
  <2>1. /\ x \in Holding /\ x.tokens = s.held[who].tokens - n
        /\ x.pending = s.held[who].pending - n
        /\ s.held[who].tokens \in Int
    BY <1>1 DEF Served, Holding
  <2>2. /\ z.cash = s.cash - n * nav /\ z.held = [s.held EXCEPT ![who] = x]
        /\ z.tokens = s.tokens + n /\ z.waiting = s.waiting
        /\ z \in [cash: Int, held: [Investors -> Holding], waiting: Seq(Request), tokens: Nat]
    <3> HIDE DEF x
    <3>1. z = [s EXCEPT !.cash = s.cash - n * nav, !.held = [s.held EXCEPT ![who] = x],
                        !.tokens = s.tokens + n]
      BY <1>1, <1>3 DEF Serve, x, who, n
    <3>2. /\ s.cash - n * nav \in Int /\ [s.held EXCEPT ![who] = x] \in [Investors -> Holding]
          /\ s.tokens + n \in Nat
      BY <1>1, <2>1
    <3> HIDE DEF z
    <3>3. QED
      BY <1>1, <3>1, <3>2
  <2> HIDE DEF x, z
  <2>3. Held(z.held) = Held(h) - z.tokens
    <3>0. s.held \in [Investors -> Holding] /\ x \in Holding /\ who \in Investors
      BY <1>1, <2>1
    <3>1. Held(z.held) = Held(s.held) - s.held[who].tokens + x.tokens
      BY <2>2, <3>0, HeldMoves
    <3>2. Held(s.held) = Held(h) - s.tokens /\ Held(h) \in Int
      <4>1. Held(h) \in Int
        BY <3>0, HeldMoves
      <4>2. QED
        BY <4>1 DEF Books
    <3>3. n \in Int /\ s.tokens \in Int /\ s.held[who].tokens \in Int
      BY <1>1, <2>1
    <3>4. x.tokens = s.held[who].tokens - n /\ z.tokens = s.tokens + n
      BY <2>1, <2>2
    <3>5. QED
      BY ONLY <3>1, <3>2, <3>3, <3>4
  <2>4. ASSUME NEW i \in Investors
        PROVE  /\ z.held[i].tokens - z.held[i].pending = h[i].tokens - h[i].pending
               /\ z.held[i].pending
                    = h[i].pending - Asked(q, i) + Asked(z.waiting, i) + Rest(q, i, k)
    <3>1. CASE i = who
      <4>1. z.held[i] = x
        BY <1>1, <2>2, <3>1
      <4>2. QED
        <5>1. /\ z.held[i].tokens = s.held[i].tokens - n /\ z.waiting = s.waiting
              /\ z.held[i].pending = s.held[i].pending - n /\ n \in Int
              /\ (IF who = i THEN n ELSE 0) = n
          BY <1>1, <2>1, <2>2, <3>1, <4>1
        <5>2. Rest(q, i, k - 1) = Rest(q, i, k) + n
          BY <1>2, <5>1
        <5>3. /\ Rest(q, i, k) \in Int /\ Asked(q, i) \in Int /\ Asked(s.waiting, i) \in Int
              /\ s.held[i].tokens - s.held[i].pending = h[i].tokens - h[i].pending
              /\ s.held[i].pending
                   = h[i].pending - Asked(q, i) + Asked(s.waiting, i) + Rest(q, i, k - 1)
              /\ s.held[i].tokens \in Int /\ s.held[i].pending \in Int
              /\ h[i].tokens \in Int /\ h[i].pending \in Int
          BY <1>2
        <5>4. z.held[i].tokens - z.held[i].pending = h[i].tokens - h[i].pending
          BY ONLY <5>1, <5>3
        <5>5. Asked(z.waiting, i) = Asked(s.waiting, i)
          BY <5>1
        <5>6. z.held[i].pending = h[i].pending - Asked(q, i) + Asked(z.waiting, i) + Rest(q, i, k)
          BY ONLY <5>1, <5>2, <5>3, <5>5
        <5>7. QED
          BY <5>4, <5>6
    <3>2. CASE i # who
      <4>1. z.held[i] = s.held[i]
        BY <1>1, <2>2, <3>2
      <4>2. Rest(q, i, k - 1) = Rest(q, i, k)
        BY <1>2, <3>2
      <4>3. z.waiting = s.waiting
        BY <2>2
      <4>4. /\ s.held[i].tokens - s.held[i].pending = h[i].tokens - h[i].pending
            /\ s.held[i].pending
                 = h[i].pending - Asked(q, i) + Asked(s.waiting, i) + Rest(q, i, k - 1)
        BY <1>2
      <4>5. QED
        BY ONLY <4>1, <4>2, <4>3, <4>4
    <3>3. QED
      BY <3>1, <3>2
  <2>5. QED
    BY <2>2, <2>3, <2>4 DEF Books, z, r
<1>4. CASE ~(n * nav <= s.cash)
  <2>1. z = [s EXCEPT !.waiting = Append(s.waiting, r)]
    BY <1>4 DEF Serve, n
  <2>2. Append(s.waiting, r) \in Seq(Request)
    BY <1>1, AppendProperties
  <2> HIDE DEF z
  <2>3. /\ z.cash = s.cash /\ z.held = s.held /\ z.tokens = s.tokens
        /\ z.waiting = Append(s.waiting, r)
        /\ z \in [cash: Int, held: [Investors -> Holding], waiting: Seq(Request), tokens: Nat]
    BY <1>1, <2>1, <2>2
  <2>4. ASSUME NEW i \in Investors
        PROVE  Asked(z.waiting, i) = Asked(s.waiting, i) + (IF who = i THEN n ELSE 0)
    BY <1>1, <2>3, AskedAppend DEF who, n
  <2>5. ASSUME NEW i \in Investors
        PROVE  /\ z.held[i].tokens - z.held[i].pending = h[i].tokens - h[i].pending
               /\ z.held[i].pending
                    = h[i].pending - Asked(q, i) + Asked(z.waiting, i) + Rest(q, i, k)
    <3>1. /\ z.held[i] = s.held[i]
          /\ Asked(z.waiting, i) = Asked(s.waiting, i) + (IF who = i THEN n ELSE 0)
          /\ (IF who = i THEN n ELSE 0) \in Int
      BY <1>1, <2>3, <2>4
    <3>2. QED
      BY ONLY <1>2, <3>1, i \in Investors
  <2>6. Held(z.held) = Held(h) - z.tokens
    BY <2>3 DEF Books
  <2>7. QED
    BY <2>3, <2>5, <2>6 DEF Books, z, r
<1>5. QED
  BY <1>3, <1>4

LEMMA RedeemBooks ==
  ASSUME TypeOK, NEW t \in Tranche, NEW nav \in Nat, NEW cash \in Int
  PROVE  Books(Redeem(t, nav, cash), holding[t], queue[t], Len(queue[t]))
<1> DEFINE h == holding[t]
           q == queue[t]
<1>1. h \in [Investors -> Holding] /\ q \in Seq(Request) /\ Len(q) \in Nat
  <2>1. h \in [Investors -> Holding] /\ q \in Seq(Request)
    BY DEF TypeOK
  <2>2. QED
    BY <2>1, LenProperties
<1>2. PICK g: IsTable(g, Start(t, cash), q, nav, Len(q)) /\ Redeem(t, nav, cash) = g[Len(q)]
  BY <1>1, RedeemIsTable
<1> DEFINE G == {k \in 0..Len(q): Books(g[k], h, q, k)}
<1>3. 0 \in G
  <2> DEFINE s == Start(t, cash)
  <2>1. /\ s \in [cash: Int, held: [Investors -> Holding], waiting: Seq(Request), tokens: Nat]
        /\ s.held = h /\ s.tokens = 0 /\ s.waiting = <<>>
    BY <1>1 DEF Start
  <2> HIDE DEF s, h, q
  <2>2. Held(h) \in Int /\ Held(s.held) = Held(h) - s.tokens
    <3>1. Held(h) \in Int
      <4>1. \A i \in Investors: [j \in Investors |-> h[j].tokens][i] \in Int
        BY <1>1 DEF Holding
      <4>2. QED
        BY <4>1, PoolAssumption, SumIsInt DEF Held
    <3>2. QED
      BY <2>1, <3>1
  <2>3. ASSUME NEW i \in Investors
        PROVE  s.held[i].pending = h[i].pending - Asked(q, i) + Asked(s.waiting, i) + Rest(q, i, 0)
    <3>1. /\ Rest(q, i, 0) = Asked(q, i) /\ Asked(<<>>, i) = 0 /\ Asked(q, i) \in Nat
          /\ h[i] \in Holding
      BY <1>1, RestEnds, AskedOfNone, AskedNat
    <3>2. QED
      BY <2>1, <3>1 DEF Holding
  <2>4. Books(s, h, q, 0)
    BY <2>1, <2>2, <2>3 DEF Books
  <2>5. g[0] = s
    BY <1>2 DEF IsTable, s
  <2>6. QED
    BY <1>1, <2>4, <2>5
<1>4. ASSUME NEW k \in 1..Len(q), k - 1 \in G PROVE k \in G
  <2>1. Books(g[k - 1], h, q, k - 1) /\ g[k] = Serve(g[k - 1], q[k], nav)
    BY <1>2, <1>4 DEF IsTable
  <2> HIDE DEF h, q
  <2>2. Books(g[k], h, q, k)
    BY <1>1, <2>1, ServeKeepsBooks
  <2>3. QED
    BY <1>1, <2>2
<1>5. \A k \in 0..Len(q): k \in G
  <2> HIDE DEF G, q
  <2>1. QED
    BY ONLY <1>1, <1>3, <1>4, StepInduction
<1>6. QED
  BY <1>1, <1>2, <1>5
-------------------------------------------------------------------------------
(* What the parts of an epoch compute.                                     *)
LEMMA ProductIs ==
  /\ \A x, y \in Int: x * y \in Int
  /\ \A x, y \in Nat: x * y \in Nat
OBVIOUS

LEMMA TrancheType ==
  ASSUME TypeOK, NEW t \in Tranche
  PROVE  /\ tranche[t].supply \in Nat /\ tranche[t].circulating \in Int
         /\ tranche[t].nav \in Nat /\ tranche[t].rate \in Nat
BY DEF TypeOK

LEMMA FaceIsNat ==
  ASSUME TypeOK
  PROVE  TotalFace \in Nat
<1>1. pool.assets \subseteq Assets /\ IsFiniteSet(Assets) /\ \A x \in Assets: Face[x] \in Nat
  BY PoolAssumption DEF TypeOK
<1>2. IsFiniteSet(pool.assets) /\ \A x \in pool.assets: Face[x] \in Nat
  BY <1>1, FS_Subset
<1>3. QED
  BY <1>2, SumIsNat DEF TotalFace

(* What a tranche with tokens in circulation is paid is not negative, and  *)
(* DROP goes short only when there is nothing left for TIN.                *)
Fall(w) ==
  /\ w.reserve \in Nat
  /\ \A t \in Tranche: /\ w.interest[t] \in Int
                       /\ tranche[t].circulating \in Nat => w.interest[t] \in Nat
  /\ tranche["TIN"].circulating \in Nat /\ w.shortfall["DROP"] > 0 => w.interest["TIN"] = 0

LEMMA WaterfallFalls ==
  ASSUME TypeOK, NEW c \in Inflows
  PROVE  Fall(Waterfall(c)) /\ Waterfall(c).epoch = waterfall.epoch + 1
<1> DEFINE due == [t \in Tranche |-> tranche[t].circulating * tranche[t].rate]
           available == c - c \div 100
           paid == Interest(available, due)
           left == available - paid["DROP"] - paid["TIN"]
           target == (TotalFace * ReservePercent) \div 100
           reserve == Least(left, Excess(target, pool.reserve))
<1>1. available \in Nat
  <2>1. c \in Nat /\ 100 \in Nat \ {0}
    BY PoolAssumption
  <2>2. c \div 100 \in Nat /\ 100 * (c \div 100) <= c
    BY <2>1, DividesNat
  <2>3. QED
    BY <2>1, <2>2
<1>2. \A t \in Tranche: due[t] \in Int /\ (tranche[t].circulating \in Nat => due[t] \in Nat)
  BY TrancheType, ProductIs
<1>3. target \in Int /\ pool.reserve \in Nat
  <2>1. TotalFace * ReservePercent \in Int
    BY FaceIsNat, PoolAssumption, ProductIs
  <2>2. 100 \in Nat \ {0} /\ pool.reserve \in Nat
    BY DEF TypeOK
  <2>3. QED
    BY <2>1, <2>2, Divides
<1>4. Excess(target, pool.reserve) \in Nat
  <2> HIDE DEF target
  <2>1. pool.reserve \in Int
    BY <1>3
  <2>2. QED
    BY <1>3, <2>1, ExcessIs
<1>5. /\ paid["DROP"] = Least(available, due["DROP"])
      /\ paid["TIN"] = Least(available - paid["DROP"], due["TIN"])
      /\ "DROP" \in Tranche /\ "TIN" \in Tranche
  BY DEF Interest, Tranche
<1>6. /\ Waterfall(c).reserve = reserve /\ Waterfall(c).interest = paid
      /\ Waterfall(c).shortfall["DROP"] = due["DROP"] - paid["DROP"]
      /\ Waterfall(c).epoch = waterfall.epoch + 1
  BY <1>5 DEF Waterfall
<1> HIDE DEF due, available, paid, target
<1>7. /\ due["DROP"] \in Int /\ due["TIN"] \in Int
      /\ tranche["DROP"].circulating \in Nat => due["DROP"] \in Nat
      /\ tranche["TIN"].circulating \in Nat => due["TIN"] \in Nat
  BY <1>2, <1>5
<1>8. /\ paid["DROP"] \in {available, due["DROP"]} /\ paid["DROP"] <= available
      /\ paid["DROP"] <= due["DROP"] /\ paid["DROP"] \in Int
  BY <1>1, <1>5, <1>7, LeastIs
<1>9. /\ paid["TIN"] \in {available - paid["DROP"], due["TIN"]}
      /\ paid["TIN"] <= available - paid["DROP"] /\ paid["TIN"] <= due["TIN"]
      /\ paid["TIN"] \in Int
  BY <1>1, <1>5, <1>7, <1>8, LeastIs
<1>10. left \in Nat
  BY <1>1, <1>8, <1>9
<1>11. reserve \in Nat
  BY <1>4, <1>10 DEF Least
<1>12. /\ tranche["DROP"].circulating \in Nat => paid["DROP"] \in Nat
       /\ tranche["TIN"].circulating \in Nat => paid["TIN"] \in Nat
  BY <1>1, <1>7, <1>8, <1>9
<1>13. ASSUME tranche["TIN"].circulating \in Nat, due["DROP"] - paid["DROP"] > 0
       PROVE  paid["TIN"] = 0
  <2>1. available - paid["DROP"] = 0
    BY <1>1, <1>7, <1>8, <1>13
  <2>2. due["TIN"] \in Nat
    BY <1>7, <1>13
  <2>3. QED
    BY <1>9, <2>1, <2>2
<1>14. \A t \in Tranche: paid[t] \in Int /\ (tranche[t].circulating \in Nat => paid[t] \in Nat)
  BY <1>8, <1>9, <1>12 DEF Tranche
<1> HIDE DEF reserve
<1>15. QED
  BY <1>6, <1>11, <1>13, <1>14 DEF Fall

LEMMA NavIsNat ==
  ASSUME TypeOK, NEW t \in Tranche, NEW assets \in Nat
  PROVE  NavPerToken(t, assets) \in Nat
<1> DEFINE claim == tranche["DROP"].circulating * tranche["DROP"].nav
<1>1. /\ tranche["DROP"].circulating \in Int /\ claim \in Int
      /\ tranche["DROP"].circulating > 0 => claim \in Nat
  BY TrancheType, ProductIs DEF Tranche
<1>2. DropNav(assets) = Least(claim, assets)
  BY DEF DropNav
<1> HIDE DEF claim
<1>3. /\ DropNav(assets) \in Int
      /\ tranche["DROP"].circulating > 0 => DropNav(assets) \in Nat
  BY <1>1, <1>2 DEF Least
<1>4. Excess(assets, DropNav(assets)) \in Nat
  BY <1>3, ExcessIs
<1>5. CASE ~(tranche[t].circulating > 0)
  BY <1>5, PoolAssumption DEF NavPerToken
<1>6. CASE tranche[t].circulating > 0
  <2> DEFINE value == IF t = "DROP" THEN DropNav(assets) ELSE Excess(assets, DropNav(assets))
  <2>1. value \in Nat
    BY <1>3, <1>4, <1>6
  <2>2. NavPerToken(t, assets) = value \div tranche[t].circulating
    BY <1>6 DEF NavPerToken
  <2> HIDE DEF value
  <2>3. tranche[t].circulating \in Nat \ {0}
    BY <1>6, TrancheType
  <2>4. QED
    BY <2>1, <2>2, <2>3, DividesNat
<1>7. QED
  BY <1>5, <1>6

LEMMA RateIsNat ==
  ASSUME TypeOK, NEW w, Fall(w), NEW t \in Tranche
  PROVE  NewRate(t, w) \in Nat
<1>1. CASE ~(tranche[t].circulating > 0)
  BY <1>1, TrancheType DEF NewRate
<1>2. CASE tranche[t].circulating > 0
  <2>0. tranche[t].circulating \in Nat \ {0} /\ tranche[t].circulating \in Nat
    BY <1>2, TrancheType
  <2>1. tranche[t].circulating \in Nat \ {0} /\ w.interest[t] \in Nat
    BY <2>0 DEF Fall
  <2>2. w.interest[t] \div tranche[t].circulating \in Nat
    BY <2>1, DividesNat
  <2>3. QED
    BY <1>2, <2>2 DEF NewRate
<1>3. QED
  BY <1>1, <1>2

(* The share of one tranche's interest, rounded down.                      *)
ShareOf(t, i, w) == IF tranche[t].circulating > 0 /\ holding[t][i].tokens > 0
                    THEN (holding[t][i].tokens * w.interest[t]) \div tranche[t].circulating
                    ELSE 0

LEMMA ShareIsNat ==
  ASSUME TypeOK, NEW w, Fall(w), NEW t \in Tranche, NEW i \in Investors
  PROVE  /\ ShareOf(t, i, w) \in Nat
         /\ tranche[t].circulating > 0 /\ holding[t][i].tokens >= 0
              => tranche[t].circulating * ShareOf(t, i, w)
                   <= w.interest[t] * holding[t][i].tokens
<1> DEFINE n == holding[t][i].tokens
           a == w.interest[t]
           d == tranche[t].circulating
<1>1. n \in Int /\ d \in Int
  <2>1. holding[t][i] \in Holding
    BY DEF TypeOK
  <2>2. QED
    BY <2>1, TrancheType DEF Holding
<1>2. CASE d > 0 /\ n > 0
  <2>0. d \in Nat /\ n \in Nat /\ d \in Nat \ {0}
    BY <1>1, <1>2
  <2>1. a \in Nat /\ n \in Nat /\ d \in Nat \ {0}
    BY <2>0 DEF Fall
  <2>2. ShareOf(t, i, w) = (n * a) \div d
    BY <1>2 DEF ShareOf
  <2> HIDE DEF n, a, d
  <2>3. n * a \in Nat /\ n * a = a * n
    BY <2>1, ProductIs
  <2>4. (n * a) \div d \in Nat /\ d * ((n * a) \div d) <= n * a
    BY <2>1, <2>3, DividesNat
  <2>5. QED
    BY <2>2, <2>3, <2>4 DEF n, a, d
<1>3. CASE ~(d > 0 /\ n > 0)
  <2>1. ShareOf(t, i, w) = 0
    BY <1>3 DEF ShareOf
  <2>2. ASSUME d > 0, n >= 0 PROVE d * 0 <= a * n
    <3>0. n = 0 /\ d \in Nat
      BY <1>1, <1>3, <2>2
    <3>1. n = 0 /\ a \in Nat
      BY <3>0 DEF Fall
    <3> HIDE DEF n, a, d
    <3>2. QED
      BY <1>1, <3>1
  <2>3. QED
    BY <2>1, <2>2
<1>4. QED
  BY <1>2, <1>3

LEMMA YieldIsShares ==
  ASSUME NEW i \in Investors, NEW w
  PROVE  YieldOf(i, w) = ShareOf("DROP", i, w) + ShareOf("TIN", i, w)
BY DEF YieldOf, ShareOf
-------------------------------------------------------------------------------
(* The inductive invariant: the books of every tranche, and that nothing   *)
(* is in circulation before the tranches are created.                      *)
PoolType == [status: {"open", "closed", "active"}, assets: SUBSET Assets,
             reserve: Nat, value: Nat, tranched: BOOLEAN]

BooksInv ==
  /\ TypeOK
  /\ \A t \in Tranche: /\ tranche[t].circulating = Held(holding[t])
                       /\ tranche[t].circulating <= tranche[t].supply
                       /\ ~pool.tranched => tranche[t].circulating = 0
  /\ \A t \in Tranche, i \in Investors: holding[t][i].pending = Asked(queue[t], i)

(* What a redemption leaves, when the books are right.                     *)
Redeemed(r, t) ==
  /\ r \in [cash: Int, held: [Investors -> Holding], waiting: Seq(Request), tokens: Nat]
  /\ Held(r.held) = Held(holding[t]) - r.tokens
  /\ \A i \in Investors:
       /\ r.held[i].tokens - r.held[i].pending = holding[t][i].tokens - holding[t][i].pending
       /\ r.held[i].pending = Asked(r.waiting, i)

LEMMA RedeemLeaves ==
  ASSUME BooksInv, NEW t \in Tranche, NEW nav \in Nat, NEW cash \in Int
  PROVE  Redeemed(Redeem(t, nav, cash), t)
<1> DEFINE r == Redeem(t, nav, cash)
           q == queue[t]
<1>1. Books(r, holding[t], q, Len(q))
  BY RedeemBooks DEF BooksInv
<1>2. q \in Seq(Request)
  BY DEF BooksInv, TypeOK
<1> HIDE DEF r, q
<1>3. r \in [cash: Int, held: [Investors -> Holding], waiting: Seq(Request), tokens: Nat]
  BY <1>1 DEF Books
<1>4. ASSUME NEW i \in Investors PROVE r.held[i].pending = Asked(r.waiting, i)
  <2>1. /\ holding[t][i].pending = Asked(q, i) /\ Rest(q, i, Len(q)) = 0
        /\ Asked(q, i) \in Nat /\ Asked(r.waiting, i) \in Nat
    BY <1>2, <1>3, RestEnds, AskedNat DEF BooksInv, q
  <2>2. r.held[i].pending
          = holding[t][i].pending - Asked(q, i) + Asked(r.waiting, i) + Rest(q, i, Len(q))
    BY <1>1 DEF Books
  <2>3. QED
    BY <2>1, <2>2
<1>5. Redeemed(r, t)
  BY <1>1, <1>3, <1>4 DEF Books, Redeemed
<1>6. QED
  BY <1>5 DEF r

(* The metrics of a pool.                                                  *)
LEMMA MeasuredType ==
  ASSUME TypeOK, NEW p \in PoolType
  PROVE  Measured(p) \in PoolType /\ Measured(p).tranched = p.tranched
<1>1. p.assets \subseteq Assets /\ p.value \in Nat /\ IsFiniteSet(Assets)
  BY PoolAssumption DEF PoolType
<1>2. IsFiniteSet(p.assets) /\ \A x \in p.assets: worth[x] \in Nat
  BY <1>1, FS_Subset DEF TypeOK
<1>3. SumFunctionOnSet(worth, p.assets) \in Nat
  BY <1>2, SumIsNat
<1> DEFINE v == IF p.assets = {} THEN p.value ELSE SumFunctionOnSet(worth, p.assets)
<1>4. v \in Nat /\ Measured(p) = [p EXCEPT !.value = v]
  BY <1>1, <1>3 DEF Measured
<1> HIDE DEF v
<1>5. QED
  BY <1>4 DEF PoolType

(* The steps that manage the pool leave tranches and positions alone.      *)
LEMMA ManagedBooks ==
  ASSUME BooksInv, pool' \in PoolType, pool'.tranched = pool.tranched,
         worth' \in [Assets -> Nat],
         UNCHANGED <<tranche, holding, earned, queue, waterfall>>
  PROVE  BooksInv'
<1>1. TypeOK'
  BY DEF BooksInv, TypeOK, PoolType
<1>2. QED
  BY <1>1 DEF BooksInv

LEMMA ManageStep ==
  ASSUME BooksInv,
         \/ \E x \in Assets: AddAssetToPool(x)
         \/ \E x \in Assets, v \in Marks: ValueAsset(x, v)
         \/ CalculatePoolMetrics
         \/ ClosePool
         \/ ActivatePool
  PROVE  BooksInv'
<1>0. TypeOK /\ pool \in PoolType /\ worth \in [Assets -> Nat]
  BY DEF BooksInv, TypeOK, PoolType
<1>1. ASSUME NEW x \in Assets, AddAssetToPool(x) PROVE BooksInv'
  <2> DEFINE p == [pool EXCEPT !.assets = @ \union {x}]
  <2>1. p \in PoolType /\ p.tranched = pool.tranched
    BY <1>0 DEF PoolType
  <2>2. pool' = Measured(p) /\ UNCHANGED <<worth, tranche, holding, earned, queue, waterfall>>
    BY <1>1 DEF AddAssetToPool
  <2> HIDE DEF p
  <2>3. pool' \in PoolType /\ pool'.tranched = pool.tranched
    BY <1>0, <2>1, <2>2, MeasuredType
  <2>4. QED
    BY <1>0, <2>2, <2>3, ManagedBooks
<1>2. ASSUME NEW x \in Assets, NEW v \in Marks, ValueAsset(x, v) PROVE BooksInv'
  <2>1. v \in Nat
    BY PoolAssumption
  <2>2. worth' \in [Assets -> Nat]
    BY <1>0, <1>2, <2>1 DEF ValueAsset
  <2>3. QED
    BY <1>0, <1>2, <2>2, ManagedBooks DEF ValueAsset
<1>3. CASE CalculatePoolMetrics
  <2>1. pool' = Measured(pool) /\ UNCHANGED <<worth, tranche, holding, earned, queue, waterfall>>
    BY <1>3 DEF CalculatePoolMetrics
  <2>2. pool' \in PoolType /\ pool'.tranched = pool.tranched
    BY <1>0, <2>1, MeasuredType
  <2>3. QED
    BY <1>0, <2>1, <2>2, ManagedBooks
<1>4. CASE ClosePool
  <2> DEFINE p == [pool EXCEPT !.status = "closed"]
  <2>1. p \in PoolType /\ p.tranched = pool.tranched
    BY <1>0 DEF PoolType
  <2>2. pool' = Measured(p) /\ UNCHANGED <<worth, tranche, holding, earned, queue, waterfall>>
    BY <1>4 DEF ClosePool
  <2> HIDE DEF p
  <2>3. pool' \in PoolType /\ pool'.tranched = pool.tranched
    BY <1>0, <2>1, <2>2, MeasuredType
  <2>4. QED
    BY <1>0, <2>2, <2>3, ManagedBooks
<1>5. CASE ActivatePool
  <2>1. pool' \in PoolType /\ pool'.tranched = pool.tranched
    BY <1>0, <1>5 DEF ActivatePool, PoolType
  <2>2. QED
    BY <1>0, <1>5, <2>1, ManagedBooks DEF ActivatePool
<1>6. QED
  BY <1>1, <1>2, <1>3, <1>4, <1>5

LEMMA CreateStep ==
  ASSUME BooksInv, CreateTranches
  PROVE  BooksInv'
<1> DEFINE Supply(percent) == (pool.value * percent) \div (100 * Par)
           share(t) == IF t = "DROP" THEN DropPercent ELSE 100 - DropPercent
           new == [t \in Tranche |-> [supply |-> Supply(share(t)), circulating |-> 0,
                                      nav |-> Par, rate |-> TargetRate[t]]]
<1>1. ASSUME NEW t \in Tranche PROVE Supply(share(t)) \in Nat
  <2>1. share(t) \in Nat /\ pool.value \in Nat /\ 100 * Par \in Nat \ {0}
    BY PoolAssumption DEF BooksInv, TypeOK
  <2> HIDE DEF share
  <2>2. pool.value * share(t) \in Nat
    BY <2>1, ProductIs
  <2>3. QED
    BY <2>1, <2>2, DividesNat
<1>2. /\ tranche' = new /\ pool' = [pool EXCEPT !.tranched = TRUE]
      /\ ~pool.tranched /\ UNCHANGED <<worth, holding, earned, queue, waterfall>>
  BY DEF CreateTranches
<1>3. new \in [Tranche -> [supply: Nat, circulating: Int, nav: Nat, rate: Nat]]
  <2> HIDE DEF Supply, share
  <2>1. QED
    BY <1>1, PoolAssumption
<1>4. TypeOK'
  <2> HIDE DEF new
  <2>1. QED
    BY <1>2, <1>3 DEF BooksInv, TypeOK
<1>5. ASSUME NEW t \in Tranche
      PROVE  /\ tranche'[t].circulating = Held(holding'[t])
             /\ tranche'[t].circulating <= tranche'[t].supply
  <2>1. new[t].circulating = 0 /\ new[t].supply \in Nat
    BY <1>1
  <2>2. Held(holding[t]) = 0
    BY <1>2 DEF BooksInv
  <2> HIDE DEF new
  <2>3. QED
    BY <1>2, <2>1, <2>2
<1>6. pool'.tranched
  BY <1>2 DEF BooksInv, TypeOK
<1> HIDE DEF new
<1>7. QED
  BY <1>2, <1>4, <1>5, <1>6 DEF BooksInv

LEMMA SubscribeStep ==
  ASSUME BooksInv, NEW i \in Investors, NEW t \in Tranche, NEW n \in Lots, Subscribe(i, t, n)
  PROVE  BooksInv'
<1> DEFINE x == [holding[t][i] EXCEPT !.tokens = @ + n]
<1>0. n \in Nat /\ holding \in [Tranche -> [Investors -> Holding]] /\ holding[t][i] \in Holding
  BY PoolAssumption DEF BooksInv, TypeOK
<1>1. /\ x \in Holding /\ x.tokens = holding[t][i].tokens + n
      /\ x.pending = holding[t][i].pending /\ holding[t][i].tokens \in Int
  BY <1>0 DEF Holding
<1>2. /\ holding' = [holding EXCEPT ![t] = [holding[t] EXCEPT ![i] = x]]
      /\ tranche' = [tranche EXCEPT ![t] = [tranche[t] EXCEPT !.circulating = @ + n]]
      /\ n <= tranche[t].supply - tranche[t].circulating /\ pool.tranched
      /\ UNCHANGED <<pool, worth, earned, queue, waterfall>>
  BY <1>0 DEF Subscribe, BooksInv, TypeOK
<1> HIDE DEF x
<1>3. /\ tranche \in [Tranche -> [supply: Nat, circulating: Int, nav: Nat, rate: Nat]]
      /\ tranche[t].supply \in Nat /\ tranche[t].circulating \in Int
  BY DEF BooksInv, TypeOK
<1>4. TypeOK'
  <2>1. holding' \in [Tranche -> [Investors -> Holding]]
    BY <1>0, <1>1, <1>2
  <2>2. tranche' \in [Tranche -> [supply: Nat, circulating: Int, nav: Nat, rate: Nat]]
    BY <1>0, <1>2, <1>3
  <2>3. QED
    BY <1>2, <2>1, <2>2 DEF BooksInv, TypeOK
<1>5. ASSUME NEW u \in Tranche
      PROVE  /\ tranche'[u].circulating = Held(holding'[u])
             /\ tranche'[u].circulating <= tranche'[u].supply
             /\ \A j \in Investors: holding'[u][j].pending = Asked(queue'[u], j)
  <2>1. CASE u = t
    <3>1. Held([holding[t] EXCEPT ![i] = x]) = Held(holding[t]) - holding[t][i].tokens + x.tokens
      BY <1>0, <1>1, HeldMoves
    <3>2. /\ holding'[u] = [holding[t] EXCEPT ![i] = x]
          /\ tranche'[u].circulating = tranche[t].circulating + n
          /\ tranche'[u].supply = tranche[t].supply
      BY <1>0, <1>2, <1>3, <2>1
    <3>3. tranche[t].circulating = Held(holding[t])
      BY DEF BooksInv
    <3>4. tranche'[u].circulating = Held(holding'[u])
      BY <1>0, <1>1, <1>3, <3>1, <3>2, <3>3
    <3>5. tranche'[u].circulating <= tranche'[u].supply
      BY <1>0, <1>2, <1>3, <3>2
    <3>6. ASSUME NEW j \in Investors PROVE holding'[u][j].pending = Asked(queue'[u], j)
      <4>1. holding'[u][j].pending = holding[t][j].pending
        BY <1>0, <1>1, <3>2
      <4>2. QED
        BY <1>2, <2>1, <4>1 DEF BooksInv
    <3>7. QED
      BY <3>4, <3>5, <3>6
  <2>2. CASE u # t
    <3>1. holding'[u] = holding[u] /\ tranche'[u] = tranche[u] /\ queue' = queue
      BY <1>0, <1>2, <1>3, <2>2
    <3>2. QED
      BY <3>1 DEF BooksInv
  <2>3. QED
    BY <2>1, <2>2
<1>6. pool'.tranched
  BY <1>2
<1>7. QED
  BY <1>4, <1>5, <1>6 DEF BooksInv

LEMMA RequestStep ==
  ASSUME BooksInv, NEW i \in Investors, NEW t \in Tranche, NEW n \in Lots,
         RequestRedemption(i, t, n)
  PROVE  BooksInv'
<1> DEFINE x == [holding[t][i] EXCEPT !.pending = @ + n]
           r == [investor |-> i, amount |-> n]
<1>0. n \in Nat /\ holding \in [Tranche -> [Investors -> Holding]] /\ holding[t][i] \in Holding
  BY PoolAssumption DEF BooksInv, TypeOK
<1>1. /\ x \in Holding /\ x.tokens = holding[t][i].tokens
      /\ x.pending = holding[t][i].pending + n /\ holding[t][i].tokens \in Int
  BY <1>0 DEF Holding
<1>2. /\ holding' = [holding EXCEPT ![t] = [holding[t] EXCEPT ![i] = x]]
      /\ queue' = [queue EXCEPT ![t] = Append(queue[t], r)]
      /\ UNCHANGED <<pool, worth, tranche, earned, waterfall>>
  BY <1>0 DEF RequestRedemption
<1>3. /\ queue \in [Tranche -> Seq(Request)] /\ queue[t] \in Seq(Request)
      /\ r \in Request /\ r.investor = i /\ r.amount = n
  BY DEF BooksInv, TypeOK, Request
<1> HIDE DEF x, r
<1>4. Append(queue[t], r) \in Seq(Request)
  BY <1>3, AppendProperties
<1>5. TypeOK'
  <2>1. holding' \in [Tranche -> [Investors -> Holding]]
    BY <1>0, <1>1, <1>2
  <2>2. queue' \in [Tranche -> Seq(Request)]
    BY <1>2, <1>3, <1>4
  <2>3. QED
    BY <1>2, <2>1, <2>2 DEF BooksInv, TypeOK
<1>6. ASSUME NEW u \in Tranche
      PROVE  /\ tranche'[u].circulating = Held(holding'[u])
             /\ \A j \in Investors: holding'[u][j].pending = Asked(queue'[u], j)
  <2>1. CASE u = t
    <3>1. /\ Held([holding[t] EXCEPT ![i] = x]) = Held(holding[t]) - holding[t][i].tokens + x.tokens
          /\ Held(holding[t]) \in Int
      BY <1>0, <1>1, HeldMoves
    <3>2. holding'[u] = [holding[t] EXCEPT ![i] = x] /\ queue'[u] = Append(queue[t], r)
      BY <1>0, <1>2, <1>3, <2>1
    <3>3. tranche'[u].circulating = Held(holding[t])
      BY <1>2, <2>1 DEF BooksInv
    <3>4. tranche'[u].circulating = Held(holding'[u])
      BY <1>1, <3>1, <3>2, <3>3
    <3>5. ASSUME NEW j \in Investors PROVE holding'[u][j].pending = Asked(queue'[u], j)
      <4>1. Asked(queue'[u], j) = Asked(queue[t], j) + (IF i = j THEN n ELSE 0)
        BY <1>3, <3>2, AskedAppend
      <4>2. holding[t][j].pending = Asked(queue[t], j) /\ Asked(queue[t], j) \in Nat
        BY <1>3, AskedNat DEF BooksInv
      <4>3. holding'[u][j] = IF j = i THEN x ELSE holding[t][j]
        BY <1>0, <3>2
      <4>4. QED
        BY <1>0, <1>1, <4>1, <4>2, <4>3
    <3>6. QED
      BY <3>4, <3>5
  <2>2. CASE u # t
    <3>1. holding'[u] = holding[u] /\ queue'[u] = queue[u] /\ tranche' = tranche
      BY <1>0, <1>2, <1>3, <2>2
    <3>2. QED
      BY <3>1 DEF BooksInv
  <2>3. QED
    BY <2>1, <2>2
<1>7. QED
  BY <1>2, <1>5, <1>6 DEF BooksInv
-------------------------------------------------------------------------------
(* An epoch: what falls to the tranches, their new values, and what the    *)
(* redemptions leave of each.                                              *)
EpochDoes(w, nav, r) ==
  /\ Fall(w) /\ w.epoch \in 0..MaxEpoch /\ waterfall' = w
  /\ \E assets \in Nat: nav = [t \in Tranche |-> NavPerToken(t, assets)]
  /\ nav \in [Tranche -> Nat]
  /\ \A t \in Tranche: Redeemed(r[t], t)
  /\ pool.tranched /\ pool' = [pool EXCEPT !.reserve = pool.reserve + w.reserve]
  /\ tranche' = [t \in Tranche |->
       [tranche[t] EXCEPT !.rate = NewRate(t, w), !.nav = nav[t],
                          !.circulating = @ - r[t].tokens]]
  /\ holding' = [t \in Tranche |-> r[t].held]
  /\ queue' = [t \in Tranche |-> r[t].waiting]
  /\ earned' = [i \in Investors |-> earned[i] + YieldOf(i, w)]
  /\ UNCHANGED worth

LEMMA EpochIs ==
  ASSUME BooksInv, NEW c \in Inflows, RunEpoch(c)
  PROVE  \E w, nav, r: EpochDoes(w, nav, r)
<1> DEFINE w == Waterfall(c)
           reserve == pool.reserve + w.reserve
           assets == pool.value + reserve
           nav == [t \in Tranche |-> NavPerToken(t, assets)]
           drop == Redeem("DROP", nav["DROP"], reserve)
           tin == Redeem("TIN", nav["TIN"], drop.cash)
           r == [t \in Tranche |-> IF t = "DROP" THEN drop ELSE tin]
<1>1. Fall(w) /\ w.epoch = waterfall.epoch + 1
  BY WaterfallFalls DEF BooksInv
<1>2. /\ waterfall.epoch < MaxEpoch /\ pool.tranched
      /\ waterfall' = w /\ pool' = [pool EXCEPT !.reserve = reserve]
      /\ tranche' = [t \in Tranche |->
           [tranche[t] EXCEPT !.rate = NewRate(t, w), !.nav = nav[t],
                              !.circulating = @ - r[t].tokens]]
      /\ holding' = [t \in Tranche |-> r[t].held]
      /\ queue' = [t \in Tranche |-> r[t].waiting]
      /\ earned' = [i \in Investors |-> earned[i] + YieldOf(i, w)]
      /\ UNCHANGED worth
  BY DEF RunEpoch
<1> HIDE DEF w
<1>3. reserve \in Nat /\ assets \in Nat
  <2>1. pool.reserve \in Nat /\ pool.value \in Nat /\ w.reserve \in Nat
    BY <1>1 DEF BooksInv, TypeOK, Fall
  <2>2. QED
    BY <2>1
<1> HIDE DEF reserve, assets
<1>4. nav \in [Tranche -> Nat]
  BY <1>3, NavIsNat DEF BooksInv
<1>5. w.epoch \in 0..MaxEpoch
  <2>1. waterfall.epoch \in 0..MaxEpoch /\ MaxEpoch \in Nat
    BY PoolAssumption DEF BooksInv, TypeOK
  <2>2. w.epoch = waterfall.epoch + 1 /\ waterfall.epoch < MaxEpoch
    BY <1>1, <1>2
  <2>3. QED
    BY <2>1, <2>2
<1>6. "DROP" \in Tranche /\ "TIN" \in Tranche
  BY DEF Tranche
<1>7. \E a \in Nat: nav = [t \in Tranche |-> NavPerToken(t, a)]
  BY <1>3
<1> HIDE DEF nav
<1>8. Redeemed(drop, "DROP")
  <2>1. nav["DROP"] \in Nat /\ reserve \in Int
    BY <1>3, <1>4, <1>6
  <2>2. QED
    BY <1>6, <2>1, RedeemLeaves
<1>9. Redeemed(tin, "TIN")
  <2>1. nav["TIN"] \in Nat /\ drop.cash \in Int
    BY <1>4, <1>6, <1>8 DEF Redeemed
  <2> HIDE DEF drop
  <2>2. QED
    BY <1>6, <2>1, RedeemLeaves
<1> HIDE DEF drop, tin
<1>10. \A t \in Tranche: Redeemed(r[t], t)
  BY <1>8, <1>9 DEF Tranche
<1> HIDE DEF r
<1>11. EpochDoes(w, nav, r)
  BY <1>1, <1>2, <1>4, <1>5, <1>7, <1>10 DEF EpochDoes, reserve
<1>12. QED
  BY <1>11

LEMMA EpochTranche ==
  ASSUME TypeOK, NEW w, NEW nav, NEW r, EpochDoes(w, nav, r), NEW t \in Tranche
  PROVE  /\ tranche'[t] \in [supply: Nat, circulating: Int, nav: Nat, rate: Nat]
         /\ tranche'[t].circulating = tranche[t].circulating - r[t].tokens
         /\ tranche'[t].supply = tranche[t].supply
         /\ tranche'[t].nav = nav[t]
         /\ r[t].tokens \in Nat
<1>1. /\ tranche[t] \in [supply: Nat, circulating: Int, nav: Nat, rate: Nat]
      /\ nav[t] \in Nat /\ NewRate(t, w) \in Nat /\ r[t].tokens \in Nat
  BY RateIsNat DEF EpochDoes, Redeemed, TypeOK
<1>2. tranche'[t] = [tranche[t] EXCEPT !.rate = NewRate(t, w), !.nav = nav[t],
                                       !.circulating = @ - r[t].tokens]
  BY DEF EpochDoes
<1>3. tranche[t].circulating \in Int /\ tranche[t].circulating - r[t].tokens \in Int
  BY <1>1
<1>4. QED
  BY <1>1, <1>2, <1>3

LEMMA EpochStep ==
  ASSUME BooksInv, NEW w, NEW nav, NEW r, EpochDoes(w, nav, r)
  PROVE  BooksInv'
<1>1. /\ \A t \in Tranche: Redeemed(r[t], t)
      /\ holding' = [t \in Tranche |-> r[t].held]
      /\ queue' = [t \in Tranche |-> r[t].waiting]
      /\ pool.tranched /\ pool' = [pool EXCEPT !.reserve = pool.reserve + w.reserve]
      /\ earned' = [i \in Investors |-> earned[i] + YieldOf(i, w)]
      /\ waterfall'.epoch \in 0..MaxEpoch /\ UNCHANGED worth
      /\ Fall(w) /\ w.reserve \in Nat
      /\ tranche' = [t \in Tranche |-> tranche'[t]]
  BY DEF EpochDoes, Fall
<1>2. ASSUME NEW t \in Tranche
      PROVE  r[t].held \in [Investors -> Holding] /\ r[t].waiting \in Seq(Request)
  BY <1>1 DEF Redeemed
<1>3. TypeOK'
  <2>1. holding' \in [Tranche -> [Investors -> Holding]] /\ queue' \in [Tranche -> Seq(Request)]
    BY <1>1, <1>2
  <2>2. tranche' \in [Tranche -> [supply: Nat, circulating: Int, nav: Nat, rate: Nat]]
    BY <1>1, EpochTranche DEF BooksInv
  <2>3. earned' \in [Investors -> Nat]
    <3>1. ASSUME NEW i \in Investors PROVE earned[i] + YieldOf(i, w) \in Nat
      <4>1. earned[i] \in Nat
        BY DEF BooksInv, TypeOK
      <4>2. ShareOf("DROP", i, w) \in Nat /\ ShareOf("TIN", i, w) \in Nat
        BY <1>1, ShareIsNat DEF BooksInv, Tranche
      <4>3. QED
        BY <4>1, <4>2, YieldIsShares
    <3>2. QED
      BY <1>1, <3>1
  <2>4. pool' \in [status: {"open", "closed", "active"}, assets: SUBSET Assets,
                   reserve: Nat, value: Nat, tranched: BOOLEAN]
    <3>1. pool \in PoolType /\ pool.reserve \in Nat
      BY DEF BooksInv, TypeOK, PoolType
    <3>2. pool.reserve + w.reserve \in Nat
      BY <1>1, <3>1
    <3>3. pool' \in PoolType
      BY <1>1, <3>1, <3>2 DEF PoolType
    <3>4. QED
      BY <3>3 DEF PoolType
  <2>5. QED
    BY <1>1, <2>1, <2>2, <2>3, <2>4 DEF BooksInv, TypeOK
<1>4. ASSUME NEW t \in Tranche
      PROVE  /\ tranche'[t].circulating = Held(holding'[t])
             /\ tranche'[t].circulating <= tranche'[t].supply
             /\ \A i \in Investors: holding'[t][i].pending = Asked(queue'[t], i)
  <2>1. /\ tranche'[t].circulating = tranche[t].circulating - r[t].tokens
        /\ tranche'[t].supply = tranche[t].supply /\ r[t].tokens \in Nat
        /\ tranche[t].supply \in Nat /\ tranche[t].circulating \in Int
    BY EpochTranche, TrancheType DEF BooksInv
  <2>2. /\ tranche[t].circulating = Held(holding[t])
        /\ tranche[t].circulating <= tranche[t].supply
    BY DEF BooksInv
  <2>3. Held(r[t].held) = Held(holding[t]) - r[t].tokens
    BY <1>1 DEF Redeemed
  <2>4. holding'[t] = r[t].held /\ queue'[t] = r[t].waiting
    BY <1>1
  <2>5. \A i \in Investors: r[t].held[i].pending = Asked(r[t].waiting, i)
    BY <1>1 DEF Redeemed
  <2>6. QED
    BY <2>1, <2>2, <2>3, <2>4, <2>5
<1>5. pool'.tranched
  BY <1>1 DEF BooksInv, TypeOK
<1>6. QED
  BY <1>3, <1>4, <1>5 DEF BooksInv

LEMMA InitBooks == Init => BooksInv
<1> SUFFICES ASSUME Init PROVE BooksInv
  OBVIOUS
<1> DEFINE none == [i \in Investors |-> [tokens |-> 0, pending |-> 0]]
<1>1. TypeOK
  <2>1. <<>> \in Seq(Request) /\ none \in [Investors -> Holding]
    BY DEF Holding
  <2>2. NoRate \in [supply: Nat, circulating: Int, nav: Nat, rate: Nat]
    BY PoolAssumption DEF NoRate
  <2>3. waterfall.epoch = 0 /\ 0 \in 0..MaxEpoch
    BY PoolAssumption DEF Init, NoFall
  <2> HIDE DEF none
  <2>4. QED
    BY <2>1, <2>2, <2>3, PoolAssumption DEF Init, TypeOK, none
<1>2. ASSUME NEW t \in Tranche
      PROVE  /\ tranche[t].circulating = Held(holding[t])
             /\ tranche[t].circulating <= tranche[t].supply /\ tranche[t].circulating = 0
             /\ \A i \in Investors: holding[t][i].pending = Asked(queue[t], i)
  <2>1. tranche[t].circulating = 0 /\ tranche[t].supply = 0
    BY DEF Init, NoRate
  <2>2. holding[t] = none /\ queue[t] = <<>>
    BY DEF Init
  <2>3. Held(none) = 0
    <3> DEFINE f == [i \in Investors |-> none[i].tokens]
    <3>1. IsFiniteSet(Investors) /\ 0 \in Int /\ \A i \in Investors: f[i] = 0
      BY PoolAssumption
    <3>2. Held(none) = SumFunctionOnSet(f, Investors)
      BY DEF Held
    <3> HIDE DEF f
    <3>3. SumFunctionOnSet(f, Investors) = 0 * Cardinality(Investors)
      BY <3>1, SumConst
    <3>4. Cardinality(Investors) \in Nat
      BY <3>1, FS_CardinalityType
    <3>5. QED
      BY <3>2, <3>3, <3>4
  <2>4. \A i \in Investors: none[i].pending = 0
    OBVIOUS
  <2> HIDE DEF none
  <2>5. QED
    BY <2>1, <2>2, <2>3, <2>4, AskedOfNone
<1>3. QED
  BY <1>1, <1>2 DEF BooksInv

LEMMA NextBooks == BooksInv /\ [Next]_vars => BooksInv'
<1> SUFFICES ASSUME BooksInv, [Next]_vars PROVE BooksInv'
  OBVIOUS
<1>1. ASSUME NEW c \in Inflows, RunEpoch(c) PROVE BooksInv'
  BY <1>1, EpochIs, EpochStep
<1>2. CASE UNCHANGED vars
  BY <1>2 DEF vars, BooksInv, TypeOK
<1>3. QED
  BY <1>1, <1>2, ManageStep, CreateStep, SubscribeStep, RequestStep DEF Next

(* Every variable keeps its type: no reserve, rate, value or yield is ever *)
(* negative.                                                               *)
THEOREM PoolTypeCorrect == Spec => []TypeOK
<1>1. BooksInv => TypeOK
  BY DEF BooksInv
<1>2. QED
  BY InitBooks, NextBooks, <1>1, PTL DEF Spec

(* However many requests an investor has open: the tokens of a tranche are *)
(* those its investors hold, and never more than were created.             *)
THEOREM SupplyIsHeld == Spec => []HoldingsMatchSupply
<1>1. BooksInv => HoldingsMatchSupply
  BY DEF BooksInv, HoldingsMatchSupply, TokensHeld, Held
<1>2. QED
  BY InitBooks, NextBooks, <1>1, PTL DEF Spec

(* What a position has pending is what its requests in the queue ask for.  *)
THEOREM PendingIsAsked == Spec => []PendingMatchesQueue
<1>1. BooksInv => PendingMatchesQueue
  <2> SUFFICES ASSUME BooksInv, NEW t \in Tranche, NEW i \in Investors
               PROVE  holding[t][i].pending =
                        SumFunctionOnSet([k \in DOMAIN queue[t] |-> queue[t][k].amount],
                                         PendingOf(i, t))
    BY DEF PendingMatchesQueue
  <2> DEFINE q == queue[t]
             f == [k \in DOMAIN q |-> q[k].amount]
             mine == PendingOf(i, t)
  <2>1. q \in Seq(Request)
    BY DEF BooksInv, TypeOK
  <2>2. IsFiniteSet(DOMAIN q) /\ \A k \in DOMAIN q: f[k] \in Int
    <3>1. \A x \in Request: x.amount \in Nat
      BY PoolAssumption DEF Request
    <3>2. IsFiniteSet(DOMAIN q) /\ \A k \in DOMAIN q: q[k] \in Request
      BY <2>1, AmountsType
    <3>3. QED
      BY <3>1, <3>2
  <2>3. /\ mine \subseteq DOMAIN q
        /\ \A k \in DOMAIN q: Amounts(q, i)[k] = IF k \in mine THEN f[k] ELSE 0
    BY DEF PendingOf, Amounts
  <2>4. holding[t][i].pending = SumFunctionOnSet(Amounts(q, i), DOMAIN q)
    BY DEF BooksInv, Asked
  <2> HIDE DEF f, mine
  <2>5. SumFunctionOnSet(Amounts(q, i), DOMAIN q) = SumFunctionOnSet(f, mine)
    BY <2>2, <2>3, SumWithin
  <2>6. QED
    BY <2>4, <2>5 DEF f, mine
<1>2. QED
  BY InitBooks, NextBooks, <1>1, PTL DEF Spec
-------------------------------------------------------------------------------
(* Where no investor has two requests open in a tranche, none promises     *)
(* more than he holds: so no holding becomes negative.                     *)
KeepsPromise ==
  \A t \in Tranche, i \in Investors: holding[t][i].pending <= holding[t][i].tokens

LEMMA NoneNegative ==
  ASSUME BooksInv, KeepsPromise
  PROVE  \A t \in Tranche: /\ \A i \in Investors: holding[t][i].tokens \in Nat
                          /\ tranche[t].circulating \in Nat
<1>1. ASSUME NEW t \in Tranche, NEW i \in Investors PROVE holding[t][i].tokens \in Nat
  <2>1. holding[t][i] \in Holding /\ queue[t] \in Seq(Request)
    BY DEF BooksInv, TypeOK
  <2>2. holding[t][i].pending \in Nat
    BY <2>1, AskedNat DEF BooksInv
  <2>3. holding[t][i].tokens \in Int /\ holding[t][i].pending <= holding[t][i].tokens
    BY <2>1 DEF KeepsPromise, Holding
  <2>4. QED
    BY <2>2, <2>3
<1>2. ASSUME NEW t \in Tranche PROVE tranche[t].circulating \in Nat
  <2> DEFINE f == [i \in Investors |-> holding[t][i].tokens]
  <2>1. IsFiniteSet(Investors) /\ \A i \in Investors: f[i] \in Nat
    BY <1>1, PoolAssumption
  <2>2. tranche[t].circulating = SumFunctionOnSet(f, Investors)
    BY DEF BooksInv, Held
  <2> HIDE DEF f
  <2>3. QED
    BY <2>1, <2>2, SumIsNat
<1>3. QED
  BY <1>1, <1>2

(* Without open requests nothing is pending.                               *)
LEMMA NothingPending ==
  ASSUME BooksInv, NEW t \in Tranche, NEW i \in Investors, Cardinality(PendingOf(i, t)) < 1
  PROVE  holding[t][i].pending = 0
<1> DEFINE q == queue[t]
<1>1. q \in Seq(Request)
  BY DEF BooksInv, TypeOK
<1>2. IsFiniteSet(DOMAIN q)
  BY <1>1, AmountsType
<1>3. PendingOf(i, t) = {}
  <2>1. IsFiniteSet(PendingOf(i, t))
    BY <1>2, FS_Subset DEF PendingOf
  <2>2. Cardinality(PendingOf(i, t)) \in Nat
    BY <2>1, FS_CardinalityType
  <2>3. Cardinality(PendingOf(i, t)) = 0
    BY <2>2
  <2>4. QED
    BY <2>1, <2>3, FS_EmptySet
<1>4. \A k \in DOMAIN q: Amounts(q, i)[k] = 0
  BY <1>3 DEF PendingOf, Amounts
<1>5. Asked(q, i) = 0 * Cardinality(DOMAIN q)
  <2>1. 0 \in Int
    OBVIOUS
  <2>2. QED
    BY <1>2, <1>4, <2>1, SumConst DEF Asked
<1>6. Cardinality(DOMAIN q) \in Nat
  BY <1>2, FS_CardinalityType
<1>7. QED
  BY <1>5, <1>6 DEF BooksInv

LEMMA NextKeepsPromise ==
  ASSUME MaxPending <= 1, BooksInv, KeepsPromise, [Next]_vars
  PROVE  KeepsPromise'
<1>0. /\ holding \in [Tranche -> [Investors -> Holding]]
      /\ \A t \in Tranche, i \in Investors:
           /\ holding[t][i].tokens \in Int /\ holding[t][i].pending \in Int
           /\ holding[t][i].pending <= holding[t][i].tokens
  <2>1. holding \in [Tranche -> [Investors -> Holding]]
    BY DEF BooksInv, TypeOK
  <2>2. \A t \in Tranche, i \in Investors: holding[t][i] \in Holding
    BY <2>1
  <2>3. QED
    BY <2>1, <2>2 DEF KeepsPromise, Holding
<1>1. ASSUME UNCHANGED holding PROVE KeepsPromise'
  BY <1>1 DEF KeepsPromise
<1>2. ASSUME NEW i \in Investors, NEW t \in Tranche, NEW n \in Lots, Subscribe(i, t, n)
      PROVE  KeepsPromise'
  <2>1. n \in Nat /\ holding' = [holding EXCEPT ![t][i].tokens = @ + n]
    BY <1>2, PoolAssumption DEF Subscribe
  <2>2. ASSUME NEW u \in Tranche, NEW j \in Investors
        PROVE  /\ holding'[u][j].pending = holding[u][j].pending
               /\ holding'[u][j].tokens \in {holding[u][j].tokens, holding[u][j].tokens + n}
    <3>1. holding[u][j] \in Holding
      BY <1>0
    <3>2. QED
      BY <1>0, <2>1, <3>1 DEF Holding
  <2>3. ASSUME NEW u \in Tranche, NEW j \in Investors
        PROVE  holding'[u][j].pending <= holding'[u][j].tokens
    BY <1>0, <2>1, <2>2
  <2>4. QED
    BY <2>3 DEF KeepsPromise
<1>3. ASSUME NEW i \in Investors, NEW t \in Tranche, NEW n \in Lots, RequestRedemption(i, t, n)
      PROVE  KeepsPromise'
  <2>1. /\ n \in Nat /\ holding' = [holding EXCEPT ![t][i].pending = @ + n]
        /\ n <= holding[t][i].tokens /\ Cardinality(PendingOf(i, t)) < MaxPending
    BY <1>3, PoolAssumption DEF RequestRedemption
  <2>2. holding[t][i].pending = 0
    <3>1. Cardinality(PendingOf(i, t)) < 1
      <4>1. IsFiniteSet(PendingOf(i, t))
        <5>1. queue[t] \in Seq(Request)
          BY DEF BooksInv, TypeOK
        <5>2. QED
          BY <5>1, AmountsType, FS_Subset DEF PendingOf
      <4>2. Cardinality(PendingOf(i, t)) \in Nat /\ MaxPending \in Nat
        BY <4>1, FS_CardinalityType, PoolAssumption
      <4>3. QED
        BY <2>1, <4>2
    <3>2. QED
      BY <3>1, NothingPending
  <2>3. ASSUME NEW u \in Tranche, NEW j \in Investors
        PROVE  /\ holding'[u][j].tokens = holding[u][j].tokens
               /\ holding'[u][j].pending
                    = IF u = t /\ j = i THEN n ELSE holding[u][j].pending
    <3>1. holding[u][j] \in Holding
      BY <1>0
    <3>2. QED
      BY <1>0, <2>1, <2>2, <3>1 DEF Holding
  <2>4. ASSUME NEW u \in Tranche, NEW j \in Investors
        PROVE  holding'[u][j].pending <= holding'[u][j].tokens
    BY <1>0, <2>1, <2>3
  <2>5. QED
    BY <2>4 DEF KeepsPromise
<1>4. ASSUME NEW c \in Inflows, RunEpoch(c) PROVE KeepsPromise'
  <2>1. PICK w, nav, r: EpochDoes(w, nav, r)
    BY <1>4, EpochIs
  <2>2. ASSUME NEW t \in Tranche, NEW i \in Investors
        PROVE  holding'[t][i].pending <= holding'[t][i].tokens
    <3>1. holding'[t] = r[t].held /\ Redeemed(r[t], t)
      BY <2>1 DEF EpochDoes
    <3>2. /\ r[t].held[i] \in Holding
          /\ r[t].held[i].tokens - r[t].held[i].pending = holding[t][i].tokens - holding[t][i].pending
      BY <3>1 DEF Redeemed
    <3>3. r[t].held[i].tokens \in Int /\ r[t].held[i].pending \in Int
      BY <3>2 DEF Holding
    <3>4. QED
      BY <1>0, <3>1, <3>2, <3>3
  <2>3. QED
    BY <2>2 DEF KeepsPromise
<1>5. QED
  BY <1>1, <1>2, <1>3, <1>4
     DEF Next, vars, AddAssetToPool, ValueAsset, CalculatePoolMetrics, ClosePool, ActivatePool,
         CreateTranches

LEMMA InitKeepsPromise == Init => KeepsPromise
BY DEF Init, KeepsPromise
-------------------------------------------------------------------------------
(* The shares of a tranche, each rounded down, add up to no more than what *)
(* it was paid, because the tokens add up to those in circulation.         *)
LEMMA DivideOut ==
  ASSUME NEW d \in Nat \ {0}, NEW x \in Int, NEW a \in Int, d * x <= a * d
  PROVE  x <= a
<1>1. SUFFICES ASSUME a + 1 <= x PROVE FALSE
  OBVIOUS
<1>2. d * (a + 1) <= d * x
  BY <1>1
<1>3. d * (a + 1) = a * d + d
  OBVIOUS
<1>4. d * x \in Int /\ a * d \in Int
  OBVIOUS
<1>5. QED
  BY <1>2, <1>3, <1>4

LEMMA SharesWithin ==
  ASSUME BooksInv, KeepsPromise, NEW w, Fall(w), NEW t \in Tranche
  PROVE  /\ SumFunctionOnSet([i \in Investors |-> ShareOf(t, i, w)], Investors) <= w.interest[t]
         /\ SumFunctionOnSet([i \in Investors |-> ShareOf(t, i, w)], Investors) \in Int
<1> DEFINE share == [i \in Investors |-> ShareOf(t, i, w)]
           tokens == [i \in Investors |-> holding[t][i].tokens]
           d == tranche[t].circulating
           a == w.interest[t]
<1>1. /\ IsFiniteSet(Investors) /\ d \in Nat /\ a \in Nat
      /\ \A i \in Investors: tokens[i] \in Nat
      /\ d = SumFunctionOnSet(tokens, Investors)
  <2>1. d \in Nat /\ \A i \in Investors: tokens[i] \in Nat
    BY NoneNegative
  <2>2. a \in Nat
    BY <2>1 DEF Fall
  <2>3. d = SumFunctionOnSet(tokens, Investors)
    BY DEF BooksInv, Held
  <2>4. QED
    BY <2>1, <2>2, <2>3, PoolAssumption
<1>2. ASSUME NEW i \in Investors
      PROVE  share[i] \in Nat /\ (d > 0 => d * share[i] <= a * tokens[i])
  <2>1. tokens[i] \in Nat /\ tokens[i] >= 0
    BY <1>1
  <2>2. QED
    BY <2>1, ShareIsNat DEF BooksInv
<1>3. ASSUME d = 0, NEW i \in Investors PROVE share[i] = 0
  BY <1>3 DEF ShareOf
<1> HIDE DEF share, tokens, d, a
<1>4. SumFunctionOnSet(share, Investors) \in Int
  BY <1>1, <1>2, SumIsInt
<1>5. CASE d = 0
  <2>1. SumFunctionOnSet(share, Investors) = 0 * Cardinality(Investors)
    <3>1. 0 \in Int /\ \A i \in Investors: share[i] = 0
      BY <1>3, <1>5
    <3>2. QED
      BY <1>1, <3>1, SumConst
  <2>2. Cardinality(Investors) \in Nat
    BY <1>1, FS_CardinalityType
  <2>3. QED
    BY <1>1, <1>4, <2>1, <2>2 DEF share, a
<1>6. CASE d # 0
  <2> DEFINE claims == [i \in Investors |-> d * share[i]]
             grants == [i \in Investors |-> a * tokens[i]]
  <2>1. /\ d \in Int /\ a \in Int /\ d \in Nat \ {0} /\ d > 0
        /\ \A i \in Investors: share[i] \in Int /\ tokens[i] \in Int
    BY <1>1, <1>2, <1>6
  <2>2. /\ \A i \in Investors: claims[i] = d * share[i] /\ claims[i] \in Int
        /\ \A i \in Investors: grants[i] = a * tokens[i] /\ grants[i] \in Int
        /\ \A i \in Investors: claims[i] <= grants[i]
    BY <1>2, <2>1, ProductIs
  <2> HIDE DEF claims, grants
  <2>3. SumFunctionOnSet(claims, Investors) = d * SumFunctionOnSet(share, Investors)
    BY <1>1, <2>1, <2>2, SumTimes
  <2>4. SumFunctionOnSet(grants, Investors) = a * SumFunctionOnSet(tokens, Investors)
    BY <1>1, <2>1, <2>2, SumTimes
  <2>5. SumFunctionOnSet(claims, Investors) <= SumFunctionOnSet(grants, Investors)
    BY <1>1, <2>2, SumAtMost
  <2>6. d * SumFunctionOnSet(share, Investors) <= a * d
    BY <1>1, <2>3, <2>4, <2>5
  <2>7. SumFunctionOnSet(share, Investors) <= a
    BY <1>4, <2>1, <2>6, DivideOut
  <2>8. QED
    BY <1>4, <2>7 DEF share, a
<1>7. QED
  BY <1>5, <1>6

LEMMA EpochYields ==
  ASSUME BooksInv, KeepsPromise, NEW w, NEW nav, NEW r, EpochDoes(w, nav, r)
  PROVE  SumFunctionOnSet([i \in Investors |-> earned'[i] - earned[i]], Investors)
           <= waterfall'.interest["DROP"] + waterfall'.interest["TIN"]
<1> DEFINE drop == [i \in Investors |-> ShareOf("DROP", i, w)]
           tin == [i \in Investors |-> ShareOf("TIN", i, w)]
           yield == [i \in Investors |-> earned'[i] - earned[i]]
<1>1. Fall(w) /\ waterfall' = w /\ "DROP" \in Tranche /\ "TIN" \in Tranche /\ TypeOK
  BY DEF EpochDoes, Tranche, BooksInv
<1>2. /\ SumFunctionOnSet(drop, Investors) <= w.interest["DROP"]
      /\ SumFunctionOnSet(drop, Investors) \in Int
      /\ SumFunctionOnSet(tin, Investors) <= w.interest["TIN"]
      /\ SumFunctionOnSet(tin, Investors) \in Int
      /\ w.interest["DROP"] \in Int /\ w.interest["TIN"] \in Int
  <2>1. w.interest["DROP"] \in Int /\ w.interest["TIN"] \in Int
    BY <1>1 DEF Fall
  <2>2. QED
    BY <1>1, <2>1, SharesWithin
<1>3. ASSUME NEW i \in Investors
      PROVE  drop[i] \in Int /\ tin[i] \in Int /\ yield[i] = drop[i] + tin[i]
  <2>1. drop[i] \in Nat /\ tin[i] \in Nat
    BY <1>1, ShareIsNat
  <2>2. earned'[i] = earned[i] + YieldOf(i, w) /\ earned[i] \in Nat
    BY <1>1 DEF EpochDoes, TypeOK
  <2>3. YieldOf(i, w) = drop[i] + tin[i]
    BY YieldIsShares
  <2>4. yield[i] = earned'[i] - earned[i]
    OBVIOUS
  <2> HIDE DEF drop, tin, yield
  <2>5. QED
    BY <2>1, <2>2, <2>3, <2>4
<1> HIDE DEF drop, tin, yield
<1>4. SumFunctionOnSet(yield, Investors)
        = SumFunctionOnSet(drop, Investors) + SumFunctionOnSet(tin, Investors)
  BY <1>3, PoolAssumption, SumOfTwo
<1>5. SumFunctionOnSet(yield, Investors) <= w.interest["DROP"] + w.interest["TIN"]
  BY <1>2, <1>4
<1>6. QED
  BY <1>1, <1>5 DEF yield

(* A revaluation that lowers DROP found less in the pool than DROP claims. *)
LEMMA EpochProtects ==
  ASSUME BooksInv, KeepsPromise, NEW w, NEW nav, NEW r, EpochDoes(w, nav, r)
  PROVE  /\ /\ tranche'["DROP"].nav < tranche["DROP"].nav
            /\ tranche["DROP"].circulating > 0
            /\ tranche["TIN"].circulating > 0
            => tranche'["TIN"].nav = 0
         /\ waterfall'.shortfall["DROP"] > 0 => waterfall'.interest["TIN"] = 0
<1>1. /\ Fall(w) /\ waterfall' = w /\ TypeOK
      /\ "DROP" \in Tranche /\ "TIN" \in Tranche
      /\ tranche["TIN"].circulating \in Nat
  BY NoneNegative DEF EpochDoes, Tranche, BooksInv
<1>2. waterfall'.shortfall["DROP"] > 0 => waterfall'.interest["TIN"] = 0
  BY <1>1 DEF Fall
<1>3. ASSUME tranche'["DROP"].nav < tranche["DROP"].nav,
             tranche["DROP"].circulating > 0, tranche["TIN"].circulating > 0
      PROVE  tranche'["TIN"].nav = 0
  <2> DEFINE d == tranche["DROP"].circulating
             v == tranche["DROP"].nav
             u == tranche["TIN"].circulating
  <2>1. PICK assets \in Nat: nav = [t \in Tranche |-> NavPerToken(t, assets)]
    BY DEF EpochDoes
  <2>2. /\ tranche'["DROP"].nav = NavPerToken("DROP", assets)
        /\ tranche'["TIN"].nav = NavPerToken("TIN", assets)
    <3>1. tranche'["DROP"].nav = nav["DROP"] /\ tranche'["TIN"].nav = nav["TIN"]
      BY <1>1, EpochTranche
    <3>2. QED
      BY <1>1, <2>1, <3>1
  <2>3. d \in Nat \ {0} /\ v \in Nat /\ u \in Nat \ {0} /\ d * v \in Nat
    <3>1. d \in Int /\ v \in Nat /\ u \in Int
      BY <1>1, TrancheType
    <3>2. d \in Nat \ {0} /\ u \in Nat \ {0}
      BY <1>3, <3>1
    <3> HIDE DEF d, v, u
    <3>3. QED
      BY <3>1, <3>2, ProductIs
  <2>4. /\ NavPerToken("DROP", assets) = DropNav(assets) \div d
        /\ NavPerToken("TIN", assets) = Excess(assets, DropNav(assets)) \div u
        /\ DropNav(assets) = Least(d * v, assets)
    BY <1>3 DEF NavPerToken, DropNav
  <2>5. NavPerToken("DROP", assets) < v
    BY <1>3, <2>2
  <2> HIDE DEF d, v, u
  <2>6. DropNav(assets) = assets
    <3>1. CASE d * v <= assets
      <4>1. (d * v) \div d = v
        BY <2>3
      <4>2. DropNav(assets) = d * v
        BY <2>4, <3>1 DEF Least
      <4>3. QED
        BY <2>3, <2>4, <2>5, <4>1, <4>2
    <3>2. CASE ~(d * v <= assets)
      BY <2>4, <3>2 DEF Least
    <3>3. QED
      BY <3>1, <3>2
  <2>7. Excess(assets, DropNav(assets)) = 0
    BY <2>6 DEF Excess
  <2>8. 0 \div u = 0
    BY <2>3
  <2>9. QED
    BY <2>2, <2>4, <2>7, <2>8
<1>4. QED
  BY <1>2, <1>3

LEMMA OnlyEpochsFall ==
  ASSUME [Next]_vars, waterfall' # waterfall
  PROVE  \E c \in Inflows: RunEpoch(c)
BY DEF Next, vars, AddAssetToPool, ValueAsset, CalculatePoolMetrics, ClosePool, ActivatePool,
       CreateTranches, Subscribe, RequestRedemption

(* Where no investor has two requests open in a tranche: an epoch hands    *)
(* out no more than its waterfall allotted (distribute_yield 2067-2113).   *)
THEOREM YieldsAreCovered ==
  ASSUME MaxPending <= 1
  PROVE  Spec => YieldWithinInterest
<1> DEFINE Inv == BooksInv /\ KeepsPromise
<1>1. Init => Inv
  BY InitBooks, InitKeepsPromise
<1>2. Inv /\ [Next]_vars => Inv'
  BY NextBooks, NextKeepsPromise
<1>3. Inv /\ [Next]_vars =>
        [waterfall' # waterfall =>
           SumFunctionOnSet([i \in Investors |-> earned'[i] - earned[i]], Investors)
             <= waterfall'.interest["DROP"] + waterfall'.interest["TIN"]]_vars
  BY EpochIs, EpochYields, OnlyEpochsFall
<1>4. QED
  BY <1>1, <1>2, <1>3, PTL DEF Spec, YieldWithinInterest

(* Under the same condition TIN protects DROP: DROP loses value only when  *)
(* TIN has none left, and TIN gets no interest while DROP's is short.      *)
THEOREM TinProtectsDrop ==
  ASSUME MaxPending <= 1
  PROVE  Spec => DropProtectedByTin
<1> DEFINE Inv == BooksInv /\ KeepsPromise
<1>1. Init => Inv
  BY InitBooks, InitKeepsPromise
<1>2. Inv /\ [Next]_vars => Inv'
  BY NextBooks, NextKeepsPromise
<1>3. Inv /\ [Next]_vars =>
        [waterfall' # waterfall =>
           /\ /\ tranche'["DROP"].nav < tranche["DROP"].nav
              /\ tranche["DROP"].circulating > 0
              /\ tranche["TIN"].circulating > 0
              => tranche'["TIN"].nav = 0
           /\ waterfall'.shortfall["DROP"] > 0 => waterfall'.interest["TIN"] = 0]_vars
  BY EpochIs, EpochProtects, OnlyEpochsFall
<1>4. QED
  BY <1>1, <1>2, <1>3, PTL DEF Spec, DropProtectedByTin
===============================================================================
