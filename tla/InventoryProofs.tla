-------------------------- MODULE InventoryProofs ---------------------------
(***************************************************************************)
(* Proofs about Inventory, for any number of sessions, stock rows and      *)
(* documents, any lines and costs, and any bound on the requests.  The     *)
(* control part (which session holds which row, and what it has moved so   *)
(* far) is proved first; quantities and costs rest on it.                  *)
(***************************************************************************)
EXTENDS Inventory, TotalsProofs

-----------------------------------------------------------------------------
(***************************************************************************)
(* Integers: the rounding of average costs.                                *)
(***************************************************************************)
LEMMA DivBounds ==
  ASSUME NEW a \in Int, NEW b \in Nat \ {0}
  PROVE  /\ a \div b \in Int
         /\ b * (a \div b) <= a /\ a < b * (a \div b) + b
OBVIOUS

\* Rounding is off by half a unit at most.
LEMMA RoundBounds ==
  ASSUME NEW n \in Int, NEW d \in Nat \ {0}
  PROVE  /\ Round(n, d) \in Int
         /\ 2 * (d * Round(n, d)) <= 2 * n + d
         /\ 2 * n - d < 2 * (d * Round(n, d))
<1> DEFINE a == 2 * n + d  b == 2 * d  x == a \div b
<1>1. b \in Nat \ {0} /\ a \in Int
  OBVIOUS
<1>2. x \in Int /\ b * x <= a /\ a < b * x + b
  <2> HIDE DEF a, b
  <2> QED BY <1>1, DivBounds
<1>3. b * x = 2 * (d * x) /\ d * x \in Int
  <2> HIDE DEF a
  <2>1. x \in Int
    BY <1>2
  <2> HIDE DEF x
  <2> QED BY <2>1
<1>4. Round(n, d) = x
  BY DEF Round
<1> HIDE DEF x
<1> QED BY <1>2, <1>3, <1>4

LEMMA Products ==
  /\ \A a, b \in Int : a * b \in Int /\ a * b = b * a
  /\ \A a, b, c \in Int : a * (b + c) = a * b + a * c /\ (b + c) * a = b * a + c * a
  /\ \A a, b, c \in Int : a * (b - c) = a * b - a * c /\ (b - c) * a = b * a - c * a
  /\ \A a \in Nat, b, c \in Int : b <= c => a * b <= a * c
  /\ \A a, b \in Nat : a * b \in Nat
OBVIOUS

\* A weighted average, rounded, lies between the two amounts.
LEMMA AverageBetween ==
  ASSUME NEW q \in Nat, NEW n \in Nat \ {0}, NEW a \in Int, NEW c \in Int, NEW m \in Int
  PROVE  /\ (m <= a \/ q = 0) /\ m <= c => m <= Round(q * a + n * c, q + n)
         /\ (a <= m \/ q = 0) /\ c <= m => Round(q * a + n * c, q + n) <= m
<1> DEFINE d == q + n  v == q * a + n * c  x == Round(v, d)
<1>1. d \in Nat \ {0} /\ v \in Int
  BY Products
<1>2. /\ x \in Int /\ 2 * (d * x) <= 2 * v + d /\ 2 * v - d < 2 * (d * x)
  <2> HIDE DEF d, v
  <2> QED BY <1>1, RoundBounds
<1>3. d * m = q * m + n * m /\ d * m \in Int /\ d * x \in Int /\ q * m \in Int /\ n * m \in Int
      /\ q * a \in Int /\ n * c \in Int
  <2> HIDE DEF x
  <2> QED BY <1>2, Products
<1>4. ASSUME m <= a \/ q = 0, m <= c PROVE m <= x
  <2>1. q * m <= q * a /\ n * m <= n * c
    BY <1>4, Products
  <2>2. d * m <= v
    <3> HIDE DEF x, d
    <3> QED BY <1>3, <2>1
  <2>3. 2 * (d * m) - d < 2 * (d * x)
    <3> HIDE DEF x, d, v
    <3> QED BY <1>1, <1>2, <1>3, <2>2
  <2>4. SUFFICES ASSUME x <= m - 1 PROVE FALSE
    <3> HIDE DEF x
    <3> QED BY <1>2
  <2>5. d * x <= d * (m - 1) /\ d * (m - 1) = d * m - d
    <3> HIDE DEF x, d
    <3> QED BY <1>1, <1>2, <2>4, Products
  <2> HIDE DEF x, d, v
  <2> QED BY <1>1, <1>3, <2>3, <2>5
<1>5. ASSUME a <= m \/ q = 0, c <= m PROVE x <= m
  <2>1. q * a <= q * m /\ n * c <= n * m
    BY <1>5, Products
  <2>2. v <= d * m
    <3> HIDE DEF x, d
    <3> QED BY <1>3, <2>1
  <2>3. 2 * (d * x) <= 2 * (d * m) + d
    <3> HIDE DEF x, d, v
    <3> QED BY <1>1, <1>2, <1>3, <2>2
  <2>4. SUFFICES ASSUME m + 1 <= x PROVE FALSE
    <3> HIDE DEF x
    <3> QED BY <1>2
  <2>5. d * (m + 1) <= d * x /\ d * (m + 1) = d * m + d
    <3>1. d * (m + 1) = d * m + d * 1 /\ d * 1 = d
      <4> HIDE DEF x, d
      <4> QED BY <1>1, Products
    <3> HIDE DEF x, d
    <3> QED BY <1>1, <1>2, <2>4, <3>1, Products
  <2> HIDE DEF x, d, v
  <2> QED BY <1>1, <1>3, <2>3, <2>5
<1> QED BY <1>4, <1>5

-----------------------------------------------------------------------------
(***************************************************************************)
(* Documents and their lines.                                              *)
(***************************************************************************)
Kinds == {"goods_receipt", "delivery", "stock_count"}
Last(d) == Len(Doc[d].lines)

LEMMA DocFacts ==
  ASSUME NEW d \in Docs
  PROVE  /\ Doc[d].kind \in Kinds /\ Last(d) \in Nat \ {0}
         /\ Lines(d) = 1..Last(d) /\ IsFiniteSet(Lines(d)) /\ Lines(d) \subseteq Nat
         /\ Lines(d) \subseteq 1..MaxLines
         /\ 1 \in Lines(d) /\ Last(d) \in Lines(d)
         /\ \A k \in Lines(d) : /\ Doc[d].lines[k].row \in Stock
                                /\ Doc[d].lines[k].quantity \in Nat
                                /\ Doc[d].lines[k].cost \in Nat
                                /\ Doc[d].kind # "stock_count" => Doc[d].lines[k].quantity > 0
<1>1. /\ Doc[d].kind \in Kinds /\ Doc[d].lines \in Seq(Line)
      /\ Last(d) \in 1..MaxLines /\ MaxLines \in Nat
      /\ \A k \in 1..Last(d) : Doc[d].kind # "stock_count" => Doc[d].lines[k].quantity > 0
  BY DocumentAssumption, InventoryAssumption DEF DocType, Kinds, Last
<1>2. Last(d) \in Nat \ {0} /\ Lines(d) = 1..Last(d)
  BY <1>1 DEF Lines, Last
<1>3. IsFiniteSet(1..Last(d))
  BY <1>2, FS_Interval
<1>4. \A k \in 1..Last(d) : Doc[d].lines[k] \in Line
  BY <1>1 DEF Last
<1>5. 1..Last(d) \subseteq 1..MaxLines
  BY <1>1
<1> QED BY <1>1, <1>2, <1>3, <1>4, <1>5 DEF Line

\* What a line moves is an integer.
LEMMA LineEffectIsInteger ==
  ASSUME expected \in [Docs -> [1..MaxLines -> Int]], NEW d \in Docs, NEW k \in Lines(d), NEW r
  PROVE  LineEffect(d, k, r) \in Int
<1>1. expected[d][k] \in Int
  BY DocFacts
<1> QED BY <1>1, DocFacts DEF LineEffect, Variance, Kinds

LEMMA EffectIsInteger ==
  ASSUME expected \in [Docs -> [1..MaxLines -> Int]], NEW d \in Docs, NEW r, NEW some \in SUBSET Lines(d)
  PROVE  Effect(d, r, some) \in Int
<1> DEFINE f == [k \in Lines(d) |-> LineEffect(d, k, r)]
<1>1. IsFiniteSet(some)
  BY DocFacts, FS_Subset
<1>2. \A k \in some : f[k] \in Int
  BY LineEffectIsInteger
<1> HIDE DEF f
<1>3. SumFunctionOnSet(f, some) \in Int
  BY <1>1, <1>2, SumType
<1> QED BY <1>3 DEF Effect, f

LEMMA NoEffect == ASSUME NEW d, NEW r PROVE Effect(d, r, {}) = 0
BY SumEmpty DEF Effect

\* One line more.
LEMMA EffectOfOneMore ==
  ASSUME expected \in [Docs -> [1..MaxLines -> Int]], NEW d \in Docs, NEW r,
         NEW some \in SUBSET Lines(d), NEW k \in Lines(d) \ some
  PROVE  Effect(d, r, some \cup {k}) = Effect(d, r, some) + LineEffect(d, k, r)
<1> DEFINE f == [j \in Lines(d) |-> LineEffect(d, j, r)]
           more == some \cup {k}
<1>1. more \subseteq Lines(d) /\ k \in more /\ more \ {k} = some
  OBVIOUS
<1>2. IsFiniteSet(more) /\ IsFiniteSet(some)
  BY <1>1, DocFacts, FS_Subset
<1>3. \A j \in more : f[j] \in Int
  BY <1>1, LineEffectIsInteger
<1>4. f[k] = LineEffect(d, k, r) /\ f[k] \in Int
  BY <1>1, <1>3
<1> HIDE DEF f, more
<1>5. SumFunctionOnSet(f, more) = f[k] + SumFunctionOnSet(f, more \ {k})
  BY <1>1, <1>2, <1>3, SumTakeOut
<1>6. SumFunctionOnSet(f, some) \in Int
  BY <1>1, <1>2, <1>3, SumType
<1>7. SumFunctionOnSet(f, more) = SumFunctionOnSet(f, some) + f[k]
  <2>1. SumFunctionOnSet(f, more) = f[k] + SumFunctionOnSet(f, some)
    BY <1>1, <1>5
  <2>2. \A a, b \in Int : a + b = b + a
    OBVIOUS
  <2> QED BY <1>4, <1>6, <2>1, <2>2
<1> QED BY <1>4, <1>7 DEF Effect, f, more

\* It depends on nothing but what a count captured.
LEMMA EffectSame ==
  ASSUME NEW d \in Docs, expected'[d] = expected[d], NEW r, NEW some \in SUBSET Lines(d)
  PROVE  Effect(d, r, some)' = Effect(d, r, some)
<1> DEFINE f == [k \in Lines(d) |-> LineEffect(d, k, r)]
           g == [k \in Lines(d) |-> LineEffect(d, k, r)']
<1>1. IsFiniteSet(some)
  BY DocFacts, FS_Subset
<1>2. \A k \in some : f[k] = g[k]
  BY DEF LineEffect, Variance
<1> HIDE DEF f, g
<1>3. SumFunctionOnSet(f, some) = SumFunctionOnSet(g, some)
  BY <1>1, <1>2, SumSame
<1> QED BY <1>3 DEF Effect, f, g, Lines

-----------------------------------------------------------------------------
(***************************************************************************)
(* Rows and their holders.                                                 *)
(***************************************************************************)
LEMMA IdleFacts ==
  /\ Idle \in Request /\ NoStock \in Balance
  /\ Idle.doc = "none" /\ Idle.at = 0 /\ Idle.pc = "idle" /\ Idle.locks = {} /\ Idle.stale = {}
  /\ \A r \in Stock : Idle.qty[r] = 0 /\ Idle.value[r] = 0
BY DEF Idle, Request, NoStock, Balance, Uncaptured

LEMMA InventoryInit == Init => InventoryInv
<1> SUFFICES ASSUME Init PROVE InventoryInv
  OBVIOUS
<1>1. TypeOK
  BY IdleFacts DEF Init, TypeOK, Uncaptured
<1>2. \A s \in Sessions : InOrder(s) /\ ~Posting(s)
  BY IdleFacts DEF Init, InOrder, Posting, Counting
<1>3. OnlyRacesLoseMoves
  BY DEF Init, OnlyRacesLoseMoves, NoStock
<1> QED BY <1>1, <1>2, <1>3 DEF InventoryInv, Init

\* A session whose record is left alone keeps its order while no document it
\* counts or posts changes its status and no other session takes it or its rows.
LEMMA OrderKept ==
  ASSUME InventoryInv, NEW s \in Sessions, NEW u \in Sessions \ {s},
         sess' = [sess EXCEPT ![s] = sess'[s]],
         Counting(u) => status'[sess[u].doc] = status[sess[u].doc] /\ sess'[s].doc # sess[u].doc,
         Posting(u) => status'[sess[u].doc] # "absent",
         sess[u].locks \cap sess'[s].locks = {}
  PROVE  InOrder(u)'
<1>1. /\ sess'[u] = sess[u]
      /\ \A t \in Sessions \ {u} : t # s => sess'[t] = sess[t]
  BY DEF InventoryInv, TypeOK
<1>2. InOrder(u)
  BY DEF InventoryInv
<1>3. Counting(u) => \A t \in Sessions \ {u} : sess'[t].doc # sess[u].doc
  BY <1>1, <1>2 DEF InOrder
<1>4. \A t \in Sessions \ {u} : sess[u].locks \cap sess'[t].locks = {}
  BY <1>1, <1>2 DEF InOrder
<1> QED BY <1>1, <1>2, <1>3, <1>4 DEF InOrder, Counting, Posting, Lines

\* Its versions of the rows are kept with the committed ones it has locked.
LEMMA VersionsKept ==
  ASSUME InventoryInv, NEW u \in Sessions, Posting(u), sess'[u] = sess[u],
         expected'[sess[u].doc] = expected[sess[u].doc],
         \A r \in sess[u].locks : balance'[r] = balance[r]
  PROVE  Posting(u)' /\ \A r \in Stock : VersionKept(u, r)'
<1>2. sess[u].doc \in Docs /\ Done(u) \subseteq Lines(sess[u].doc) /\ Done(u)' = Done(u)
  BY DEF InventoryInv, InOrder, Done, Lines
<1> SUFFICES ASSUME NEW r \in Stock PROVE VersionKept(u, r)'
  BY DEF Posting
<1>3. VersionKept(u, r)
  BY DEF InventoryInv
<1>4. Effect(sess[u].doc, r, Done(u))' = Effect(sess[u].doc, r, Done(u))
  <2>1. PICK d \in Docs : d = sess[u].doc
    BY <1>2
  <2>2. PICK some \in SUBSET Lines(d) : some = Done(u)
    BY <1>2, <2>1
  <2>3. Effect(d, r, some)' = Effect(d, r, some)
    BY <2>1, EffectSame
  <2> QED BY <1>2, <2>1, <2>2, <2>3
<1> QED BY <1>3, <1>4 DEF VersionKept, LineOf

LEMMA OneSession ==
  ASSUME InventoryInv, NEW s \in Sessions, NEW t \in Request, Become(s, t), InOrder(s)',
         \A u \in Sessions \ {s} : Counting(u) => t.doc # sess[u].doc,
         Posting(s)' => \A r \in Stock : VersionKept(s, r)'
  PROVE  InventoryInv'
<1>1. /\ sess' = [sess EXCEPT ![s] = t] /\ sess'[s] = t
      /\ \A u \in Sessions \ {s} : sess'[u] = sess[u]
      /\ UNCHANGED <<status, expected, balance, moved, worth, postings, raced>>
  BY DEF Become, tables, InventoryInv, TypeOK
<1>2. TypeOK'
  BY <1>1 DEF InventoryInv, TypeOK
<1>3. ASSUME NEW u \in Sessions \ {s} PROVE InOrder(u)'
  <2>1. sess[u].locks \cap sess'[s].locks = {}
    BY <1>1 DEF InOrder
  <2>2. Posting(u) => status[sess[u].doc] # "absent"
    BY DEF InventoryInv, InOrder
  <2> QED BY <1>1, <2>1, <2>2, OrderKept
<1>4. ASSUME NEW u \in Sessions \ {s}, Posting(u)' PROVE \A r \in Stock : VersionKept(u, r)'
  <2>1. Posting(u)
    BY <1>1, <1>4 DEF Posting
  <2> QED BY <1>1, <2>1, VersionsKept
<1>5. OnlyRacesLoseMoves' /\ \A d \in Docs : status'[d] = "absent" => postings'[d] = 0
  BY <1>1 DEF InventoryInv, OnlyRacesLoseMoves
<1> QED BY <1>2, <1>3, <1>4, <1>5 DEF InventoryInv

\* The next line is a line, or there is none left.
LEMMA OnwardFacts ==
  ASSUME NEW t \in Request, t.doc \in Docs, t.at \in {0} \cup Lines(t.doc), NEW u, u = Onward(t)
  PROVE  /\ u \in Request /\ u.doc = t.doc /\ u.seen = t.seen /\ u.locks = t.locks /\ u.own = t.own
         /\ u.qty = t.qty /\ u.value = t.value /\ u.stale = t.stale
         /\ u.at \in Lines(t.doc)
         /\ \/ u.pc = "commit" /\ u.at = t.at /\ t.at = Last(t.doc)
            \/ u.pc = "read" /\ u.at = t.at + 1 /\ t.at < Last(t.doc)
<1>1. /\ Last(t.doc) \in Nat \ {0} /\ Lines(t.doc) = 1..Last(t.doc) /\ t.at \in Nat
      /\ t.at <= Last(t.doc)
  BY DocFacts
<1>2. CASE t.at = Last(t.doc)
  <2>1. u = [t EXCEPT !.pc = "commit"]
    BY <1>2 DEF Onward, Last
  <2> QED BY <1>1, <1>2, <2>1 DEF Request
<1>3. CASE t.at # Last(t.doc)
  <2>1. u = [t EXCEPT !.pc = "read", !.at = t.at + 1]
    BY <1>3 DEF Onward, Last
  <2>2. /\ u.pc = "read" /\ u.at = t.at + 1
        /\ u.doc = t.doc /\ u.seen = t.seen /\ u.locks = t.locks /\ u.own = t.own
        /\ u.qty = t.qty /\ u.value = t.value /\ u.stale = t.stale
        /\ u = [doc |-> t.doc, at |-> u.at, pc |-> u.pc, seen |-> t.seen,
                captured |-> t.captured, locks |-> t.locks,
                own |-> t.own, qty |-> t.qty, value |-> t.value, stale |-> t.stale]
    BY <2>1 DEF Request
  <2>3. u.at \in Nat /\ u.at \in Lines(t.doc) /\ t.at < Last(t.doc)
    BY <1>1, <1>3, <2>2
  <2>4. u \in Request
    BY <2>2, <2>3 DEF Request
  <2> QED BY <2>2, <2>3, <2>4
<1> QED BY <1>2, <1>3

\* The line a session works on is not done yet, and is once it goes on.
LEMMA DoneOneMore ==
  ASSUME InventoryInv, NEW s \in Sessions, sess[s].pc = "write",
         sess'[s].doc = sess[s].doc,
         \/ sess'[s].pc = "commit" /\ sess[s].at = Last(sess[s].doc)
         \/ sess'[s].pc = "read" /\ sess'[s].at = sess[s].at + 1
  PROVE  /\ sess[s].doc \in Docs /\ sess[s].at \in Lines(sess[s].doc)
         /\ Done(s) \subseteq Lines(sess[s].doc) /\ sess[s].at \notin Done(s)
         /\ Done(s)' = Done(s) \cup {sess[s].at}
<1>1. sess[s].doc \in Docs /\ sess[s].at \in Lines(sess[s].doc)
  BY DEF InventoryInv, InOrder, Posting
<1>2. Lines(sess[s].doc) = 1..Last(sess[s].doc) /\ Last(sess[s].doc) \in Nat
  BY <1>1, DocFacts
<1>3. Done(s) = {k \in 1..Last(sess[s].doc) : k < sess[s].at}
  BY <1>2 DEF Done
<1>4. Done(s)' = {k \in 1..Last(sess[s].doc) : k < sess'[s].at \/ sess'[s].pc = "commit"}
  BY <1>2 DEF Done, Lines
<1>5. CASE sess'[s].pc = "commit" /\ sess[s].at = Last(sess[s].doc)
  BY <1>1, <1>2, <1>3, <1>4, <1>5
<1>6. CASE sess'[s].pc = "read" /\ sess'[s].at = sess[s].at + 1
  BY <1>1, <1>2, <1>3, <1>4, <1>6
<1> QED BY <1>1, <1>2, <1>3, <1>5, <1>6

-----------------------------------------------------------------------------
(***************************************************************************)
(* One lemma per action, or per group that does the same to a session.     *)
(***************************************************************************)
LEMMA CreateKeeps ==
  ASSUME InventoryInv, NEW d \in Docs, CreateReceipt(d) \/ CreateDelivery(d)
  PROVE  InventoryInv'
<1>1. /\ Doc[d].kind # "stock_count" /\ status' = [status EXCEPT ![d] = "draft"]
      /\ UNCHANGED <<expected, balance, moved, worth, postings, raced, sess>>
  BY DEF CreateReceipt, CreateDelivery, Create
<1>2. TypeOK'
  BY <1>1 DEF InventoryInv, TypeOK
<1>3. ASSUME NEW u \in Sessions PROVE InOrder(u)'
  <2>1. InOrder(u)
    BY DEF InventoryInv
  <2>2. Counting(u) => sess[u].doc # d
    BY <1>1, <2>1 DEF InOrder
  <2>3. \A e \in Docs : status'[e] = IF e = d THEN "draft" ELSE status[e]
    BY <1>1 DEF InventoryInv, TypeOK
  <2> QED BY <1>1, <2>1, <2>2, <2>3 DEF InOrder, Counting, Posting, Lines
<1>4. ASSUME NEW u \in Sessions, Posting(u)' PROVE \A r \in Stock : VersionKept(u, r)'
  <2>1. Posting(u)
    BY <1>1, <1>4 DEF Posting
  <2> QED BY <1>1, <2>1, VersionsKept
<1>5. OnlyRacesLoseMoves' /\ \A e \in Docs : status'[e] = "absent" => postings'[e] = 0
  BY <1>1 DEF InventoryInv, OnlyRacesLoseMoves, TypeOK
<1> QED BY <1>2, <1>3, <1>4, <1>5 DEF InventoryInv

\* A session that gives up, or has nothing to write, leaves nothing behind.
LEMMA IdleKeeps ==
  ASSUME InventoryInv, NEW s \in Sessions, Become(s, Idle)
  PROVE  InventoryInv'
<1>1. sess'[s] = Idle
  BY DEF Become, InventoryInv, TypeOK
<1>2. InOrder(s)' /\ ~Posting(s)'
  BY <1>1, IdleFacts DEF InOrder, Posting, Counting
<1>3. \A u \in Sessions \ {s} : Counting(u) => Idle.doc # sess[u].doc
  BY IdleFacts, InventoryAssumption DEF InventoryInv, InOrder
<1> QED BY <1>2, <1>3, IdleFacts, OneSession

LEMMA BeginCountKeeps ==
  ASSUME InventoryInv, NEW s \in Sessions, NEW d \in Docs, BeginCount(s, d)
  PROVE  InventoryInv'
<1> DEFINE t == [Idle EXCEPT !.doc = d, !.at = 1, !.pc = "capture"]
<1>1. /\ Doc[d].kind = "stock_count" /\ status[d] = "absent" /\ Become(s, t)
      /\ \A u \in Sessions : sess[u].doc # d
  BY DEF BeginCount
<1>2. t \in Request /\ t.doc = d /\ t.at = 1 /\ t.pc = "capture" /\ t.locks = {}
  BY IdleFacts DEF Request
<1> HIDE DEF t
<1>3. /\ sess'[s] = t /\ status' = status
      /\ \A u \in Sessions \ {s} : sess'[u] = sess[u]
  BY <1>1 DEF Become, tables, InventoryInv, TypeOK
<1>4. 1 \in Lines(d)
  BY DocFacts
<1>5. InOrder(s)' /\ ~Posting(s)'
  BY <1>1, <1>2, <1>3, <1>4 DEF InOrder, Posting, Counting, Lines
<1> QED BY <1>1, <1>2, <1>5, OneSession

LEMMA CaptureKeeps ==
  ASSUME InventoryInv, NEW s \in Sessions, Capture(s)
  PROVE  InventoryInv'
<1> DEFINE q == sess[s]
           n == balance[LineOf(s).row].qty
           captured == [q.captured EXCEPT ![q.at] = n]
           at == IF q.at = Last(q.doc) THEN 0 ELSE q.at + 1
           pc == IF q.at = Last(q.doc) THEN "captured" ELSE "capture"
           t == [q EXCEPT !.captured = captured, !.at = at, !.pc = pc]
<1>0. q \in Request /\ InOrder(s) /\ q.pc = "capture" /\ balance \in [Stock -> Balance]
  BY DEF Capture, InventoryInv, TypeOK
<1>1. /\ Become(s, t) /\ q.doc \in Docs /\ q.at \in Lines(q.doc)
  BY <1>0 DEF Capture, InOrder, Counting, Last, Request
<1>2. LineOf(s).row \in Stock /\ Lines(q.doc) = 1..Last(q.doc) /\ Last(q.doc) \in Nat
  BY <1>1, DocFacts DEF LineOf
<1>3. captured \in [1..MaxLines -> Int]
  <2>1. n \in Int
    BY <1>0, <1>2 DEF Balance
  <2> QED BY <1>0, <2>1 DEF Request
<1>4. at \in Nat /\ pc \in {"capture", "captured"}
  BY <1>1, <1>2
<1>5. t \in Request /\ t.doc = q.doc /\ t.locks = q.locks /\ t.at = at /\ t.pc = pc
  <2> HIDE DEF q, captured, at, pc
  <2> QED BY <1>0, <1>3, <1>4 DEF Request
<1> HIDE DEF t, captured
<1>6. /\ sess'[s] = t /\ status' = status
      /\ \A u \in Sessions \ {s} : sess'[u] = sess[u]
  BY <1>1 DEF Become, tables, InventoryInv, TypeOK
<1>7. t.pc = "capture" => t.at \in Lines(t.doc)
  BY <1>1, <1>2, <1>5
<1>8. InOrder(s)' /\ ~Posting(s)'
  BY <1>0, <1>1, <1>4, <1>5, <1>6, <1>7 DEF InOrder, Posting, Counting, Lines
<1>9. \A u \in Sessions \ {s} : Counting(u) => t.doc # sess[u].doc
  BY <1>0, <1>1, <1>5 DEF InOrder, Counting
<1> QED BY <1>1, <1>5, <1>8, <1>9, OneSession

LEMMA CreateCountKeeps ==
  ASSUME InventoryInv, NEW s \in Sessions, CreateCount(s)
  PROVE  /\ InventoryInv'
         /\ \A d \in Docs : expected'[d] = expected[d] \/ (status[d] = "absent" /\ postings[d] = 0)
<1> DEFINE d == sess[s].doc
<1>1. /\ status' = [status EXCEPT ![d] = "draft"]
      /\ expected' = [expected EXCEPT ![d] = sess[s].captured]
      /\ sess' = [sess EXCEPT ![s] = Idle]
      /\ UNCHANGED <<balance, moved, worth, postings, raced>>
      /\ sess[s].pc = "captured" /\ sess[s] \in Request
  BY DEF CreateCount, InventoryInv, TypeOK
<1>2. /\ d \in Docs /\ status[d] = "absent" /\ postings[d] = 0
      /\ \A u \in Sessions \ {s} : sess[u].doc # d
  BY <1>1 DEF InventoryInv, InOrder, Counting
<1>3. TypeOK'
  <2>1. sess[s].captured \in [1..MaxLines -> Int]
    BY <1>1 DEF Request
  <2> QED BY <1>1, <2>1, IdleFacts DEF InventoryInv, TypeOK
<1>4. /\ sess'[s] = Idle /\ \A u \in Sessions \ {s} : sess'[u] = sess[u]
      /\ \A e \in Docs \ {d} : status'[e] = status[e] /\ expected'[e] = expected[e]
      /\ status'[d] = "draft"
  BY <1>1, <1>2 DEF InventoryInv, TypeOK
<1>5. InOrder(s)' /\ ~Posting(s)'
  BY <1>4, IdleFacts DEF InOrder, Posting, Counting
<1>6. ASSUME NEW u \in Sessions \ {s} PROVE InOrder(u)'
  <2>1. Counting(u) \/ Posting(u) => sess[u].doc \in Docs \ {d}
    BY <1>2 DEF InventoryInv, InOrder
  <2>2. Posting(u) => status[sess[u].doc] # "absent"
    BY DEF InventoryInv, InOrder
  <2>3. Counting(u) => sess'[s].doc # sess[u].doc
    BY <1>4, <2>1, IdleFacts, InventoryAssumption
  <2>4. sess[u].locks \cap sess'[s].locks = {} /\ sess' = [sess EXCEPT ![s] = sess'[s]]
    BY <1>1, <1>4, IdleFacts
  <2> QED BY <1>4, <2>1, <2>2, <2>3, <2>4, OrderKept
<1>7. ASSUME NEW u \in Sessions \ {s}, Posting(u)' PROVE \A r \in Stock : VersionKept(u, r)'
  <2>1. Posting(u)
    BY <1>4, <1>7 DEF Posting
  <2>2. sess[u].doc \in Docs \ {d}
    BY <1>2, <2>1 DEF InventoryInv, InOrder
  <2> QED BY <1>1, <1>4, <2>1, <2>2, VersionsKept
<1>8. OnlyRacesLoseMoves' /\ \A e \in Docs : status'[e] = "absent" => postings'[e] = 0
  BY <1>1, <1>2, <1>4 DEF InventoryInv, OnlyRacesLoseMoves
<1>9. \A e \in Docs : expected'[e] = expected[e] \/ (status[e] = "absent" /\ postings[e] = 0)
  BY <1>2, <1>4
<1> QED BY <1>3, <1>5, <1>6, <1>7, <1>8, <1>9 DEF InventoryInv

LEMMA BeginPostKeeps ==
  ASSUME InventoryInv, NEW s \in Sessions, NEW d \in Docs, BeginPost(s, d)
  PROVE  InventoryInv' /\ sess'[s].pc = "read" /\ sess'[s].locks = {}
<1> DEFINE q == [Idle EXCEPT !.doc = d]
           t == Onward(q)
<1>1. status[d] = "draft" /\ Become(s, t)
  BY DEF BeginPost
<1>2. /\ q \in Request /\ q.doc = d /\ q.at = 0 /\ q.locks = {} /\ q.stale = {}
      /\ \A r \in Stock : q.qty[r] = 0 /\ q.value[r] = 0
  BY IdleFacts DEF Request
<1> HIDE DEF q
<1>3. 0 < Last(d)
  BY DocFacts
<1>4. /\ t \in Request /\ t.doc = d /\ t.at = 1 /\ t.pc = "read" /\ t.locks = {} /\ t.stale = {}
      /\ \A r \in Stock : t.qty[r] = 0 /\ t.value[r] = 0
      /\ 1 \in Lines(d)
  <2>1. \/ t.pc = "commit" /\ t.at = q.at /\ q.at = Last(d)
        \/ t.pc = "read" /\ t.at = q.at + 1 /\ q.at < Last(d)
    BY <1>2, OnwardFacts
  <2>2. /\ t \in Request /\ t.doc = q.doc /\ t.locks = q.locks
        /\ t.qty = q.qty /\ t.value = q.value /\ t.stale = q.stale /\ t.at \in Lines(d)
    BY <1>2, OnwardFacts
  <2> QED BY <1>2, <1>3, <2>1, <2>2
<1> HIDE DEF t
<1>5. /\ sess'[s] = t /\ status' = status /\ expected' = expected
      /\ \A u \in Sessions \ {s} : sess'[u] = sess[u]
  BY <1>1 DEF Become, tables, InventoryInv, TypeOK
<1>6. InOrder(s)'
  BY <1>1, <1>4, <1>5 DEF InOrder, Posting, Counting, Lines
<1>7. \A u \in Sessions \ {s} : Counting(u) => t.doc # sess[u].doc
  BY <1>1, <1>4 DEF InventoryInv, InOrder
<1>8. ASSUME NEW r \in Stock PROVE VersionKept(s, r)'
  <2>1. Done(s)' = {}
    <3>1. Lines(d) \subseteq Nat \ {0}
      BY DocFacts
    <3> QED BY <1>4, <1>5, <3>1 DEF Done, Lines
  <2>2. Effect(d, r, {})' = 0
    BY SumEmpty DEF Effect
  <2>3. Effect(sess[s].doc, r, Done(s))' = 0
    BY <1>4, <1>5, <2>1, <2>2
  <2> QED BY <1>4, <1>5, <2>3 DEF VersionKept
<1> QED BY <1>1, <1>4, <1>5, <1>6, <1>7, <1>8, OneSession

LEMMA VisibleType ==
  ASSUME TypeOK, NEW s \in Sessions, NEW r \in Stock
  PROVE  Visible(s, r) \in Balance /\ sess[s].seen \in Balance
BY DEF TypeOK, Request, Visible

LEMMA ReadBalanceKeeps ==
  ASSUME InventoryInv, NEW s \in Sessions, ReadBalance(s)
  PROVE  /\ InventoryInv'
         /\ sess'[s] = [sess[s] EXCEPT !.pc = "write", !.seen = Visible(s, LineOf(s).row)]
         /\ Done(s)' = Done(s) /\ LineOf(s)' = LineOf(s) /\ Posting(s)
<1> DEFINE q == sess[s]
           r == LineOf(s).row
           t == [q EXCEPT !.pc = "write", !.seen = Visible(s, r)]
<1>1. /\ q \in Request /\ InOrder(s) /\ q.pc = "read" /\ Become(s, t) /\ Posting(s)
      /\ q.doc \in Docs /\ q.at \in Lines(q.doc)
  BY DEF ReadBalance, InventoryInv, TypeOK, InOrder, Posting
<1>2. r \in Stock /\ Visible(s, r) \in Balance
  <2>1. r \in Stock
    BY <1>1, DocFacts DEF LineOf
  <2> QED BY <2>1, VisibleType DEF InventoryInv
<1>3. /\ t \in Request /\ t.doc = q.doc /\ t.at = q.at /\ t.pc = "write" /\ t.seen = Visible(s, r)
      /\ t.locks = q.locks /\ t.own = q.own /\ t.qty = q.qty /\ t.value = q.value
      /\ t.stale = q.stale
  BY <1>1, <1>2 DEF Request
<1> HIDE DEF t
<1>4. /\ sess'[s] = t /\ status' = status /\ expected' = expected /\ balance' = balance
      /\ \A u \in Sessions \ {s} : sess'[u] = sess[u]
  BY <1>1 DEF Become, tables, InventoryInv, TypeOK
<1>5. InOrder(s)' /\ \A u \in Sessions \ {s} : Counting(u) => t.doc # sess[u].doc
  <2>1. InOrder(s) /\ \A u \in Sessions : InOrder(u)
    BY DEF InventoryInv
  <2> QED BY <1>1, <1>3, <1>4, <2>1 DEF InOrder, Posting, Counting, Lines
<1>6. Done(s)' = Done(s) /\ LineOf(s)' = LineOf(s)
  BY <1>1, <1>3, <1>4 DEF Done, Lines, LineOf
<1>7. ASSUME NEW x \in Stock PROVE VersionKept(s, x)'
  <2>1. VersionKept(s, x)
    BY <1>1 DEF InventoryInv
  <2>2. Effect(sess[s].doc, x, Done(s))' = Effect(sess[s].doc, x, Done(s))
    <3>1. PICK d \in Docs : d = q.doc
      BY <1>1
    <3>2. PICK some \in SUBSET Lines(d) : some = Done(s)
      BY <3>1 DEF Done
    <3>3. Effect(d, x, some)' = Effect(d, x, some)
      BY <1>4, EffectSame
    <3> QED BY <1>3, <1>4, <1>6, <3>1, <3>2, <3>3
  <2>3. x = r /\ x \in q.locks => t.seen = q.own[x]
    BY <1>3 DEF Visible
  <2> QED BY <1>1, <1>3, <1>4, <1>6, <2>1, <2>2, <2>3 DEF VersionKept
<1>8. InventoryInv'
  BY <1>1, <1>3, <1>5, <1>7, OneSession
<1> QED BY <1>1, <1>4, <1>6, <1>8 DEF t

\* What a move writes in the session's record.
Moved(s, new, quantity, cost) ==
  LET t == sess[s]
      r == LineOf(s).row
      u == sess'[s]
  IN
  /\ r \in Stock /\ Become(s, u) /\ u \in Request
  /\ t.doc \in Docs /\ u.doc = t.doc /\ u.locks = t.locks \cup {r}
  /\ \A x \in Stock :
       /\ u.own[x] = IF x = r THEN new ELSE t.own[x]
       /\ u.qty[x] = t.qty[x] + (IF x = r THEN quantity ELSE 0)
       /\ u.value[x] = t.value[x] + (IF x = r THEN quantity * cost ELSE 0)
  /\ u.stale = IF t.seen = Visible(s, r) THEN t.stale ELSE t.stale \cup {r}
  /\ u.at \in Lines(u.doc) /\ u.pc \in {"read", "commit"}
  /\ \A v \in Sessions \ {s} : r \notin sess[v].locks
  /\ t.at \in Lines(u.doc) /\ Done(s) \in SUBSET Lines(u.doc) /\ t.at \notin Done(s)
  /\ Done(s)' = Done(s) \cup {t.at}

LEMMA MoveFacts ==
  ASSUME InventoryInv, NEW s \in Sessions, sess[s].pc = "write",
         NEW new \in Balance, NEW quantity \in Int, NEW cost \in Int,
         Move(s, new, quantity, cost)
  PROVE  Moved(s, new, quantity, cost)
<1> DEFINE t == sess[s]
           r == LineOf(s).row
           u == sess'[s]
           stale == IF t.seen = Visible(s, r) THEN t.stale ELSE t.stale \cup {r}
           own == [t.own EXCEPT ![r] = new]
           qty == [t.qty EXCEPT ![r] = @ + quantity]
           value == [t.value EXCEPT ![r] = @ + quantity * cost]
           m == [t EXCEPT !.locks = @ \cup {r}, !.own = own, !.stale = stale, !.qty = qty, !.value = value]
<1>1. t \in Request /\ t.doc \in Docs /\ t.at \in Lines(t.doc)
  BY DEF InventoryInv, TypeOK, InOrder, Posting
<1> HIDE DEF u
<1>2. r \in Stock
  BY <1>1, DocFacts DEF LineOf
<1>3. Become(s, Onward(m)) /\ ~LockedByOther(s, r)
  BY DEF Move
<1>4. quantity * cost \in Int
  BY Products
<1>5. /\ own \in [Stock -> Balance] /\ qty \in [Stock -> Int] /\ value \in [Stock -> Int]
      /\ stale \subseteq Stock /\ t.locks \cup {r} \subseteq Stock
  BY <1>1, <1>2, <1>4 DEF Request
<1>6. \A x \in Stock :
        /\ own[x] = IF x = r THEN new ELSE t.own[x]
        /\ qty[x] = t.qty[x] + (IF x = r THEN quantity ELSE 0)
        /\ value[x] = t.value[x] + (IF x = r THEN quantity * cost ELSE 0)
  BY <1>1, <1>2, <1>4 DEF Request
<1> HIDE DEF stale, own, qty, value
<1>7. /\ m \in Request /\ m.doc = t.doc /\ m.at = t.at /\ m.locks = t.locks \cup {r}
      /\ m.own = own /\ m.qty = qty /\ m.value = value /\ m.stale = stale
  BY <1>1, <1>5 DEF Request
<1> HIDE DEF m
<1>8. u = Onward(m) /\ Become(s, u)
  BY <1>3 DEF Become, InventoryInv, TypeOK, u
<1>9. /\ u \in Request /\ u.doc = m.doc /\ u.locks = m.locks /\ u.own = m.own
      /\ u.qty = m.qty /\ u.value = m.value /\ u.stale = m.stale /\ u.at \in Lines(m.doc)
      /\ \/ u.pc = "commit" /\ u.at = m.at /\ m.at = Last(m.doc)
         \/ u.pc = "read" /\ u.at = m.at + 1 /\ m.at < Last(m.doc)
  <2>1. m.at \in {0} \cup Lines(m.doc) /\ m.doc \in Docs
    BY <1>1, <1>7
  <2> QED BY <1>7, <1>8, <2>1, OnwardFacts
<1>10. /\ Done(s) \subseteq Lines(t.doc) /\ t.at \notin Done(s)
       /\ Done(s)' = Done(s) \cup {t.at}
  BY <1>7, <1>9, DoneOneMore DEF u
<1>11. \A v \in Sessions \ {s} : r \notin sess[v].locks
  BY <1>3 DEF LockedByOther
<1> QED BY <1>1, <1>2, <1>5, <1>6, <1>7, <1>8, <1>9, <1>10, <1>11 DEF stale, u, Moved

\* A move that adds to what it saw what its line is about keeps the versions.
LEMMA MoveKeeps ==
  ASSUME InventoryInv, NEW s \in Sessions, sess[s].pc = "write",
         NEW new \in Balance, NEW quantity \in Int, NEW cost \in Int,
         Move(s, new, quantity, cost),
         new.qty = sess[s].seen.qty + quantity,
         quantity = LineEffect(sess[s].doc, sess[s].at, LineOf(s).row)
  PROVE  InventoryInv'
<1> DEFINE t == sess[s]  r == LineOf(s).row  u == sess'[s]
<1>1. /\ r \in Stock /\ Become(s, u) /\ u \in Request
      /\ t.doc \in Docs /\ u.doc = t.doc /\ u.locks = t.locks \cup {r}
      /\ \A x \in Stock :
           /\ u.own[x] = IF x = r THEN new ELSE t.own[x]
           /\ u.qty[x] = t.qty[x] + (IF x = r THEN quantity ELSE 0)
           /\ u.value[x] = t.value[x] + (IF x = r THEN quantity * cost ELSE 0)
      /\ u.stale = IF t.seen = Visible(s, r) THEN t.stale ELSE t.stale \cup {r}
      /\ u.at \in Lines(u.doc) /\ u.pc \in {"read", "commit"}
      /\ \A v \in Sessions \ {s} : r \notin sess[v].locks
      /\ t.at \in Lines(u.doc) /\ Done(s) \in SUBSET Lines(u.doc) /\ t.at \notin Done(s)
      /\ Done(s)' = Done(s) \cup {t.at}
  <2>1. Moved(s, new, quantity, cost)
    BY MoveFacts
  <2> QED BY <2>1 DEF Moved
<1>2. /\ InOrder(s) /\ Posting(s) /\ t \in Request /\ t.seen \in Balance
      /\ balance \in [Stock -> Balance] /\ expected \in [Docs -> [1..MaxLines -> Int]]
  BY DEF InventoryInv, TypeOK, Posting, Request
<1>3. /\ status' = status /\ expected' = expected /\ balance' = balance
      /\ \A v \in Sessions \ {s} : sess'[v] = sess[v]
  BY <1>1 DEF Become, tables, InventoryInv, TypeOK
<1> HIDE DEF u
<1>4. InOrder(s)'
  <2>1. sess'[s] = u
    BY DEF u
  <2>2. \A v \in Sessions \ {s} : u.locks \cap sess[v].locks = {}
    BY <1>1, <1>2 DEF InOrder
  <2>3. status[u.doc] # "absent"
    BY <1>1, <1>2 DEF InOrder
  <2> QED BY <1>1, <1>3, <2>1, <2>2, <2>3 DEF InOrder, Posting, Counting, Lines
<1>5. \A v \in Sessions \ {s} : Counting(v) => u.doc # sess[v].doc
  BY <1>1 DEF InventoryInv, InOrder
<1>6. ASSUME NEW x \in Stock PROVE VersionKept(s, x)'
  <2>0. VersionKept(s, x)
    BY <1>2 DEF InventoryInv
  <2>1. PICK d \in Docs : d = t.doc
    BY <1>1
  <2>2. PICK some \in SUBSET Lines(d) : some = Done(s)
    BY <1>1, <2>1
  <2>3. PICK k \in Lines(d) \ some : k = t.at
    BY <1>1, <2>1, <2>2
  <2>4. /\ Effect(d, x, some \cup {k}) = Effect(d, x, some) + LineEffect(d, k, x)
        /\ Effect(d, x, some \cup {k})' = Effect(d, x, some \cup {k})
        /\ Effect(d, x, some) \in Int /\ LineEffect(d, k, x) \in Int
    <3>1. some \cup {k} \in SUBSET Lines(d)
      OBVIOUS
    <3> QED BY <1>2, <1>3, <3>1, EffectOfOneMore, EffectSame, EffectIsInteger, LineEffectIsInteger
  <2>5. LineEffect(d, k, x) = IF x = r THEN quantity ELSE 0
    <3>1. r = Doc[d].lines[k].row
      BY <2>1, <2>3 DEF LineOf
    <3>2. CASE x = r
      BY <2>1, <2>3, <3>2
    <3>3. CASE x # r
      BY <3>1, <3>3 DEF LineEffect
    <3> QED BY <3>2, <3>3
  <2>6. u.qty[x] = Effect(d, x, some \cup {k})
    BY <1>1, <2>0, <2>1, <2>2, <2>4, <2>5 DEF VersionKept
  <2>7. sess'[s].qty[x] = Effect(sess[s].doc, x, Done(s))'
    BY <1>1, <2>1, <2>2, <2>3, <2>4, <2>6 DEF u
  <2>8. x \notin u.locks => u.qty[x] = 0 /\ u.value[x] = 0 /\ x \notin u.stale
    <3> HIDE DEF r
    <3>1. x \notin u.locks => x # r /\ x \notin t.locks
      BY <1>1
    <3>2. x \notin t.locks => t.qty[x] = 0 /\ t.value[x] = 0 /\ x \notin t.stale
      BY <2>0 DEF VersionKept
    <3> QED BY <1>1, <3>1, <3>2
  <2>9. ASSUME x \in u.locks \ u.stale PROVE u.own[x].qty = balance[x].qty + u.qty[x]
    <3>1. CASE x # r
      <4>1. /\ x \in t.locks \ t.stale /\ u.own[x] = t.own[x]
            /\ u.qty[x] = t.qty[x] + 0 /\ t.qty[x] \in Int
        BY <1>1, <1>2, <2>9, <3>1 DEF Request
      <4> QED BY <2>0, <4>1 DEF VersionKept
    <3>2. CASE x = r
      <4>1. /\ x \notin t.stale /\ t.seen = Visible(s, x)
            /\ u.own[x].qty = t.seen.qty + quantity /\ u.qty[x] = t.qty[x] + quantity
        BY <1>1, <2>9, <3>2
      <4>2. balance[x].qty \in Int /\ t.qty[x] \in Int /\ t.seen.qty \in Int
        BY <1>2 DEF Balance, Request
      <4>3. t.seen.qty = balance[x].qty + t.qty[x]
        BY <2>0, <4>1, <4>2 DEF VersionKept, Visible
      <4> QED BY <4>1, <4>2, <4>3
    <3> QED BY <3>1, <3>2
  <2> QED BY <1>1, <1>3, <2>7, <2>8, <2>9 DEF VersionKept, u
<1> QED BY <1>1, <1>4, <1>5, <1>6, OneSession

\* What the session that is about to write works on.
LEMMA WritingFacts ==
  ASSUME InventoryInv, NEW s \in Sessions, sess[s].pc = "write"
  PROVE  /\ Posting(s) /\ sess[s].doc \in Docs /\ sess[s].at \in Lines(sess[s].doc)
         /\ LineOf(s).row \in Stock /\ LineOf(s).quantity \in Nat /\ LineOf(s).cost \in Nat
         /\ Doc[sess[s].doc].kind # "stock_count" => LineOf(s).quantity > 0
         /\ sess[s].seen \in Balance /\ Visible(s, LineOf(s).row) \in Balance
         /\ sess[s].seen.qty \in Int /\ sess[s].seen.avg \in Int
         /\ Variance(sess[s].doc, sess[s].at) \in Int
         /\ LineOf(s) = Doc[sess[s].doc].lines[sess[s].at]
<1>1. Posting(s) /\ sess[s].doc \in Docs /\ sess[s].at \in Lines(sess[s].doc)
  BY DEF InventoryInv, InOrder, Posting
<1>2. /\ LineOf(s).row \in Stock /\ LineOf(s).quantity \in Nat /\ LineOf(s).cost \in Nat
      /\ Doc[sess[s].doc].kind # "stock_count" => LineOf(s).quantity > 0
  BY <1>1, DocFacts DEF LineOf
<1>3. sess[s].seen \in Balance /\ Visible(s, LineOf(s).row) \in Balance
  BY <1>2, VisibleType DEF InventoryInv
<1>4. Variance(sess[s].doc, sess[s].at) \in Int
  <2>1. expected \in [Docs -> [1..MaxLines -> Int]]
    BY DEF InventoryInv, TypeOK
  <2>2. sess[s].at \in 1..MaxLines
    BY <1>1, DocFacts
  <2>3. PICK d \in Docs : d = sess[s].doc
    BY <1>1
  <2>4. PICK k \in 1..MaxLines : k = sess[s].at
    BY <2>2
  <2>5. expected[d][k] \in Int /\ Doc[d].lines[k].quantity \in Nat
    BY <1>2, <2>1, <2>3, <2>4 DEF LineOf
  <2>6. Doc[d].lines[k].quantity - expected[d][k] \in Int
    BY <2>5
  <2> QED BY <2>3, <2>4, <2>6 DEF Variance
<1> QED BY <1>1, <1>2, <1>3, <1>4 DEF Balance, LineOf

LEMMA ReceiveFacts ==
  ASSUME InventoryInv, NEW s \in Sessions, Receive(s)
  PROVE  LET l == LineOf(s)
             new == StockIn(sess[s].seen, Visible(s, l.row), l)
         IN  /\ sess[s].pc = "write" /\ Doc[sess[s].doc].kind = "goods_receipt"
             /\ new \in Balance /\ new.qty = sess[s].seen.qty + l.quantity
             /\ l.quantity = LineEffect(sess[s].doc, sess[s].at, l.row)
             /\ Move(s, new, l.quantity, l.cost)
<1> DEFINE l == LineOf(s)
           seen == sess[s].seen
           new == StockIn(seen, Visible(s, l.row), l)
<1>1. sess[s].pc = "write" /\ Doc[sess[s].doc].kind = "goods_receipt"
  BY DEF Receive, Writing
<1>2. l.quantity \in Nat /\ l.cost \in Nat /\ seen.qty \in Int /\ seen.avg \in Int
  BY <1>1, WritingFacts
<1>3. new \in Balance /\ new.qty = seen.qty + l.quantity
  <2>1. seen.qty * seen.avg + l.quantity * l.cost \in Int
    BY <1>2, Products
  <2>2. seen.qty + l.quantity > 0 =>
          Round(seen.qty * seen.avg + l.quantity * l.cost, seen.qty + l.quantity) \in Int
    <3> DEFINE n == seen.qty * seen.avg + l.quantity * l.cost  d == seen.qty + l.quantity
    <3>1. SUFFICES ASSUME d > 0 PROVE Round(n, d) \in Int
      OBVIOUS
    <3>2. n \in Int /\ d \in Nat \ {0}
      BY <1>2, <2>1, <3>1
    <3> HIDE DEF n, d
    <3> QED BY <3>2, RoundBounds
  <2> QED BY <1>2, <2>2 DEF StockIn, Balance
<1>4. l.quantity = LineEffect(sess[s].doc, sess[s].at, l.row)
  BY <1>1, WritingFacts DEF LineEffect
<1>5. Move(s, new, l.quantity, l.cost)
  BY DEF Receive
<1> QED BY <1>1, <1>3, <1>4, <1>5

LEMMA DeliverFacts ==
  ASSUME InventoryInv, NEW s \in Sessions, Deliver(s)
  PROVE  LET l == LineOf(s)
             new == StockOut(sess[s].seen, Visible(s, l.row), l)
         IN  /\ sess[s].pc = "write" /\ Doc[sess[s].doc].kind = "delivery"
             /\ new \in Balance /\ new.qty = sess[s].seen.qty + (-l.quantity)
             /\ new.qty >= 0 /\ new.avg = Visible(s, l.row).avg
             /\ -l.quantity = LineEffect(sess[s].doc, sess[s].at, l.row)
             /\ Move(s, new, -l.quantity, sess[s].seen.avg)
<1> DEFINE l == LineOf(s)
           seen == sess[s].seen
           now == Visible(s, l.row)
           new == StockOut(seen, now, l)
<1>1. sess[s].pc = "write" /\ Doc[sess[s].doc].kind = "delivery"
  BY DEF Deliver, Writing
<1>2. l.quantity \in Nat /\ seen.qty \in Int /\ now \in Balance
  BY <1>1, WritingFacts
<1>3. seen.qty >= l.quantity
  BY DEF Deliver, Suffices
<1>4. /\ new \in Balance /\ new.qty = seen.qty + (-l.quantity)
      /\ new.qty >= 0 /\ new.avg = now.avg
  BY <1>2, <1>3 DEF StockOut, Balance
<1>5. -l.quantity = LineEffect(sess[s].doc, sess[s].at, l.row)
  BY <1>1, WritingFacts DEF LineEffect
<1>6. Move(s, new, -l.quantity, seen.avg)
  BY DEF Deliver
<1> QED BY <1>1, <1>4, <1>5, <1>6

LEMMA AdjustFacts ==
  ASSUME InventoryInv, NEW s \in Sessions, Adjust(s)
  PROVE  LET l == LineOf(s)
             delta == Variance(sess[s].doc, sess[s].at)
             new == Adjusted(sess[s].seen, Visible(s, l.row), delta)
         IN  /\ sess[s].pc = "write" /\ Doc[sess[s].doc].kind = "stock_count"
             /\ delta \in Int /\ delta = LineEffect(sess[s].doc, sess[s].at, l.row)
             /\ new \in Balance /\ new.qty = sess[s].seen.qty + delta
             /\ new.avg = Visible(s, l.row).avg
             /\ \/ delta = 0 /\ Become(s, Onward(sess[s]))
                \/ Move(s, new, delta, sess[s].seen.avg)
<1> DEFINE l == LineOf(s)
           seen == sess[s].seen
           now == Visible(s, l.row)
           delta == Variance(sess[s].doc, sess[s].at)
           new == Adjusted(seen, now, delta)
<1>1. sess[s].pc = "write" /\ Doc[sess[s].doc].kind = "stock_count"
  BY DEF Adjust, Writing
<1>2. delta \in Int /\ seen.qty \in Int /\ now \in Balance
  BY <1>1, WritingFacts
<1>3. delta = LineEffect(sess[s].doc, sess[s].at, l.row)
  BY <1>1, WritingFacts DEF LineEffect
<1>4. \/ delta = 0 /\ Become(s, Onward(sess[s]))
      \/ Move(s, new, delta, seen.avg)
  BY DEF Adjust
<1> HIDE DEF delta
<1>5. new \in Balance /\ new.qty = seen.qty + delta /\ new.avg = now.avg
  BY <1>2 DEF Adjusted, Balance
<1> QED BY <1>1, <1>2, <1>3, <1>4, <1>5 DEF delta

\* A counted line that finds what was captured only goes on to the next.
LEMMA SkipFacts ==
  ASSUME InventoryInv, NEW s \in Sessions, sess[s].pc = "write", Become(s, Onward(sess[s]))
  PROVE  /\ sess'[s] \in Request /\ Become(s, sess'[s]) /\ sess'[s].doc = sess[s].doc
         /\ sess'[s].locks = sess[s].locks /\ sess'[s].own = sess[s].own
         /\ sess'[s].qty = sess[s].qty /\ sess'[s].value = sess[s].value
         /\ sess'[s].stale = sess[s].stale
         /\ sess'[s].at \in Lines(sess[s].doc) /\ sess'[s].pc \in {"read", "commit"}
         /\ Done(s) \in SUBSET Lines(sess[s].doc) /\ sess[s].at \notin Done(s)
         /\ Done(s)' = Done(s) \cup {sess[s].at}
<1> DEFINE t == sess[s]  u == Onward(t)
<1>1. t \in Request /\ t.doc \in Docs /\ t.at \in {0} \cup Lines(t.doc)
  BY WritingFacts DEF InventoryInv, TypeOK
<1>2. /\ u \in Request /\ u.doc = t.doc /\ u.locks = t.locks /\ u.own = t.own
      /\ u.qty = t.qty /\ u.value = t.value /\ u.stale = t.stale /\ u.at \in Lines(t.doc)
      /\ \/ u.pc = "commit" /\ u.at = t.at /\ t.at = Last(t.doc)
         \/ u.pc = "read" /\ u.at = t.at + 1 /\ t.at < Last(t.doc)
  BY <1>1, OnwardFacts
<1> HIDE DEF u
<1>3. sess'[s] = u /\ Become(s, u)
  BY DEF Become, InventoryInv, TypeOK, u
<1>4. /\ Done(s) \subseteq Lines(t.doc) /\ t.at \notin Done(s) /\ Done(s)' = Done(s) \cup {t.at}
  BY <1>2, <1>3, DoneOneMore
<1> QED BY <1>2, <1>3, <1>4

LEMMA SkipKeeps ==
  ASSUME InventoryInv, NEW s \in Sessions, sess[s].pc = "write", Become(s, Onward(sess[s])),
         LineEffect(sess[s].doc, sess[s].at, LineOf(s).row) = 0
  PROVE  InventoryInv'
<1> DEFINE t == sess[s]  u == sess'[s]
<1>1. /\ u \in Request /\ Become(s, u) /\ u.doc = t.doc
      /\ u.locks = t.locks /\ u.own = t.own /\ u.qty = t.qty /\ u.value = t.value
      /\ u.stale = t.stale /\ u.at \in Lines(t.doc) /\ u.pc \in {"read", "commit"}
      /\ Done(s) \in SUBSET Lines(t.doc) /\ t.at \notin Done(s)
      /\ Done(s)' = Done(s) \cup {t.at}
  BY SkipFacts
<1>2. /\ InOrder(s) /\ Posting(s) /\ expected \in [Docs -> [1..MaxLines -> Int]]
      /\ t.doc \in Docs /\ t.at \in Lines(t.doc) /\ LineOf(s) = Doc[t.doc].lines[t.at]
  BY WritingFacts DEF InventoryInv, TypeOK
<1>3. /\ status' = status /\ expected' = expected /\ balance' = balance
      /\ \A v \in Sessions \ {s} : sess'[v] = sess[v]
  BY <1>1 DEF Become, tables, InventoryInv, TypeOK
<1>4. InOrder(s)'
  BY <1>1, <1>2, <1>3 DEF InOrder, Posting, Counting, Lines
<1>5. \A v \in Sessions \ {s} : Counting(v) => u.doc # sess[v].doc
  BY <1>1, <1>2 DEF InventoryInv, InOrder
<1>6. ASSUME NEW x \in Stock PROVE VersionKept(s, x)'
  <2>0. VersionKept(s, x)
    BY <1>2 DEF InventoryInv
  <2>1. PICK d \in Docs : d = t.doc
    BY <1>2
  <2>2. PICK some \in SUBSET Lines(d) : some = Done(s)
    BY <1>1, <2>1
  <2>3. PICK k \in Lines(d) \ some : k = t.at
    BY <1>1, <1>2, <2>1, <2>2
  <2>4. /\ Effect(d, x, some \cup {k}) = Effect(d, x, some) + LineEffect(d, k, x)
        /\ Effect(d, x, some \cup {k})' = Effect(d, x, some \cup {k})
        /\ Effect(d, x, some) \in Int
    <3>1. some \cup {k} \in SUBSET Lines(d)
      OBVIOUS
    <3> QED BY <1>2, <1>3, <3>1, EffectOfOneMore, EffectSame, EffectIsInteger
  <2>5. LineEffect(d, k, x) = 0
    <3>1. CASE x = LineOf(s).row
      BY <2>1, <2>3, <3>1
    <3>2. CASE x # LineOf(s).row
      BY <1>2, <2>1, <2>3, <3>2 DEF LineEffect
    <3> QED BY <3>1, <3>2
  <2>6. Effect(d, x, some \cup {k})' = Effect(d, x, some)
    BY <2>4, <2>5
  <2>7. Effect(sess[s].doc, x, Done(s))' = Effect(sess[s].doc, x, Done(s))
    BY <1>1, <2>1, <2>2, <2>3, <2>6
  <2> QED BY <1>1, <1>3, <2>0, <2>7 DEF VersionKept
<1> QED BY <1>1, <1>4, <1>5, <1>6, OneSession

LEMMA LineKeeps ==
  ASSUME InventoryInv, NEW s \in Sessions, Receive(s) \/ Deliver(s) \/ Adjust(s)
  PROVE  InventoryInv'
<1>1. CASE Receive(s)
  <2> DEFINE l == LineOf(s)  new == StockIn(sess[s].seen, Visible(s, l.row), l)
  <2>1. /\ sess[s].pc = "write" /\ new \in Balance /\ new.qty = sess[s].seen.qty + l.quantity
        /\ l.quantity = LineEffect(sess[s].doc, sess[s].at, l.row)
        /\ Move(s, new, l.quantity, l.cost)
    BY <1>1, ReceiveFacts
  <2>2. l.quantity \in Int /\ l.cost \in Int
    BY <2>1, WritingFacts
  <2> HIDE DEF new
  <2> QED BY <2>1, <2>2, MoveKeeps
<1>2. CASE Deliver(s)
  <2> DEFINE l == LineOf(s)  new == StockOut(sess[s].seen, Visible(s, l.row), l)  q == -l.quantity
  <2>1. /\ sess[s].pc = "write" /\ new \in Balance /\ new.qty = sess[s].seen.qty + q
        /\ q = LineEffect(sess[s].doc, sess[s].at, l.row)
        /\ Move(s, new, q, sess[s].seen.avg)
    BY <1>2, DeliverFacts
  <2>2. q \in Int /\ sess[s].seen.avg \in Int
    BY <2>1, WritingFacts
  <2> HIDE DEF new, q
  <2> QED BY <2>1, <2>2, MoveKeeps
<1>3. CASE Adjust(s)
  <2> DEFINE l == LineOf(s)  delta == Variance(sess[s].doc, sess[s].at)
             new == Adjusted(sess[s].seen, Visible(s, l.row), delta)
  <2>1. /\ sess[s].pc = "write" /\ delta \in Int
        /\ delta = LineEffect(sess[s].doc, sess[s].at, l.row)
        /\ new \in Balance /\ new.qty = sess[s].seen.qty + delta
        /\ \/ delta = 0 /\ Become(s, Onward(sess[s]))
           \/ Move(s, new, delta, sess[s].seen.avg)
    BY <1>3, AdjustFacts
  <2>2. sess[s].seen.avg \in Int
    BY <2>1, WritingFacts
  <2> HIDE DEF new, delta
  <2> QED BY <2>1, <2>2, MoveKeeps, SkipKeeps
<1> QED BY <1>1, <1>2, <1>3

LEMMA CommitFacts ==
  ASSUME InventoryInv, NEW s \in Sessions, Commit(s)
  PROVE  /\ Posting(s) /\ sess[s].doc \in Docs /\ sess[s] \in Request /\ status[sess[s].doc] # "absent"
         /\ Done(s) = Lines(sess[s].doc)
         /\ sess' = [sess EXCEPT ![s] = Idle] /\ sess'[s] = Idle /\ expected' = expected
         /\ \A u \in Sessions \ {s} : sess'[u] = sess[u]
         /\ \A d \in Docs : /\ status'[d] = IF d = sess[s].doc THEN "posted" ELSE status[d]
                            /\ postings'[d] = postings[d] + (IF d = sess[s].doc THEN 1 ELSE 0)
         /\ \A r \in Stock :
              /\ balance'[r] = IF r \in sess[s].locks THEN sess[s].own[r] ELSE balance[r]
              /\ moved'[r] = moved[r] + sess[s].qty[r]
              /\ worth'[r] = worth[r] + sess[s].value[r]
         /\ raced' = raced \cup sess[s].stale
<1>1. /\ sess[s] \in Request /\ InOrder(s) /\ sess[s].pc = "commit" /\ Posting(s)
      /\ postings \in [Docs -> Nat] /\ status \in [Docs -> {"absent", "draft", "posted"}]
      /\ sess \in [Sessions -> Request]
  BY DEF Commit, InventoryInv, TypeOK, Posting
<1>2. sess[s].doc \in Docs /\ status[sess[s].doc] # "absent"
  BY <1>1 DEF InOrder
<1>3. Done(s) = Lines(sess[s].doc)
  BY <1>1 DEF Done
<1>4. /\ status' = [status EXCEPT ![sess[s].doc] = "posted"]
      /\ postings' = [postings EXCEPT ![sess[s].doc] = @ + 1]
      /\ sess' = [sess EXCEPT ![s] = Idle] /\ expected' = expected
      /\ raced' = raced \cup sess[s].stale
  BY DEF Commit
<1>5. \A r \in Stock :
        /\ balance'[r] = IF r \in sess[s].locks THEN sess[s].own[r] ELSE balance[r]
        /\ moved'[r] = moved[r] + sess[s].qty[r]
        /\ worth'[r] = worth[r] + sess[s].value[r]
  BY DEF Commit
<1>6. \A d \in Docs : /\ status'[d] = IF d = sess[s].doc THEN "posted" ELSE status[d]
                      /\ postings'[d] = postings[d] + (IF d = sess[s].doc THEN 1 ELSE 0)
  BY <1>1, <1>4
<1> QED BY <1>1, <1>2, <1>3, <1>4, <1>5, <1>6

LEMMA CommitKeeps ==
  ASSUME InventoryInv, NEW s \in Sessions, Commit(s)
  PROVE  InventoryInv'
<1> DEFINE t == sess[s]
<1>1. /\ Posting(s) /\ t.doc \in Docs /\ t \in Request /\ status[t.doc] # "absent"
      /\ sess' = [sess EXCEPT ![s] = Idle] /\ sess'[s] = Idle /\ expected' = expected
      /\ \A u \in Sessions \ {s} : sess'[u] = sess[u]
      /\ \A d \in Docs : /\ status'[d] = IF d = t.doc THEN "posted" ELSE status[d]
                         /\ postings'[d] = postings[d] + (IF d = t.doc THEN 1 ELSE 0)
      /\ \A r \in Stock :
           /\ balance'[r] = IF r \in t.locks THEN t.own[r] ELSE balance[r]
           /\ moved'[r] = moved[r] + t.qty[r]
           /\ worth'[r] = worth[r] + t.value[r]
      /\ raced' = raced \cup t.stale
  BY CommitFacts
<1>2. TypeOK'
  <2>1. /\ balance' = [r \in Stock |-> IF r \in t.locks THEN t.own[r] ELSE balance[r]]
        /\ moved' = [r \in Stock |-> moved[r] + t.qty[r]]
        /\ worth' = [r \in Stock |-> worth[r] + t.value[r]]
        /\ status' = [status EXCEPT ![t.doc] = "posted"]
        /\ postings' = [postings EXCEPT ![t.doc] = @ + 1]
    BY DEF Commit
  <2>2. /\ t.own \in [Stock -> Balance] /\ t.qty \in [Stock -> Int] /\ t.value \in [Stock -> Int]
        /\ t.stale \subseteq Stock
    BY <1>1 DEF Request
  <2>3. balance' \in [Stock -> Balance] /\ moved' \in [Stock -> Int] /\ worth' \in [Stock -> Int]
    BY <2>1, <2>2 DEF InventoryInv, TypeOK
  <2>4. status' \in [Docs -> {"absent", "draft", "posted"}] /\ postings' \in [Docs -> Nat]
    BY <1>1, <2>1 DEF InventoryInv, TypeOK
  <2> QED BY <1>1, <2>2, <2>3, <2>4, IdleFacts DEF InventoryInv, TypeOK
<1>3. InOrder(s)' /\ ~Posting(s)'
  BY <1>1, IdleFacts DEF InOrder, Posting, Counting
<1>4. ASSUME NEW u \in Sessions \ {s} PROVE InOrder(u)'
  <2>1. InOrder(u)
    BY DEF InventoryInv
  <2>2. Counting(u) => /\ sess[u].doc \in Docs \ {t.doc} /\ sess'[s].doc # sess[u].doc
                       /\ status'[sess[u].doc] = status[sess[u].doc]
    BY <1>1, <2>1, IdleFacts, InventoryAssumption DEF InOrder
  <2>3. Posting(u) => status'[sess[u].doc] # "absent"
    BY <1>1, <2>1 DEF InOrder
  <2>4. sess[u].locks \cap sess'[s].locks = {} /\ sess' = [sess EXCEPT ![s] = sess'[s]]
    BY <1>1, IdleFacts
  <2> QED BY <2>2, <2>3, <2>4, OrderKept
<1>5. ASSUME NEW u \in Sessions \ {s}, Posting(u)' PROVE \A r \in Stock : VersionKept(u, r)'
  <2>1. Posting(u)
    BY <1>1, <1>5 DEF Posting
  <2>2. \A r \in sess[u].locks : r \in Stock /\ r \notin t.locks
    BY DEF InventoryInv, InOrder, TypeOK, Request
  <2> QED BY <1>1, <2>1, <2>2, VersionsKept
<1>6. \A d \in Docs : status'[d] = "absent" => postings'[d] = 0
  <2>1. \A d \in Docs : status[d] = "absent" => postings[d] = 0
    BY DEF InventoryInv
  <2> QED BY <1>1, <2>1
<1>7. OnlyRacesLoseMoves'
  <2> SUFFICES ASSUME NEW r \in Stock \ raced' PROVE balance'[r].qty = moved'[r]
    BY DEF OnlyRacesLoseMoves
  <2>1. r \notin raced /\ r \notin t.stale
    BY <1>1
  <2>2. balance[r].qty = moved[r] /\ VersionKept(s, r)
    BY <1>1, <2>1 DEF InventoryInv, OnlyRacesLoseMoves
  <2>3. moved[r] \in Int /\ t.qty[r] \in Int
    BY <1>1 DEF InventoryInv, TypeOK, Request
  <2> QED BY <1>1, <2>1, <2>2, <2>3 DEF VersionKept
<1> QED BY <1>2, <1>3, <1>4, <1>5, <1>6, <1>7 DEF InventoryInv

LEMMA InventoryStep == InventoryInv /\ [Next]_vars => InventoryInv'
<1> SUFFICES ASSUME InventoryInv, [Next]_vars PROVE InventoryInv'
  OBVIOUS
<1>1. CASE UNCHANGED vars
  <2>1. /\ UNCHANGED <<status, expected, balance, moved, worth, postings, raced, sess>>
    BY <1>1 DEF vars, tables
  <2>2. TypeOK' /\ OnlyRacesLoseMoves'
    BY <2>1 DEF InventoryInv, TypeOK, OnlyRacesLoseMoves
  <2>3. \A s \in Sessions : InOrder(s)'
    BY <2>1 DEF InventoryInv, InOrder, Counting, Posting, Lines
  <2>4. ASSUME NEW s \in Sessions, Posting(s)' PROVE \A r \in Stock : VersionKept(s, r)'
    <3>1. Posting(s)
      BY <2>1, <2>4 DEF Posting
    <3> QED BY <2>1, <3>1, VersionsKept
  <2> QED BY <2>1, <2>2, <2>3, <2>4 DEF InventoryInv
<1>2. CASE \E d \in Docs : CreateReceipt(d) \/ CreateDelivery(d)
  BY <1>2, CreateKeeps
<1>3. ASSUME NEW s \in Sessions, NEW d \in Docs, BeginCount(s, d) \/ BeginPost(s, d)
      PROVE  InventoryInv'
  BY <1>3, BeginCountKeeps, BeginPostKeeps
<1>4. ASSUME NEW s \in Sessions, Step(s)
      PROVE  InventoryInv'
  <2>1. CASE Refuse(s)
    BY <2>1, IdleKeeps DEF Refuse
  <2> QED BY <1>4, <2>1, CaptureKeeps, CreateCountKeeps, ReadBalanceKeeps, LineKeeps, CommitKeeps
          DEF Step
<1>5. ASSUME NEW s \in Sessions, Victim(s) \/ Abort(s)
      PROVE  InventoryInv'
  BY <1>5, IdleKeeps DEF Victim, Abort
<1> QED BY <1>1, <1>2, <1>3, <1>4, <1>5 DEF Next

-----------------------------------------------------------------------------
(***************************************************************************)
(* Quantities and costs.                                                   *)
(***************************************************************************)
LEMMA ArrivalFacts ==
  ASSUME NEW d \in Docs, NEW r \in Stock, NEW some \in SUBSET Lines(d)
  PROVE  /\ Cardinality(Arrivals(d, r, some)) \in Nat
         /\ Doc[d].kind # "goods_receipt" => Cardinality(Arrivals(d, r, some)) = 0
         /\ \A k \in Lines(d) \ some :
              Cardinality(Arrivals(d, r, some \cup {k})) =
                Cardinality(Arrivals(d, r, some)) +
                  (IF Doc[d].kind = "goods_receipt" /\ Doc[d].lines[k].row = r THEN 1 ELSE 0)
<1>1. IsFiniteSet(Arrivals(d, r, some))
  BY DocFacts, FS_Subset DEF Arrivals
<1>2. Doc[d].kind # "goods_receipt" => Arrivals(d, r, some) = {}
  BY DEF Arrivals
<1>3. ASSUME NEW k \in Lines(d) \ some
      PROVE  Cardinality(Arrivals(d, r, some \cup {k})) =
               Cardinality(Arrivals(d, r, some)) +
                 (IF Doc[d].kind = "goods_receipt" /\ Doc[d].lines[k].row = r THEN 1 ELSE 0)
  <2>1. Cardinality(Arrivals(d, r, some)) \in Nat
    BY <1>1, FS_CardinalityType
  <2>2. CASE Doc[d].kind = "goods_receipt" /\ Doc[d].lines[k].row = r
    <3>1. /\ Arrivals(d, r, some \cup {k}) = Arrivals(d, r, some) \cup {k}
          /\ k \notin Arrivals(d, r, some)
      BY <1>3, <2>2 DEF Arrivals
    <3> QED BY <1>1, <2>1, <2>2, <3>1, FS_AddElement
  <2>3. CASE ~(Doc[d].kind = "goods_receipt" /\ Doc[d].lines[k].row = r)
    <3>1. Arrivals(d, r, some \cup {k}) = Arrivals(d, r, some)
      BY <1>3, <2>3 DEF Arrivals
    <3> QED BY <2>1, <2>3, <3>1
  <2> QED BY <2>2, <2>3
<1> QED BY <1>1, <1>2, <1>3, FS_CardinalityType, FS_EmptySet

\* Unit costs are natural numbers, what is priced by some of them is so by more, and
\* a blend of stock at a price somebody paid with one more line is again at such a price.
LEMMA CostIsNatural ==
  ASSUME NEW d \in Docs, NEW r, NEW some \in SUBSET Lines(d)
  PROVE  CostsOf(d, r, some) \subseteq Nat
<1> SUFFICES ASSUME NEW k \in Arrivals(d, r, some) PROVE Doc[d].lines[k].cost \in Nat
  BY DEF CostsOf
<1>1. k \in Lines(d)
  BY DEF Arrivals
<1> QED BY <1>1, DocFacts

LEMMA CostsAreNatural == \A r \in Stock : Costs(r) \subseteq Nat
<1> SUFFICES ASSUME NEW r \in Stock, NEW d \in Docs PROVE CostsOf(d, r, Lines(d)) \subseteq Nat
  BY DEF Costs
<1> QED BY CostIsNatural

LEMMA PricedByMore ==
  ASSUME NEW some, NEW more, some \subseteq more, NEW a, PricedBy(some, a)
  PROVE  PricedBy(more, a)
BY DEF PricedBy

LEMMA BlendIsPriced ==
  ASSUME NEW costs \in SUBSET Nat, NEW d \in Docs, NEW k \in Lines(d),
         Doc[d].kind = "goods_receipt", Doc[d].lines[k].cost \in costs,
         NEW q \in Nat, NEW a \in Int, q > 0 => PricedBy(costs, a)
  PROVE  LET l == Doc[d].lines[k]
         IN  PricedBy(costs, Round(q * a + l.quantity * l.cost, q + l.quantity))
<1> DEFINE l == Doc[d].lines[k]
           x == Round(q * a + l.quantity * l.cost, q + l.quantity)
<1>2. l.quantity \in Nat \ {0} /\ l.cost \in Nat
  BY DocFacts
<1>3. l.cost \in costs
  OBVIOUS
<1>4. \A m \in Int : /\ ((m <= a \/ q = 0) /\ m <= l.cost) => m <= x
                     /\ ((a <= m \/ q = 0) /\ l.cost <= m) => x <= m
  <2> DEFINE n == l.quantity  c == l.cost
  <2>1. n \in Nat \ {0} /\ c \in Int
    BY <1>2
  <2> HIDE DEF l, n, c
  <2>2. \A m \in Int : /\ ((m <= a \/ q = 0) /\ m <= c) => m <= Round(q * a + n * c, q + n)
                       /\ ((a <= m \/ q = 0) /\ c <= m) => Round(q * a + n * c, q + n) <= m
    BY <2>1, AverageBetween
  <2> QED BY <2>2 DEF n, c
<1> HIDE DEF x, l
<1>5. \E c \in costs : c <= x
  <2>1. CASE q = 0
    BY <1>2, <1>3, <1>4, <2>1
  <2>2. CASE q > 0
    <3>1. PICK c \in costs : c <= a
      BY <2>2 DEF PricedBy
    <3>2. c \in Nat
      OBVIOUS
    <3>3. CASE c <= l.cost
      BY <1>4, <3>1, <3>2, <3>3
    <3>4. CASE l.cost <= c
      <4>1. l.cost <= a
        BY <1>2, <3>1, <3>2, <3>4
      <4> QED BY <1>2, <1>3, <1>4, <4>1
    <3> QED BY <1>2, <3>2, <3>3, <3>4
  <2> QED BY <2>1, <2>2
<1>6. \E c \in costs : x <= c
  <2>1. CASE q = 0
    BY <1>2, <1>3, <1>4, <2>1
  <2>2. CASE q > 0
    <3>1. PICK c \in costs : a <= c
      BY <2>2 DEF PricedBy
    <3>2. c \in Nat
      OBVIOUS
    <3>3. CASE l.cost <= c
      BY <1>4, <3>1, <3>2, <3>3
    <3>4. CASE c <= l.cost
      <4>1. a <= l.cost
        BY <1>2, <3>1, <3>2, <3>4
      <4> QED BY <1>2, <1>3, <1>4, <4>1
    <3> QED BY <1>2, <3>2, <3>3, <3>4
  <2> QED BY <2>1, <2>2
<1> QED BY <1>5, <1>6 DEF PricedBy, x, l

LEMMA StockInit == Init => StockInv
<1> SUFFICES ASSUME Init PROVE StockInv
  OBVIOUS
<1>1. InventoryInv
  BY InventoryInit
<1>2. /\ \A s \in Sessions : ~Posting(s)
      /\ \A r \in Stock : balance[r] = NoStock /\ moved[r] = 0 /\ worth[r] = 0
      /\ \A d \in Docs : postings[d] = 0
  BY IdleFacts DEF Init, Posting
<1>3. ASSUME NEW r \in Stock PROVE Pieces(r) = 0 /\ Receipts(r) = 0
  <2> DEFINE f == [d \in Docs |-> IF Effect(d, r, Lines(d)) > 0
                                  THEN postings[d] * Effect(d, r, Lines(d)) ELSE 0]
             g == [d \in Docs |-> postings[d] * Cardinality(Arrivals(d, r, Lines(d)))]
  <2>1. \A n \in Int : 0 * n = 0
    OBVIOUS
  <2>2. \A d \in Docs : /\ Effect(d, r, Lines(d)) \in Int
                        /\ Cardinality(Arrivals(d, r, Lines(d))) \in Int
    BY <1>1, EffectIsInteger, ArrivalFacts DEF InventoryInv, TypeOK
  <2>3. \A d \in Docs : f[d] = 0 /\ g[d] = 0
    BY <1>2, <2>1, <2>2
  <2> HIDE DEF f, g
  <2>4. SumFunctionOnSet(f, Docs) = 0 /\ SumFunctionOnSet(g, Docs) = 0
    BY <2>3, SumZero, InventoryAssumption
  <2> QED BY <2>4 DEF Pieces, Receipts, f, g
<1>4. NeverNegative /\ AverageWithinCosts
  BY <1>2 DEF NeverNegative, AverageWithinCosts, NoStock, Uncounted
<1>5. ValueInStep
  <2>1. \A r \in Stock : Receipts(r) * Pieces(r) = 0 /\ balance[r].qty * balance[r].avg - worth[r] = 0
    BY <1>2, <1>3 DEF NoStock
  <2> QED BY <2>1 DEF ValueInStep, Uncounted
<1> QED BY <1>2, <1>3, <1>4, <1>5 DEF StockInv

\* A count that is posted stays posted, and its variances with it.
LEMMA UncountedShrinks ==
  ASSUME InventoryInv, TypeOK', \A d \in Docs : postings[d] <= postings'[d],
         \A d \in Docs : expected'[d] = expected[d] \/ postings[d] = 0
  PROVE  Uncounted' \subseteq Uncounted
<1> SUFFICES ASSUME NEW r \in Uncounted', NEW d \in Docs,
                    Doc[d].kind = "stock_count", postings[d] > 0
             PROVE  r \in Stock /\ Effect(d, r, Lines(d)) = 0
  BY DEF Uncounted
<1>1. r \in Stock /\ postings[d] \in Nat /\ postings'[d] \in Nat
  BY DEF Uncounted, InventoryInv, TypeOK
<1>2. postings'[d] > 0 /\ expected'[d] = expected[d]
  BY <1>1
<1>3. Effect(d, r, Lines(d))' = 0
  BY <1>2 DEF Uncounted
<1>4. PICK some \in SUBSET Lines(d) : some = Lines(d)
  OBVIOUS
<1>5. Effect(d, r, some)' = Effect(d, r, some)
  BY <1>2, EffectSame
<1>6. Lines(d)' = Lines(d)
  BY DEF Lines
<1> QED BY <1>1, <1>3, <1>4, <1>5, <1>6

\* What was received is a number that a count's capture does not change.
LEMMA ReceivedType ==
  ASSUME TypeOK, NEW r \in Stock
  PROVE  Receipts(r) \in Nat /\ Pieces(r) \in Nat
<1> DEFINE f == [d \in Docs |-> IF Effect(d, r, Lines(d)) > 0
                                THEN postings[d] * Effect(d, r, Lines(d)) ELSE 0]
           g == [d \in Docs |-> postings[d] * Cardinality(Arrivals(d, r, Lines(d)))]
<1>1. \A d \in Docs : /\ Effect(d, r, Lines(d)) \in Int /\ postings[d] \in Nat
                      /\ Cardinality(Arrivals(d, r, Lines(d))) \in Nat
  BY EffectIsInteger, ArrivalFacts DEF TypeOK
<1>2. \A d \in Docs : f[d] \in Nat /\ g[d] \in Nat
  <2> TAKE d \in Docs
  <2> DEFINE e == Effect(d, r, Lines(d))
  <2>1. postings[d] * Cardinality(Arrivals(d, r, Lines(d))) \in Nat
    BY <1>1, Products
  <2>2. e > 0 => postings[d] * e \in Nat
    <3>1. e > 0 => e \in Nat
      BY <1>1
    <3> HIDE DEF e
    <3> QED BY <1>1, <3>1, Products
  <2> QED BY <2>1, <2>2
<1> HIDE DEF f, g
<1>3. SumFunctionOnSet(f, Docs) \in Nat /\ SumFunctionOnSet(g, Docs) \in Nat
  BY <1>2, SumNatural, InventoryAssumption
<1> QED BY <1>3 DEF Receipts, Pieces, f, g

LEMMA ReceivedKept ==
  ASSUME TypeOK, TypeOK', NEW r \in Stock, postings' = postings,
         \A d \in Docs : expected'[d] = expected[d] \/ postings[d] = 0
  PROVE  Receipts(r)' = Receipts(r) /\ Pieces(r)' = Pieces(r)
<1> DEFINE f == [d \in Docs |-> IF Effect(d, r, Lines(d)) > 0
                                THEN postings[d] * Effect(d, r, Lines(d)) ELSE 0]
           g == [d \in Docs |-> IF Effect(d, r, Lines(d))' > 0
                                THEN postings[d] * Effect(d, r, Lines(d))' ELSE 0]
<1>1. ASSUME NEW d \in Docs PROVE f[d] = g[d]
  <2>1. PICK some \in SUBSET Lines(d) : some = Lines(d)
    OBVIOUS
  <2>2. Lines(d)' = Lines(d)
    BY DEF Lines
  <2>3. Effect(d, r, some) \in Int /\ Effect(d, r, some)' \in Int
    <3>1. expected \in [Docs -> [1..MaxLines -> Int]] /\ expected' \in [Docs -> [1..MaxLines -> Int]]
      BY DEF TypeOK
    <3>2. expected' \in [Docs -> [1..MaxLines -> Int]] => Effect(d, r, some)' \in Int
      <4> DEFINE h == [k \in Lines(d) |-> LineEffect(d, k, r)']
      <4>1. SUFFICES ASSUME expected' \in [Docs -> [1..MaxLines -> Int]] PROVE Effect(d, r, some)' \in Int
        OBVIOUS
      <4>2. \A k \in some : expected'[d][k] \in Int
        BY <4>1, DocFacts
      <4>3. \A k \in some : LineEffect(d, k, r)' \in Int
        BY <4>2, DocFacts DEF LineEffect, Variance, Kinds
      <4>4. \A k \in some : h[k] \in Int
        BY <4>3
      <4>5. IsFiniteSet(some)
        BY DocFacts, FS_Subset
      <4> HIDE DEF h
      <4>6. SumFunctionOnSet(h, some) \in Int
        BY <4>4, <4>5, SumType
      <4> QED BY <4>6 DEF Effect, h, Lines
    <3> QED BY <3>1, <3>2, EffectIsInteger
  <2>4. \A n \in Int : 0 * n = 0
    OBVIOUS
  <2>5. CASE expected'[d] = expected[d]
    <3>1. Effect(d, r, some)' = Effect(d, r, some)
      BY <2>5, EffectSame
    <3> QED BY <2>1, <2>2, <3>1
  <2>6. CASE postings[d] = 0
    BY <2>1, <2>2, <2>3, <2>4, <2>6
  <2> QED BY <2>5, <2>6
<1> HIDE DEF f, g
<1>2. SumFunctionOnSet(f, Docs) = SumFunctionOnSet(g, Docs)
  BY <1>1, SumSame, InventoryAssumption
<1>3. Pieces(r)' = Pieces(r)
  BY <1>2 DEF Pieces, f, g
<1>4. Receipts(r)' = Receipts(r)
  BY DEF Receipts, Arrivals, Lines
<1> QED BY <1>3, <1>4

\* A session that is left alone, with the rows it has locked, is as good as before.
LEMMA SessionStockKept ==
  ASSUME NEW u \in Sessions, NEW r \in Stock, BaseKept(u, r), ValueKept(u, r),
         sess'[u] = sess[u], r \in sess[u].locks => balance'[r] = balance[r],
         Costs(r) \subseteq Costs(r)',
         PricedBy(Costs(r), balance[r].avg) => PricedBy(Costs(r)', balance'[r].avg)
  PROVE  BaseKept(u, r)' /\ ValueKept(u, r)'
<1>0. CostsOf(sess[u].doc, r, Done(u))' = CostsOf(sess[u].doc, r, Done(u))
  BY DEF CostsOf, Arrivals, Done, Lines
<1>1. BaseKept(u, r)'
  <2>1. Paid(u, r) \subseteq Paid(u, r)'
    BY <1>0 DEF Paid
  <2>2. \A a : /\ PricedBy(Paid(u, r), a) => PricedBy(Paid(u, r)', a)
               /\ PricedBy(Costs(r), a) => PricedBy(Costs(r)', a)
    BY <2>1, PricedByMore
  <2>3. \A a : PricedBy(Paid(u, r), a)' <=> PricedBy(Paid(u, r)', a)
    BY DEF PricedBy
  <2> QED BY <2>2, <2>3 DEF BaseKept, LineOf, PricedBy
<1>2. ValueKept(u, r)'
  <2>1. Arrivals(sess[u].doc, r, Done(u))' = Arrivals(sess[u].doc, r, Done(u))
    BY DEF Arrivals, Done, Lines
  <2> QED BY <2>1 DEF ValueKept
<1> QED BY <1>1, <1>2

\* A step that commits nothing has only the session it is about to answer for.
LEMMA StockKept ==
  ASSUME InventoryInv, InventoryInv', StockInv,
         UNCHANGED <<balance, moved, worth, postings, raced>>,
         \A d \in Docs : expected'[d] = expected[d] \/ postings[d] = 0,
         \A u \in Sessions :
           \/ sess'[u] = sess[u]
           \/ ~Posting(u)'
           \/ \A r \in Uncounted : BaseKept(u, r)' /\ ValueKept(u, r)'
  PROVE  StockInv'
<1>1. Uncounted' \subseteq Uncounted /\ Uncounted \subseteq Stock
  <2>1. TypeOK' /\ \A d \in Docs : postings[d] <= postings'[d]
    BY DEF InventoryInv, TypeOK
  <2> QED BY <2>1, UncountedShrinks DEF Uncounted
<1>2. \A r \in Stock : Receipts(r)' = Receipts(r) /\ Pieces(r)' = Pieces(r)
  BY ReceivedKept DEF InventoryInv
<1>7. \A r : Costs(r)' = Costs(r)
  BY DEF Costs, CostsOf, Arrivals, Lines
<1>3. ASSUME NEW u \in Sessions, Posting(u)', NEW r \in Uncounted'
      PROVE  BaseKept(u, r)' /\ ValueKept(u, r)'
  <2>1. CASE sess'[u] = sess[u]
    <3>1. Posting(u) /\ r \in Uncounted /\ r \in Stock
      BY <1>1, <1>3, <2>1 DEF Posting
    <3> QED BY <1>7, <2>1, <3>1, SessionStockKept DEF StockInv
  <2> QED BY <1>1, <1>3, <2>1
<1>4. NeverNegative' /\ AverageWithinCosts'
  BY <1>1, <1>7 DEF StockInv, NeverNegative, AverageWithinCosts, PricedBy
<1>5. ValueInStep'
  BY <1>1, <1>2 DEF StockInv, ValueInStep
<1>6. \A r \in Stock : moved'[r] <= Pieces(r)'
  BY <1>2 DEF StockInv
<1> QED BY <1>3, <1>4, <1>5, <1>6 DEF StockInv

LEMMA ReadBalanceKeepsStock ==
  ASSUME InventoryInv, StockInv, NEW s \in Sessions, ReadBalance(s)
  PROVE  StockInv'
<1> DEFINE t == sess[s]  u == sess'[s]  row == LineOf(s).row
<1>1. /\ InventoryInv' /\ Posting(s) /\ t.pc = "read"
      /\ u = [t EXCEPT !.pc = "write", !.seen = Visible(s, row)]
      /\ Done(s)' = Done(s) /\ LineOf(s)' = LineOf(s)
  BY ReadBalanceKeeps DEF ReadBalance
<1>2. /\ UNCHANGED <<balance, moved, worth, postings, raced, expected>>
      /\ \A v \in Sessions \ {s} : sess'[v] = sess[v]
      /\ t \in Request
  BY DEF ReadBalance, Become, tables, InventoryInv, TypeOK
<1>3. /\ u.pc = "write" /\ u.seen = Visible(s, row) /\ u.doc = t.doc
      /\ u.locks = t.locks /\ u.own = t.own /\ u.qty = t.qty /\ u.value = t.value
      /\ u.stale = t.stale
  BY <1>1, <1>2 DEF Request
<1> HIDE DEF u
<1>4. ASSUME NEW r \in Uncounted PROVE BaseKept(s, r)' /\ ValueKept(s, r)'
  <2>1. BaseKept(s, r) /\ ValueKept(s, r) /\ r \in Stock
    BY <1>1 DEF StockInv, Uncounted
  <2>2. ASSUME row = r, r \notin t.locks
        PROVE  /\ u.seen.qty >= 0
               /\ u.seen.qty > 0 => /\ PricedBy(Costs(r), u.seen.avg)
                                     /\ PricedBy(Costs(r), balance[r].avg)
    <3>1. u.seen = balance[r]
      BY <1>3, <2>2 DEF Visible
    <3> QED BY <3>1 DEF StockInv, NeverNegative, AverageWithinCosts
  <2>5. Costs(r)' = Costs(r) /\ Paid(s, r)' = Paid(s, r)
    <3>1. Costs(r)' = Costs(r)
      BY <1>2 DEF Costs, CostsOf, Arrivals, Lines
    <3>2. CostsOf(sess[s].doc, r, Done(s))' = CostsOf(sess[s].doc, r, Done(s))
      BY <1>1, <1>3 DEF CostsOf, Arrivals, u
    <3> QED BY <3>1, <3>2 DEF Paid
  <2>3. BaseKept(s, r)'
    BY <1>1, <1>2, <1>3, <2>1, <2>2, <2>5 DEF BaseKept, PricedBy, u
  <2>4. ValueKept(s, r)'
    <3>1. Arrivals(sess[s].doc, r, Done(s))' = Arrivals(sess[s].doc, r, Done(s))
      BY <1>1, <1>3 DEF Arrivals, u
    <3> QED BY <1>2, <1>3, <2>1, <3>1 DEF ValueKept, u
  <2> QED BY <2>3, <2>4
<1> QED BY <1>1, <1>2, <1>4, StockKept

LEMMA SkipKeepsStock ==
  ASSUME InventoryInv, InventoryInv', StockInv, NEW s \in Sessions, sess[s].pc = "write",
         Doc[sess[s].doc].kind = "stock_count", Become(s, Onward(sess[s]))
  PROVE  StockInv'
<1> DEFINE t == sess[s]  u == sess'[s]
<1>1. /\ Become(s, u) /\ u.doc = t.doc /\ u.locks = t.locks /\ u.own = t.own /\ u.qty = t.qty
      /\ u.value = t.value /\ u.stale = t.stale /\ u.pc \in {"read", "commit"}
  BY SkipFacts
<1>2. /\ UNCHANGED <<balance, moved, worth, postings, raced, expected>>
      /\ \A v \in Sessions \ {s} : sess'[v] = sess[v]
      /\ Posting(s)
  BY <1>1, WritingFacts DEF Become, tables, InventoryInv, TypeOK
<1> HIDE DEF u
<1>3. ASSUME NEW r \in Uncounted PROVE BaseKept(s, r)' /\ ValueKept(s, r)'
  <2>1. BaseKept(s, r) /\ ValueKept(s, r)
    BY <1>2 DEF StockInv
  <2>2. PICK d \in Docs : d = t.doc /\ Doc[d].kind = "stock_count"
    BY WritingFacts
  <2>3. Paid(s, r)' = Paid(s, r)
    <3>1. Costs(r)' = Costs(r)
      BY <1>2 DEF Costs, CostsOf, Arrivals, Lines
    <3>2. \A some : CostsOf(d, r, some) = {}
      BY <2>2 DEF CostsOf, Arrivals
    <3>3. CostsOf(sess[s].doc, r, Done(s))' = {} /\ CostsOf(sess[s].doc, r, Done(s)) = {}
      <4>1. sess'[s].doc = d /\ sess[s].doc = d
        BY <1>1, <2>2 DEF u
      <4> QED BY <2>2, <3>2, <4>1 DEF CostsOf, Arrivals
    <3> QED BY <3>1, <3>3 DEF Paid
  <2>4. BaseKept(s, r)'
    BY <1>1, <1>2, <2>1, <2>3 DEF BaseKept, PricedBy, u
  <2> QED BY <1>1, <1>2, <2>1, <2>4 DEF ValueKept, u
<1> QED BY <1>2, <1>3, StockKept

\* What a session that is about to write has seen, given how its version began.
LEMMA SeenFacts ==
  ASSUME InventoryInv, NEW s \in Sessions, sess[s].pc = "write", NEW r \in Uncounted,
         r = LineOf(s).row, BaseKept(s, r)
  PROVE  LET t == sess[s]
             base == t.seen.qty - t.qty[r]
             now == Visible(s, r)
         IN  /\ t.seen.qty \in Int /\ t.seen.avg \in Int /\ t.qty[r] \in Int /\ t.value[r] \in Int
             /\ base >= 0
             /\ base > 0 => PricedBy(Paid(s, r), now.avg)
             /\ Doc[t.doc].kind # "goods_receipt" => now.avg = balance[r].avg
             /\ Doc[t.doc].kind = "delivery" => t.qty[r] <= 0
             /\ Doc[t.doc].kind = "goods_receipt" =>
                  t.qty[r] >= 0 /\ t.seen.qty >= 0
                  /\ (t.seen.qty > 0 => PricedBy(Paid(s, r), t.seen.avg))
<1> DEFINE t == sess[s]
<1>1. /\ r \in Stock /\ Posting(s) /\ t \in Request
      /\ t.seen.qty \in Int /\ t.seen.avg \in Int /\ t.qty[r] \in Int /\ t.value[r] \in Int
  BY WritingFacts DEF InventoryInv, TypeOK, Uncounted, Request
<1>2. VersionKept(s, r)
  BY <1>1 DEF InventoryInv
<1>3. CASE r \in t.locks
  <2>1. t.seen = t.own[r] /\ Visible(s, r) = t.own[r]
    BY <1>2, <1>3 DEF VersionKept, Visible
  <2>2. /\ t.own[r].qty - t.qty[r] >= 0
        /\ t.own[r].qty - t.qty[r] > 0 => PricedBy(Paid(s, r), t.own[r].avg)
        /\ Doc[t.doc].kind # "goods_receipt" => t.own[r].avg = balance[r].avg
        /\ Doc[t.doc].kind = "delivery" => t.own[r].qty >= 0 /\ t.qty[r] <= 0
        /\ Doc[t.doc].kind = "goods_receipt" =>
             t.qty[r] >= 0 /\ PricedBy(Paid(s, r), t.own[r].avg)
    BY <1>3 DEF BaseKept
  <2> QED BY <1>1, <2>1, <2>2
<1>4. CASE r \notin t.locks
  <2>1. t.qty[r] = 0 /\ Visible(s, r) = balance[r]
    BY <1>2, <1>4 DEF VersionKept, Visible
  <2>2. /\ t.seen.qty >= 0
        /\ t.seen.qty > 0 => /\ PricedBy(Costs(r), t.seen.avg)
                              /\ PricedBy(Costs(r), balance[r].avg)
    BY <1>4 DEF BaseKept
  <2>3. \A a : PricedBy(Costs(r), a) => PricedBy(Paid(s, r), a)
    <3>1. Costs(r) \subseteq Paid(s, r)
      BY DEF Paid
    <3> QED BY <3>1, PricedByMore
  <2> QED BY <1>1, <2>1, <2>2, <2>3
<1> QED BY <1>3, <1>4

\* One more receipt line adds its own rounding error to the drift.
LEMMA DriftGrows ==
  ASSUME NEW m \in Nat, NEW q \in Nat, NEW n \in Nat \ {0}, NEW a \in Int, NEW c \in Int,
         NEW b \in Int, NEW v \in Int,
         -(m * q) <= 2 * (q * a - b - v), 2 * (q * a - b - v) <= m * q
  PROVE  LET new == q + n
             x == Round(q * a + n * c, new)
         IN  /\ -((m + 1) * new) <= 2 * (new * x - b - (v + n * c))
             /\ 2 * (new * x - b - (v + n * c)) <= (m + 1) * new
<1> DEFINE new == q + n  y == q * a + n * c  x == Round(y, new)
<1>1. /\ q * a \in Int /\ n * c \in Int /\ m * q \in Int
      /\ new \in Nat \ {0} /\ y \in Int
  BY Products
<1>2. /\ x \in Int /\ 2 * (new * x) <= 2 * y + new /\ 2 * y - new < 2 * (new * x)
  <2> HIDE DEF new, y
  <2> QED BY <1>1, RoundBounds
<1>3. /\ (m + 1) * new = m * q + m * n + new /\ m * n \in Nat /\ (m + 1) * new \in Int
  <2>1. (m + 1) * new = m * new + 1 * new /\ m * new = m * q + m * n
    BY Products
  <2>2. 1 * new = new /\ m * n \in Nat /\ m * q \in Nat
    BY Products
  <2>3. (m + 1) * new \in Int
    BY Products
  <2> HIDE DEF new
  <2> QED BY <2>1, <2>2, <2>3
<1>4. new * x \in Int
  <2> HIDE DEF new, x
  <2> QED BY <1>1, <1>2, Products
<1> DEFINE nx == new * x  qa == q * a  nc == n * c  mq == m * q  mn == m * n  M == (m + 1) * new
<1>5. /\ nx \in Int /\ qa \in Int /\ nc \in Int /\ mq \in Int /\ mn \in Nat /\ M = mq + mn + new
      /\ new \in Nat /\ y = qa + nc
      /\ 2 * nx <= 2 * y + new /\ 2 * y - new < 2 * nx
      /\ -mq <= 2 * (qa - b - v) /\ 2 * (qa - b - v) <= mq
  BY <1>1, <1>2, <1>3, <1>4
<1>6. -M <= 2 * (nx - b - (v + nc)) /\ 2 * (nx - b - (v + nc)) <= M
  <2> HIDE DEF nx, qa, nc, mq, mn, M, new, y
  <2> QED BY <1>5
<1> QED BY <1>6

\* A line that writes what it saw and its quantity, at a blended average if it is
\* received and at the average it finds otherwise.
LEMMA MoveKeepsStock ==
  ASSUME InventoryInv, InventoryInv', StockInv, NEW s \in Sessions, sess[s].pc = "write",
         NEW new \in Balance, NEW quantity \in Int, NEW cost \in Int,
         Move(s, new, quantity, cost),
         new.qty = sess[s].seen.qty + quantity,
         \/ /\ Doc[sess[s].doc].kind # "goods_receipt"
            /\ new.avg = Visible(s, LineOf(s).row).avg /\ cost = sess[s].seen.avg
            /\ Doc[sess[s].doc].kind = "delivery" => new.qty >= 0 /\ quantity <= 0
         \/ /\ Doc[sess[s].doc].kind = "goods_receipt"
            /\ quantity = LineOf(s).quantity /\ cost = LineOf(s).cost
            /\ new.qty > 0 =>
                 new.avg = Round(sess[s].seen.qty * sess[s].seen.avg + quantity * cost, new.qty)
  PROVE  StockInv'
<1> DEFINE t == sess[s]  row == LineOf(s).row  u == sess'[s]
<1>0. Moved(s, new, quantity, cost)
  BY MoveFacts
<1>1. /\ row \in Stock /\ Become(s, u)
      /\ t.doc \in Docs /\ u.doc = t.doc /\ u.locks = t.locks \cup {row}
      /\ \A x \in Stock :
           /\ u.own[x] = IF x = row THEN new ELSE t.own[x]
           /\ u.qty[x] = t.qty[x] + (IF x = row THEN quantity ELSE 0)
           /\ u.value[x] = t.value[x] + (IF x = row THEN quantity * cost ELSE 0)
      /\ u.stale = IF t.seen = Visible(s, row) THEN t.stale ELSE t.stale \cup {row}
      /\ u.pc \in {"read", "commit"}
      /\ Done(s) \in SUBSET Lines(t.doc) /\ t.at \notin Done(s)
      /\ Done(s)' = Done(s) \cup {t.at}
  BY <1>0 DEF Moved
<1>2. /\ UNCHANGED <<balance, moved, worth, postings, raced, expected>>
      /\ \A v \in Sessions \ {s} : sess'[v] = sess[v]
  BY <1>1 DEF Become, tables, InventoryInv, TypeOK
<1>9. TypeOK
  BY DEF InventoryInv
<1>3. /\ Posting(s) /\ t.at \in Lines(t.doc) /\ row = Doc[t.doc].lines[t.at].row
      /\ t \in Request /\ LineOf(s) = Doc[t.doc].lines[t.at]
      /\ \A x \in Stock : t.qty[x] \in Int /\ t.value[x] \in Int
      /\ balance \in [Stock -> Balance]
      /\ Doc[t.doc].kind \in Kinds
      /\ Doc[t.doc].kind # "stock_count" => LineOf(s).quantity > 0
      /\ LineOf(s).quantity \in Nat
  <2>1. t \in Request /\ balance \in [Stock -> Balance]
    BY <1>9 DEF TypeOK
  <2>2. \A x \in Stock : t.qty[x] \in Int /\ t.value[x] \in Int
    BY <2>1 DEF Request
  <2>3. /\ Posting(s) /\ t.at \in Lines(t.doc) /\ LineOf(s) = Doc[t.doc].lines[t.at]
        /\ Doc[t.doc].kind # "stock_count" => LineOf(s).quantity > 0
        /\ LineOf(s).quantity \in Nat
    BY WritingFacts
  <2>4. Doc[t.doc].kind \in Kinds
    BY <1>1, DocFacts
  <2> QED BY <2>1, <2>2, <2>3, <2>4
<1>4. \A x \in Stock : Cardinality(Arrivals(t.doc, x, Done(s)))' =
        Cardinality(Arrivals(t.doc, x, Done(s))) +
          (IF Doc[t.doc].kind = "goods_receipt" /\ row = x THEN 1 ELSE 0)
  <2> TAKE x \in Stock
  <2>1. PICK d \in Docs : d = t.doc
    BY <1>1
  <2>2. PICK some \in SUBSET Lines(d) : some = Done(s)
    BY <1>1, <2>1
  <2>3. PICK k \in Lines(d) \ some : k = t.at
    BY <1>1, <1>3, <2>1, <2>2
  <2>4. Cardinality(Arrivals(d, x, some \cup {k})) = Cardinality(Arrivals(d, x, some)) +
          (IF Doc[d].kind = "goods_receipt" /\ Doc[d].lines[k].row = x THEN 1 ELSE 0)
    BY ArrivalFacts
  <2>5. Arrivals(t.doc, x, Done(s))' = Arrivals(d, x, some \cup {k})
    BY <1>1, <2>1, <2>2, <2>3 DEF Arrivals, u
  <2> QED BY <1>3, <2>1, <2>2, <2>3, <2>4, <2>5
<1>8. \A x \in Stock :
        /\ Costs(x)' = Costs(x)
        /\ Paid(s, x)' = Paid(s, x) \cup (IF Doc[t.doc].kind = "goods_receipt" /\ row = x
                                          THEN {LineOf(s).cost} ELSE {})
  <2> TAKE x \in Stock
  <2>1. Costs(x)' = Costs(x)
    BY <1>2 DEF Costs, CostsOf, Arrivals, Lines
  <2>2. PICK d \in Docs : d = t.doc
    BY <1>1
  <2>3. PICK k \in Lines(d) : k = t.at /\ LineOf(s) = Doc[d].lines[k]
    BY <1>3, <2>2
  <2>4. CostsOf(sess[s].doc, x, Done(s))' = CostsOf(d, x, Done(s) \cup {k})
    <3>1. sess'[s].doc = d /\ Done(s)' = Done(s) \cup {k}
      BY <1>1, <2>2, <2>3
    <3> QED BY <3>1 DEF CostsOf, Arrivals
  <2>5. Arrivals(d, x, Done(s) \cup {k}) = Arrivals(d, x, Done(s)) \cup
          (IF Doc[d].kind = "goods_receipt" /\ Doc[d].lines[k].row = x THEN {k} ELSE {})
    BY DEF Arrivals
  <2>6. CostsOf(d, x, Done(s) \cup {k}) = CostsOf(d, x, Done(s)) \cup
          (IF Doc[d].kind = "goods_receipt" /\ Doc[d].lines[k].row = x THEN {Doc[d].lines[k].cost} ELSE {})
    BY <2>5 DEF CostsOf
  <2> QED BY <2>1, <2>2, <2>3, <2>4, <2>6 DEF Paid
<1> HIDE DEF u
<1>5. ASSUME NEW r \in Uncounted, r # row PROVE BaseKept(s, r)' /\ ValueKept(s, r)'
  <2>1. BaseKept(s, r) /\ ValueKept(s, r) /\ r \in Stock
    BY <1>3 DEF StockInv, Uncounted
  <2>2. /\ u.own[r] = t.own[r] /\ u.qty[r] = t.qty[r] /\ u.value[r] = t.value[r]
        /\ r \in u.locks <=> r \in t.locks
        /\ r \in u.locks \ u.stale => r \in t.locks \ t.stale
    <3>1. /\ u.own[r] = t.own[r] /\ u.qty[r] = t.qty[r] + 0 /\ u.value[r] = t.value[r] + 0
      BY <1>1, <1>5, <2>1
    <3>2. t.qty[r] \in Int /\ t.value[r] \in Int
      BY <1>3, <2>1
    <3>3. /\ r \in u.locks <=> r \in t.locks
          /\ r \in u.stale <=> r \in t.stale
      <4> HIDE DEF row
      <4> QED BY <1>1, <1>5
    <3> QED BY <3>1, <3>2, <3>3
  <2>3. BaseKept(s, r)'
    <3>1. Costs(r)' = Costs(r) /\ Paid(s, r)' = Paid(s, r)
      BY <1>5, <1>8, <2>1
    <3> QED BY <1>1, <1>2, <2>1, <2>2, <3>1 DEF BaseKept, PricedBy, u
  <2>4. Cardinality(Arrivals(sess[s].doc, r, Done(s)))' = Cardinality(Arrivals(t.doc, r, Done(s)))
    <3>1. Cardinality(Arrivals(t.doc, r, Done(s))) \in Nat
      BY <1>1, <2>1, ArrivalFacts
    <3>2. Arrivals(sess[s].doc, r, Done(s))' = Arrivals(t.doc, r, Done(s))'
      BY <1>1 DEF Arrivals, u
    <3> QED BY <1>4, <1>5, <2>1, <3>1, <3>2
  <2>5. ValueKept(s, r)'
    BY <1>1, <1>2, <2>1, <2>2, <2>4 DEF ValueKept, u
  <2> QED BY <2>3, <2>5
<1>6. ASSUME NEW r \in Uncounted, r = row PROVE BaseKept(s, r)' /\ ValueKept(s, r)'
  <2> DEFINE seen == t.seen  now == Visible(s, r)  base == seen.qty - t.qty[r]
             kind == Doc[t.doc].kind
  <2>0. r \in Stock
    BY <1>1, <1>6
  <2>1. BaseKept(s, r) /\ ValueKept(s, r) /\ VersionKept(s, r)
    <3>1. \A x \in Stock : VersionKept(s, x)
      BY <1>3 DEF InventoryInv
    <3>2. \A x \in Uncounted : BaseKept(s, x) /\ ValueKept(s, x)
      BY <1>3 DEF StockInv
    <3> QED BY <2>0, <3>1, <3>2
  <2>2. /\ seen.qty \in Int /\ seen.avg \in Int /\ t.qty[r] \in Int /\ t.value[r] \in Int
        /\ base >= 0 /\ (base > 0 => PricedBy(Paid(s, r), now.avg))
        /\ kind # "goods_receipt" => now.avg = balance[r].avg
        /\ kind = "delivery" => t.qty[r] <= 0
        /\ kind = "goods_receipt" =>
             t.qty[r] >= 0 /\ seen.qty >= 0 /\ (seen.qty > 0 => PricedBy(Paid(s, r), seen.avg))
    BY <1>6, <2>1, SeenFacts
  <2>3. /\ u.own[r] = new /\ u.qty[r] = t.qty[r] + quantity
        /\ u.value[r] = t.value[r] + quantity * cost /\ r \in u.locks
        /\ u.pc # "write"
        /\ r \notin u.stale => r \notin t.stale /\ seen = now
    BY <1>1, <1>6
  <2>4. new.qty - u.qty[r] = base
    BY <2>2, <2>3
  <2>7. Paid(s, r) \subseteq Paid(s, r)' /\ (kind = "goods_receipt" => LineOf(s).cost \in Paid(s, r)')
    BY <1>6, <1>8, <2>0
  <2> DEFINE more == Paid(s, r)'
  <2>8. \A a : (PricedBy(Paid(s, r), a) => PricedBy(more, a)) /\ (PricedBy(Paid(s, r), a)' <=> PricedBy(more, a))
    <3>1. \A a : PricedBy(Paid(s, r), a) => PricedBy(more, a)
      BY <2>7, PricedByMore
    <3> QED BY <3>1 DEF PricedBy
  <2>5. CASE kind # "goods_receipt"
    <3>1. /\ new.avg = now.avg /\ cost = seen.avg
          /\ kind = "delivery" => new.qty >= 0 /\ quantity <= 0
      BY <1>6, <2>5
    <3>2. BaseKept(s, r)'
      <4>1. kind = "delivery" => u.qty[r] <= 0
        BY <2>2, <2>3, <3>1
      <4>2. base > 0 => PricedBy(Paid(s, r), new.avg)'
        BY <2>2, <2>8, <3>1
      <4>3. new.avg = balance[r].avg
        BY <2>2, <2>5, <3>1
      <4> QED BY <1>1, <1>2, <2>2, <2>3, <2>4, <2>5, <3>1, <4>1, <4>2, <4>3 DEF BaseKept, PricedBy, u
    <3>3. ValueKept(s, r)'
      <4>1. ASSUME r \notin u.stale
            PROVE  u.own[r].avg = balance[r].avg /\ u.value[r] = u.qty[r] * balance[r].avg
        <5>1. r \notin t.stale /\ seen = now
          BY <2>3, <4>1
        <5>2. balance[r].avg \in Int /\ balance[r].qty \in Int
          BY <1>3, <2>0 DEF Balance
        <5>3. now.avg = balance[r].avg /\ t.value[r] = t.qty[r] * balance[r].avg
          <6>1. CASE r \in t.locks
            BY <2>1, <2>5, <5>1, <6>1 DEF ValueKept, Visible
          <6>2. CASE r \notin t.locks
            <7>1. t.qty[r] = 0 /\ t.value[r] = 0 /\ now = balance[r]
              BY <2>1, <6>2 DEF VersionKept, Visible
            <7>2. 0 * balance[r].avg = 0
              BY <5>2
            <7> QED BY <7>1, <7>2
          <6> QED BY <6>1, <6>2
        <5>4. \A a, b, c \in Int : a * c + b * c = (a + b) * c
          OBVIOUS
        <5>5. t.qty[r] * balance[r].avg + quantity * balance[r].avg =
                (t.qty[r] + quantity) * balance[r].avg
          BY <2>2, <5>2, <5>4
        <5>6. cost = balance[r].avg
          BY <3>1, <5>1, <5>3
        <5>7. u.value[r] = t.qty[r] * balance[r].avg + quantity * balance[r].avg
          BY <2>3, <5>3, <5>6
        <5> QED BY <2>3, <3>1, <5>3, <5>5, <5>7
      <4> QED BY <1>1, <1>2, <2>5, <4>1 DEF ValueKept, u
    <3> QED BY <3>2, <3>3
  <2>6. CASE kind = "goods_receipt"
    <3>1. /\ quantity = LineOf(s).quantity /\ cost = LineOf(s).cost /\ quantity > 0
          /\ seen.qty >= 0 /\ new.qty > 0
          /\ new.avg = Round(seen.qty * seen.avg + quantity * cost, seen.qty + quantity)
      <4>1. /\ quantity = LineOf(s).quantity /\ cost = LineOf(s).cost
            /\ new.qty > 0 =>
                 new.avg = Round(seen.qty * seen.avg + quantity * cost, new.qty)
        BY <2>6
      <4>2. quantity > 0 /\ seen.qty >= 0
        BY <1>3, <2>2, <2>6, <4>1
      <4>3. new.qty = seen.qty + quantity /\ new.qty > 0
        BY <2>2, <4>2
      <4> QED BY <4>1, <4>2, <4>3
    <3>2. PricedBy(more, new.avg)
      <4>1. PICK d \in Docs : d = t.doc
        BY <1>1
      <4>2. PICK k \in Lines(d) : k = t.at /\ LineOf(s) = Doc[d].lines[k]
        BY <1>3, <4>1
      <4>3. /\ seen.qty \in Nat /\ seen.avg \in Int /\ (seen.qty > 0 => PricedBy(more, seen.avg))
        BY <2>2, <2>6, <2>8
      <4>4. more \subseteq Nat
        <5>1. CostsOf(t.doc, r, Done(s)) \subseteq Nat /\ Costs(r) \subseteq Nat
          BY <1>1, <2>0, CostIsNatural, CostsAreNatural
        <5>2. LineOf(s).cost \in Nat
          BY WritingFacts
        <5>3. Paid(s, r) \subseteq Nat
          BY <5>1 DEF Paid
        <5> QED BY <1>8, <2>0, <5>2, <5>3
      <4> HIDE DEF more
      <4>5. PICK costs \in SUBSET Nat : costs = more
        BY <4>4
      <4>6. Doc[d].kind = "goods_receipt" /\ Doc[d].lines[k].cost \in costs
        BY <2>6, <2>7, <4>1, <4>2, <4>5 DEF more
      <4>7. PricedBy(costs, Round(seen.qty * seen.avg + Doc[d].lines[k].quantity * Doc[d].lines[k].cost,
                                  seen.qty + Doc[d].lines[k].quantity))
        BY <4>3, <4>5, <4>6, BlendIsPriced
      <4> QED BY <3>1, <4>2, <4>5, <4>7
    <3>3. BaseKept(s, r)'
      <4>1. u.qty[r] >= 0
        BY <2>2, <2>3, <2>6, <3>1
      <4>2. PricedBy(Paid(s, r), new.avg)'
        BY <3>2, <2>8
      <4> HIDE DEF more
      <4> QED BY <1>1, <1>2, <2>2, <2>3, <2>4, <2>6, <4>1, <4>2 DEF BaseKept, PricedBy, u
    <3>4. ASSUME r \notin u.stale
          PROVE  LET m == Cardinality(Arrivals(t.doc, r, Done(s)))
                     b == balance[r].qty * balance[r].avg
                 IN  /\ -((m + 1) * new.qty) <= 2 * (new.qty * new.avg - b - u.value[r])
                     /\ 2 * (new.qty * new.avg - b - u.value[r]) <= (m + 1) * new.qty
      <4> DEFINE m == Cardinality(Arrivals(t.doc, r, Done(s)))
                 b == balance[r].qty * balance[r].avg
                 q == seen.qty  a == seen.avg  v == t.value[r]
      <4>1. m \in Nat /\ b \in Int /\ q \in Nat /\ a \in Int /\ v \in Int /\ quantity \in Nat \ {0}
        <5>1. balance[r].avg \in Int /\ balance[r].qty \in Int
          BY <1>3, <2>0 DEF Balance
        <5>2. m \in Nat
          BY <1>1, <2>0, ArrivalFacts
        <5> QED BY <2>2, <3>1, <5>1, <5>2, Products
      <4>2. -(m * q) <= 2 * (q * a - b - v) /\ 2 * (q * a - b - v) <= m * q
        <5>1. r \notin t.stale /\ seen = now
          BY <2>3, <3>4
        <5>2. CASE r \in t.locks
          BY <2>1, <2>6, <5>1, <5>2 DEF ValueKept, Visible
        <5>3. CASE r \notin t.locks
          <6>1. v = 0 /\ seen = balance[r]
            BY <2>1, <5>1, <5>3 DEF VersionKept, Visible
          <6>2. q * a = b /\ m * q \in Nat
            BY <4>1, <6>1, Products
          <6> HIDE DEF v, b, q, a, m
          <6> QED BY <4>1, <6>1, <6>2
        <5> QED BY <5>2, <5>3
      <4>3. /\ new.qty = q + quantity /\ u.value[r] = v + quantity * cost
            /\ new.avg = Round(q * a + quantity * cost, q + quantity)
        BY <2>3, <3>1
      <4> HIDE DEF m, b, q, a, v
      <4>4. /\ -((m + 1) * (q + quantity)) <=
                 2 * ((q + quantity) * Round(q * a + quantity * cost, q + quantity)
                      - b - (v + quantity * cost))
            /\ 2 * ((q + quantity) * Round(q * a + quantity * cost, q + quantity)
                      - b - (v + quantity * cost)) <= (m + 1) * (q + quantity)
        BY <4>1, <4>2, DriftGrows
      <4>5. /\ -((m + 1) * new.qty) <= 2 * (new.qty * new.avg - b - u.value[r])
            /\ 2 * (new.qty * new.avg - b - u.value[r]) <= (m + 1) * new.qty
        BY <4>3, <4>4
      <4> QED BY <4>5 DEF m, b
    <3>5. ValueKept(s, r)'
      <4>1. Cardinality(Arrivals(sess[s].doc, r, Done(s)))' =
              Cardinality(Arrivals(t.doc, r, Done(s))) + 1
        <5>1. Arrivals(sess[s].doc, r, Done(s))' = Arrivals(t.doc, r, Done(s))'
          BY <1>1 DEF Arrivals, u
        <5> QED BY <1>1, <1>4, <1>6, <2>0, <2>6, <5>1
      <4> QED BY <1>1, <1>2, <2>3, <2>6, <3>4, <4>1 DEF ValueKept, u
    <3> QED BY <3>3, <3>5
  <2> QED BY <2>5, <2>6
<1>7. \A r \in Uncounted : BaseKept(s, r)' /\ ValueKept(s, r)'
  BY <1>5, <1>6
<1> QED BY <1>2, <1>7, StockKept

LEMMA LineKeepsStock ==
  ASSUME InventoryInv, InventoryInv', StockInv, NEW s \in Sessions,
         Receive(s) \/ Deliver(s) \/ Adjust(s)
  PROVE  StockInv'
<1>1. CASE Receive(s)
  <2> DEFINE l == LineOf(s)  seen == sess[s].seen  new == StockIn(seen, Visible(s, l.row), l)
  <2>1. /\ sess[s].pc = "write" /\ Doc[sess[s].doc].kind = "goods_receipt"
        /\ new \in Balance /\ new.qty = seen.qty + l.quantity
        /\ Move(s, new, l.quantity, l.cost)
    BY <1>1, ReceiveFacts
  <2>2. l.quantity \in Int /\ l.cost \in Int
    BY <2>1, WritingFacts
  <2>3. new.qty > 0 => new.avg = Round(seen.qty * seen.avg + l.quantity * l.cost, new.qty)
    BY DEF StockIn
  <2> HIDE DEF new
  <2> QED BY <2>1, <2>2, <2>3, MoveKeepsStock
<1>2. CASE Deliver(s)
  <2> DEFINE l == LineOf(s)  new == StockOut(sess[s].seen, Visible(s, l.row), l)  q == -l.quantity
  <2>1. /\ sess[s].pc = "write" /\ Doc[sess[s].doc].kind = "delivery"
        /\ new \in Balance /\ new.qty = sess[s].seen.qty + q
        /\ new.qty >= 0 /\ new.avg = Visible(s, l.row).avg
        /\ Move(s, new, q, sess[s].seen.avg)
    BY <1>2, DeliverFacts
  <2>2. q \in Int /\ q <= 0 /\ sess[s].seen.avg \in Int
    BY <2>1, WritingFacts
  <2> HIDE DEF new, q
  <2> QED BY <2>1, <2>2, MoveKeepsStock
<1>3. CASE Adjust(s)
  <2> DEFINE l == LineOf(s)  delta == Variance(sess[s].doc, sess[s].at)
             new == Adjusted(sess[s].seen, Visible(s, l.row), delta)
  <2>1. /\ sess[s].pc = "write" /\ Doc[sess[s].doc].kind = "stock_count" /\ delta \in Int
        /\ new \in Balance /\ new.qty = sess[s].seen.qty + delta
        /\ new.avg = Visible(s, l.row).avg
        /\ \/ delta = 0 /\ Become(s, Onward(sess[s]))
           \/ Move(s, new, delta, sess[s].seen.avg)
    BY <1>3, AdjustFacts
  <2>2. sess[s].seen.avg \in Int
    BY <2>1, WritingFacts
  <2> HIDE DEF new, delta
  <2> QED BY <2>1, <2>2, MoveKeepsStock, SkipKeepsStock
<1> QED BY <1>1, <1>2, <1>3

\* A posting adds to what was received what its own lines bring in.
LEMMA ReceivedByCommit ==
  ASSUME InventoryInv, InventoryInv', NEW s \in Sessions, Commit(s), NEW r \in Stock,
         NEW d \in Docs, d = sess[s].doc
  PROVE  LET e == Effect(d, r, Lines(d))
         IN  /\ e \in Int
             /\ Pieces(r)' = Pieces(r) + (IF e > 0 THEN e ELSE 0)
             /\ Receipts(r)' = Receipts(r) + Cardinality(Arrivals(d, r, Lines(d)))
<1> DEFINE e == Effect(d, r, Lines(d))
           F(c) == Effect(c, r, Lines(c))
           N(c) == Cardinality(Arrivals(c, r, Lines(c)))
           f == [c \in Docs |-> IF F(c) > 0 THEN postings[c] * F(c) ELSE 0]
           f1 == [c \in Docs |-> IF F(c) > 0 THEN postings'[c] * F(c) ELSE 0]
           g == [c \in Docs |-> postings[c] * N(c)]
           g1 == [c \in Docs |-> postings'[c] * N(c)]
<1>1. /\ expected' = expected
      /\ \A c \in Docs : /\ postings'[c] = postings[c] + (IF c = d THEN 1 ELSE 0)
                         /\ postings[c] \in Nat /\ postings'[c] \in Nat
                         /\ F(c) \in Int /\ N(c) \in Nat
  <2>1. TypeOK /\ TypeOK'
    BY DEF InventoryInv
  <2>2. /\ expected' = expected
        /\ \A c \in Docs : postings'[c] = postings[c] + (IF c = d THEN 1 ELSE 0)
    BY CommitFacts
  <2>3. \A c \in Docs : F(c) \in Int /\ N(c) \in Nat
    BY <2>1, EffectIsInteger, ArrivalFacts DEF TypeOK
  <2> QED BY <2>1, <2>2, <2>3 DEF TypeOK
<1>2. Pieces(r)' = SumFunctionOnSet(f1, Docs)
  <2> DEFINE f2 == [c \in Docs |-> IF Effect(c, r, Lines(c))' > 0
                                   THEN postings'[c] * Effect(c, r, Lines(c))' ELSE 0]
  <2>1. ASSUME NEW c \in Docs PROVE f2[c] = f1[c]
    <3>1. PICK some \in SUBSET Lines(c) : some = Lines(c)
      OBVIOUS
    <3>2. Effect(c, r, some)' = Effect(c, r, some)
      BY <1>1, EffectSame
    <3>3. Lines(c)' = Lines(c)
      BY DEF Lines
    <3> QED BY <3>1, <3>2, <3>3
  <2> HIDE DEF f2, f1
  <2>2. SumFunctionOnSet(f2, Docs) = SumFunctionOnSet(f1, Docs)
    BY <2>1, SumSame, InventoryAssumption
  <2> QED BY <2>2 DEF Pieces, f2
<1>3. Receipts(r)' = SumFunctionOnSet(g1, Docs)
  BY DEF Receipts, Arrivals, Lines
<1>4. Pieces(r) = SumFunctionOnSet(f, Docs) /\ Receipts(r) = SumFunctionOnSet(g, Docs)
  BY DEF Pieces, Receipts
<1> HIDE DEF F, N
<1>5. \A a, b \in Int : a * b \in Int /\ (a + 1) * b = a * b + b
  OBVIOUS
<1>6. \A c \in Docs : /\ f[c] \in Int /\ f1[c] \in Int /\ g[c] \in Int /\ g1[c] \in Int
                      /\ c # d => f1[c] = f[c] /\ g1[c] = g[c]
  <2> TAKE c \in Docs
  <2>1. /\ F(c) \in Int /\ N(c) \in Int /\ postings[c] \in Int /\ postings'[c] \in Int
        /\ c # d => postings'[c] = postings[c]
    BY <1>1
  <2>2. /\ postings[c] * F(c) \in Int /\ postings'[c] * F(c) \in Int
        /\ postings[c] * N(c) \in Int /\ postings'[c] * N(c) \in Int
    BY <1>5, <2>1
  <2> QED BY <2>1, <2>2
<1>7. f1[d] - f[d] = (IF F(d) > 0 THEN F(d) ELSE 0) /\ g1[d] - g[d] = N(d)
  <2>1. /\ F(d) \in Int /\ N(d) \in Int /\ postings[d] \in Int /\ postings'[d] = postings[d] + 1
    BY <1>1
  <2> DEFINE p == postings[d]  p1 == postings'[d]  fd == F(d)  nd == N(d)
  <2>2. /\ f1[d] = IF fd > 0 THEN p1 * fd ELSE 0
        /\ f[d] = IF fd > 0 THEN p * fd ELSE 0
    OBVIOUS
  <2>3. g1[d] = p1 * nd /\ g[d] = p * nd
    OBVIOUS
  <2>4. F(d) = fd /\ N(d) = nd
    OBVIOUS
  <2>5. p \in Int /\ p1 = p + 1 /\ fd \in Int /\ nd \in Int
    BY <2>1
  <2> HIDE DEF p, p1, fd, nd, f, f1, g, g1
  <2>6. /\ (p + 1) * fd = p * fd + fd /\ p * fd \in Int
        /\ (p + 1) * nd = p * nd + nd /\ p * nd \in Int
    BY <1>5, <2>5
  <2>7. g1[d] - g[d] = nd
    BY <2>3, <2>5, <2>6
  <2>8. f1[d] - f[d] = (IF fd > 0 THEN fd ELSE 0)
    BY <2>2, <2>5, <2>6
  <2> QED BY <2>4, <2>7, <2>8
<1> HIDE DEF f, f1, g, g1
<1>8. /\ SumFunctionOnSet(f1, Docs) = SumFunctionOnSet(f, Docs) + f1[d] - f[d]
      /\ SumFunctionOnSet(g1, Docs) = SumFunctionOnSet(g, Docs) + g1[d] - g[d]
      /\ SumFunctionOnSet(f, Docs) \in Int /\ SumFunctionOnSet(g, Docs) \in Int
  <2>1. IsFiniteSet(Docs)
    BY InventoryAssumption
  <2>2. DiffersAt(d, f, f1, Docs)
    BY <1>6 DEF DiffersAt
  <2>3. DiffersAt(d, g, g1, Docs)
    BY <1>6 DEF DiffersAt
  <2>4. SumFunctionOnSet(f1, Docs) = SumFunctionOnSet(f, Docs) + f1[d] - f[d]
    BY <2>1, <2>2, SumChange
  <2>5. SumFunctionOnSet(g1, Docs) = SumFunctionOnSet(g, Docs) + g1[d] - g[d]
    BY <2>1, <2>3, SumChange
  <2>6. SumFunctionOnSet(f, Docs) \in Int
    BY <1>6, <2>1, SumType
  <2>7. SumFunctionOnSet(g, Docs) \in Int
    BY <1>6, <2>1, SumType
  <2> QED BY <2>4, <2>5, <2>6, <2>7
<1>9. F(d) \in Int /\ N(d) \in Int /\ f1[d] \in Int /\ f[d] \in Int /\ g1[d] \in Int /\ g[d] \in Int
  BY <1>1, <1>6
<1>10. /\ Pieces(r)' = Pieces(r) + (IF F(d) > 0 THEN F(d) ELSE 0)
       /\ Receipts(r)' = Receipts(r) + N(d)
  BY <1>2, <1>3, <1>4, <1>7, <1>8, <1>9
<1> QED BY <1>9, <1>10 DEF F, N

\* The drift of a receipt and the drift there was fit into the new bound.
LEMMA BoundGrows ==
  ASSUME NEW R \in Nat, NEW P \in Nat, NEW R1 \in Nat, NEW P1 \in Nat,
         NEW m \in Nat, NEW n \in Int, NEW x \in Int, NEW y \in Int,
         R1 = R + m, P <= P1, n <= P1,
         -(R * P) <= x, x <= R * P, -(m * n) <= y, y <= m * n
  PROVE  -(R1 * P1) <= x + y /\ x + y <= R1 * P1
<1>1. R * P <= R * P1 /\ m * n <= m * P1
  BY Products
<1>2. (R + m) * P1 = R * P1 + m * P1
  BY Products
<1> DEFINE rp == R * P  rp1 == R * P1  mn == m * n  mp == m * P1  M == R1 * P1
<1>3. /\ rp \in Int /\ rp1 \in Int /\ mn \in Int /\ mp \in Int /\ M = rp1 + mp
      /\ rp <= rp1 /\ mn <= mp /\ -rp <= x /\ x <= rp /\ -mn <= y /\ y <= mn
  BY <1>1, <1>2, Products
<1>4. -M <= x + y /\ x + y <= M
  <2> HIDE DEF rp, rp1, mn, mp, M
  <2> QED BY <1>3
<1> QED BY <1>4

LEMMA CommitKeepsStock ==
  ASSUME InventoryInv, InventoryInv', StockInv, NEW s \in Sessions, Commit(s)
  PROVE  StockInv'
<1> DEFINE t == sess[s]
<1>1. /\ Posting(s) /\ t.doc \in Docs /\ t \in Request /\ Done(s) = Lines(t.doc)
      /\ sess'[s] = Idle /\ expected' = expected
      /\ \A u \in Sessions \ {s} : sess'[u] = sess[u]
      /\ \A d \in Docs : postings'[d] = postings[d] + (IF d = t.doc THEN 1 ELSE 0)
      /\ \A r \in Stock :
           /\ balance'[r] = IF r \in t.locks THEN t.own[r] ELSE balance[r]
           /\ moved'[r] = moved[r] + t.qty[r]
           /\ worth'[r] = worth[r] + t.value[r]
      /\ raced' = raced \cup t.stale
  BY CommitFacts
<1>2. TypeOK /\ TypeOK'
  BY DEF InventoryInv
<1>3. Uncounted' \subseteq Uncounted /\ Uncounted \subseteq Stock
  <2>1. \A d \in Docs : postings[d] \in Nat
    BY <1>2 DEF TypeOK
  <2>2. \A d \in Docs : postings[d] <= postings'[d]
    <3> TAKE d \in Docs
    <3>1. postings[d] \in Nat /\ postings'[d] \in {postings[d], postings[d] + 1}
      BY <1>1, <2>1
    <3> QED BY <3>1
  <2> QED BY <1>1, <1>2, <2>2, UncountedShrinks DEF Uncounted
<1>4. PICK d \in Docs : d = t.doc
  BY <1>1
<1>5. ASSUME NEW r \in Stock
      PROVE  /\ VersionKept(s, r) /\ t.qty[r] = Effect(d, r, Lines(d)) /\ t.qty[r] \in Int
             /\ t.value[r] \in Int /\ moved[r] \in Int /\ worth[r] \in Int
             /\ balance[r].qty \in Int /\ balance[r].avg \in Int
             /\ t.own[r].qty \in Int /\ t.own[r].avg \in Int
             /\ r \notin t.locks => t.qty[r] = 0 /\ t.value[r] = 0
             /\ r \in t.locks \ t.stale => t.own[r].qty = balance[r].qty + t.qty[r]
             /\ Receipts(r) \in Nat /\ Pieces(r) \in Nat /\ Receipts(r)' \in Nat /\ Pieces(r)' \in Nat
             /\ Pieces(r)' = Pieces(r) + (IF t.qty[r] > 0 THEN t.qty[r] ELSE 0)
             /\ Receipts(r)' = Receipts(r) + Cardinality(Arrivals(d, r, Lines(d)))
             /\ Cardinality(Arrivals(d, r, Lines(d))) \in Nat
             /\ moved[r] <= Pieces(r)
  <2>1. VersionKept(s, r)
    BY <1>1 DEF InventoryInv
  <2>2. t.qty[r] = Effect(d, r, Lines(d))
    BY <1>1, <1>4, <2>1 DEF VersionKept
  <2>3. /\ Effect(d, r, Lines(d)) \in Int
        /\ Pieces(r)' = Pieces(r) + (IF Effect(d, r, Lines(d)) > 0 THEN Effect(d, r, Lines(d)) ELSE 0)
        /\ Receipts(r)' = Receipts(r) + Cardinality(Arrivals(d, r, Lines(d)))
    BY <1>4, ReceivedByCommit
  <2>4. /\ Receipts(r) \in Nat /\ Pieces(r) \in Nat
        /\ Cardinality(Arrivals(d, r, Lines(d))) \in Nat
    BY <1>2, ReceivedType, ArrivalFacts
  <2>5. /\ t.value[r] \in Int /\ moved[r] \in Int /\ worth[r] \in Int
        /\ balance[r] \in Balance /\ t.own[r] \in Balance
    BY <1>1, <1>2 DEF TypeOK, Request
  <2>6. Receipts(r)' \in Nat /\ Pieces(r)' \in Nat
    BY <2>3, <2>4
  <2>7. moved[r] <= Pieces(r)
    BY DEF StockInv
  <2> QED BY <2>1, <2>2, <2>3, <2>4, <2>5, <2>6, <2>7 DEF VersionKept, Balance
<1>6. ASSUME NEW r \in Uncounted' PROVE r \in Stock /\ r \in Uncounted /\ BaseKept(s, r) /\ ValueKept(s, r)
  BY <1>1, <1>3, <1>6 DEF StockInv
<1>7. \A r \in Uncounted' : Doc[d].kind = "stock_count" => t.qty[r] = 0
  <2> TAKE r \in Uncounted'
  <2>1. SUFFICES ASSUME Doc[d].kind = "stock_count" PROVE t.qty[r] = 0
    OBVIOUS
  <2>2. postings'[d] > 0
    BY <1>1, <1>2, <1>4 DEF TypeOK
  <2>3. Effect(d, r, Lines(d))' = 0
    BY <2>1, <2>2 DEF Uncounted
  <2>4. PICK some \in SUBSET Lines(d) : some = Lines(d)
    OBVIOUS
  <2>5. Effect(d, r, some)' = Effect(d, r, some) /\ Lines(d)' = Lines(d)
    BY <1>1, EffectSame DEF Lines
  <2> QED BY <1>5, <1>6, <2>3, <2>4, <2>5
<1>8. ASSUME NEW r \in Uncounted'
      PROVE  /\ Costs(r) \subseteq Costs(r)'
             /\ \A a : PricedBy(Paid(s, r), a) => PricedBy(Costs(r)', a)
             /\ PricedBy(Costs(r), balance[r].avg) => PricedBy(Costs(r)', balance'[r].avg)
  <2>1. r \in Stock /\ BaseKept(s, r)
    BY <1>6
  <2>2. \A e \in Docs : postings[e] \in Nat /\ (postings[e] > 0 => postings'[e] > 0)
    <3> TAKE e \in Docs
    <3>1. postings[e] \in Nat
      BY <1>2 DEF TypeOK
    <3>2. postings'[e] \in {postings[e], postings[e] + 1}
      BY <1>1, <3>1
    <3> QED BY <3>1, <3>2
  <2>3. postings'[d] > 0
    BY <1>1, <1>4, <2>2
  <2>4. \A e : CostsOf(e, r, Lines(e))' = CostsOf(e, r, Lines(e))
    BY DEF CostsOf, Arrivals, Lines
  <2>5. Costs(r) \subseteq Costs(r)'
    BY <2>2, <2>4 DEF Costs
  <2>6. CostsOf(d, r, Lines(d)) \subseteq Costs(r)'
    BY <2>3, <2>4 DEF Costs
  <2>7. Paid(s, r) \subseteq Costs(r)'
    BY <1>1, <1>4, <2>5, <2>6 DEF Paid
  <2> DEFINE more == Costs(r)'
  <2>8. \A a : /\ PricedBy(Paid(s, r), a) => PricedBy(more, a)
               /\ PricedBy(Costs(r), a) => PricedBy(more, a)
    BY <2>5, <2>7, PricedByMore
  <2>9. PricedBy(Costs(r), balance[r].avg) => PricedBy(more, balance'[r].avg)
    <3> HIDE DEF more
    <3>1. CASE r \notin t.locks
      BY <1>1, <2>1, <2>8, <3>1
    <3>2. CASE r \in t.locks
      <4>1. PricedBy(Paid(s, r), t.own[r].avg) \/ t.own[r].avg = balance[r].avg
        BY <2>1, <3>2 DEF BaseKept
      <4> QED BY <1>1, <2>1, <2>8, <3>2, <4>1
    <3> QED BY <3>1, <3>2
  <2> QED BY <2>5, <2>8, <2>9
<1>9. ASSUME NEW u \in Sessions, Posting(u)', NEW r \in Uncounted'
      PROVE  BaseKept(u, r)' /\ ValueKept(u, r)'
  <2>1. u # s
    BY <1>1, <1>9, IdleFacts DEF Posting
  <2>2. sess'[u] = sess[u] /\ Posting(u) /\ r \in Stock /\ r \in Uncounted
    BY <1>1, <1>6, <1>9, <2>1 DEF Posting
  <2>3. r \in sess[u].locks => balance'[r] = balance[r]
    <3>1. r \in sess[u].locks => r \notin t.locks
      BY <2>1 DEF InventoryInv, InOrder
    <3> QED BY <1>1, <2>2, <3>1
  <2>4. BaseKept(u, r) /\ ValueKept(u, r)
    BY <2>2 DEF StockInv
  <2> QED BY <1>8, <2>2, <2>3, <2>4, SessionStockKept
<1>10. ASSUME NEW r \in Uncounted'
       PROVE  balance'[r].qty >= 0 /\ (balance'[r].qty > 0 => PricedBy(Costs(r)', balance'[r].avg))
  <2>1. /\ r \in Stock /\ r \in Uncounted /\ BaseKept(s, r) /\ Doc[d].kind \in Kinds
        /\ Doc[d].kind = "stock_count" => t.qty[r] = 0
    BY <1>6, <1>7, DocFacts
  <2>2. CASE r \notin t.locks
    <3>1. balance'[r] = balance[r]
      BY <1>1, <2>1, <2>2
    <3>2. balance[r].qty >= 0 /\ (balance[r].qty > 0 => PricedBy(Costs(r), balance[r].avg))
      BY <2>1 DEF StockInv, NeverNegative, AverageWithinCosts
    <3>3. PricedBy(Costs(r), balance[r].avg) => PricedBy(Costs(r)', balance'[r].avg)
      BY <1>8
    <3> QED BY <3>1, <3>2, <3>3
  <2>3. CASE r \in t.locks
    <3> DEFINE base == t.own[r].qty - t.qty[r]
    <3>1. /\ base >= 0 /\ (base > 0 => PricedBy(Paid(s, r), t.own[r].avg))
          /\ Doc[d].kind = "delivery" => t.own[r].qty >= 0 /\ t.qty[r] <= 0
          /\ Doc[d].kind = "goods_receipt" => t.qty[r] >= 0 /\ PricedBy(Paid(s, r), t.own[r].avg)
      BY <1>4, <2>1, <2>3 DEF BaseKept
    <3>2. t.own[r].qty \in Int /\ t.qty[r] \in Int /\ balance'[r] = t.own[r]
      BY <1>1, <1>5, <2>1, <2>3
    <3>3. PricedBy(Paid(s, r), t.own[r].avg) => PricedBy(Costs(r)', t.own[r].avg)
      BY <1>8
    <3>4. t.own[r].qty > 0 => PricedBy(Costs(r)', t.own[r].avg)
      BY <2>1, <3>1, <3>2, <3>3 DEF Kinds
    <3>5. t.own[r].qty >= 0
      BY <2>1, <3>1, <3>2 DEF Kinds
    <3> QED BY <3>2, <3>4, <3>5
  <2> QED BY <2>2, <2>3
<1>11. NeverNegative' /\ AverageWithinCosts'
  BY <1>10 DEF NeverNegative, AverageWithinCosts, PricedBy
<1>12. \A r \in Stock : moved'[r] <= Pieces(r)'
  <2> TAKE r \in Stock
  <2> QED BY <1>1, <1>5
<1>13. ASSUME NEW r \in Uncounted', r \notin raced'
       PROVE  LET drift == 2 * (balance'[r].qty * balance'[r].avg - worth'[r])
              IN  -(Receipts(r)' * Pieces(r)') <= drift /\ drift <= Receipts(r)' * Pieces(r)'
  <2> DEFINE q == balance[r].qty  a == balance[r].avg  w == worth[r]  v == t.value[r]
             n == t.own[r].qty  b == t.own[r].avg
             R == Receipts(r)  P == Pieces(r)  R1 == Receipts(r)'  P1 == Pieces(r)'
             m == Cardinality(Arrivals(d, r, Lines(d)))
             x == 2 * (q * a - w)
  <2>1. /\ r \in Stock /\ r \in Uncounted /\ r \notin raced /\ r \notin t.stale /\ ValueKept(s, r)
        /\ BaseKept(s, r)
    BY <1>1, <1>6, <1>13
  <2>2. /\ q \in Int /\ a \in Int /\ w \in Int /\ v \in Int /\ n \in Int /\ b \in Int
        /\ R \in Nat /\ P \in Nat /\ R1 \in Nat /\ P1 \in Nat /\ m \in Nat /\ t.qty[r] \in Int
        /\ R1 = R + m /\ P1 = P + (IF t.qty[r] > 0 THEN t.qty[r] ELSE 0)
        /\ worth'[r] = w + v
        /\ r \notin t.locks => t.qty[r] = 0 /\ v = 0
        /\ r \in t.locks => n = q + t.qty[r]
    BY <1>1, <1>5, <2>1
  <2>3. -(R * P) <= x /\ x <= R * P
    BY <2>1 DEF StockInv, ValueInStep
  <2>4. q = moved[r] /\ q <= P
    BY <1>5, <2>1 DEF InventoryInv, OnlyRacesLoseMoves
  <2>5. q * a \in Int /\ n * b \in Int /\ x \in Int
    <3>1. q * a \in Int /\ n * b \in Int
      BY <2>2, Products
    <3> QED BY <2>2, <3>1
  <2>6. P <= P1
    <3> HIDE DEF P, P1
    <3> QED BY <2>2
  <2>7. CASE r \in t.locks /\ Doc[d].kind = "goods_receipt"
    <3> DEFINE y == 2 * (n * b - q * a - v)
    <3>1. -(m * n) <= y /\ y <= m * n
      BY <1>1, <1>4, <2>1, <2>7 DEF ValueKept
    <3>2. t.qty[r] >= 0
      BY <1>4, <2>1, <2>7 DEF BaseKept
    <3>3. n <= P1
      <4> HIDE DEF n, q, P, P1
      <4> QED BY <2>2, <2>4, <2>7, <3>2
    <3>4. y \in Int /\ x + y = 2 * (n * b - (w + v))
      <4> DEFINE qa == q * a  nb == n * b
      <4>1. qa \in Int /\ nb \in Int /\ w \in Int /\ v \in Int
        BY <2>2, <2>5
      <4>2. 2 * (nb - qa - v) \in Int /\ 2 * (qa - w) + 2 * (nb - qa - v) = 2 * (nb - (w + v))
        <5> HIDE DEF qa, nb, w, v
        <5> QED BY <4>1
      <4> QED BY <4>2
    <3>5. balance'[r] = t.own[r]
      BY <1>1, <2>1, <2>7
    <3> HIDE DEF x, y, n, R, P, R1, P1, m
    <3>6. -(R1 * P1) <= x + y /\ x + y <= R1 * P1
      BY <2>2, <2>3, <2>5, <2>6, <3>1, <3>3, <3>4, BoundGrows
    <3> QED BY <2>2, <3>4, <3>5, <3>6 DEF R1, P1, n
  <2>8. CASE ~(r \in t.locks /\ Doc[d].kind = "goods_receipt")
    <3>1. 2 * (balance'[r].qty * balance'[r].avg - worth'[r]) = x
      <4>1. CASE r \notin t.locks
        <5>1. balance'[r] = balance[r] /\ worth'[r] = w
          BY <1>1, <2>1, <2>2, <4>1
        <5> QED BY <5>1
      <4>2. CASE r \in t.locks
        <5>1. b = a /\ v = t.qty[r] * a
          BY <1>4, <2>1, <2>8, <4>2 DEF ValueKept
        <5>2. balance'[r] = t.own[r] /\ n = q + t.qty[r]
          BY <1>1, <2>1, <2>2, <4>2
        <5>3. (q + t.qty[r]) * a = q * a + t.qty[r] * a /\ t.qty[r] * a \in Int
          BY <2>2, Products
        <5>4. n * b - (w + v) = q * a - w
          <6> DEFINE qa == q * a  da == t.qty[r] * a
          <6>1. n * b = qa + da /\ v = da /\ qa \in Int /\ da \in Int
            BY <2>5, <5>1, <5>2, <5>3
          <6> HIDE DEF qa, da, n, b, w, v
          <6>2. (qa + da) - (w + da) = qa - w
            BY <2>2, <6>1
          <6> QED BY <6>1, <6>2 DEF qa
        <5> QED BY <2>2, <5>2, <5>4
      <4> QED BY <4>1, <4>2
    <3>2. R * P <= R1 * P1
      <4>1. R * P <= R * P1 /\ R * P1 <= R1 * P1
        <5>1. R <= R1
          <6> HIDE DEF R, R1, m
          <6> QED BY <2>2
        <5> HIDE DEF R, R1, P, P1, m
        <5>2. P1 * R <= P1 * R1
          BY <2>2, <5>1, Products
        <5>3. P1 * R = R * P1 /\ P1 * R1 = R1 * P1
          BY <2>2, Products
        <5>4. R * P <= R * P1
          BY <2>2, <2>6, Products
        <5> QED BY <5>2, <5>3, <5>4
      <4> HIDE DEF R, R1, P, P1
      <4>2. R * P \in Int /\ R * P1 \in Int /\ R1 * P1 \in Int
        BY <2>2, Products
      <4> QED BY <4>1, <4>2
    <3>3. R * P \in Int /\ R1 * P1 \in Int
      BY <2>2, Products
    <3> DEFINE rp == R * P  M == R1 * P1
    <3>4. -M <= x /\ x <= M
      <4>1. rp \in Int /\ M \in Int /\ rp <= M /\ -rp <= x /\ x <= rp /\ x \in Int
        BY <2>3, <2>5, <3>2, <3>3
      <4> HIDE DEF rp, M, x
      <4> QED BY <4>1
    <3> QED BY <3>1, <3>4
  <2> QED BY <2>7, <2>8
<1>14. ValueInStep'
  BY <1>13 DEF ValueInStep
<1> QED BY <1>9, <1>11, <1>12, <1>14 DEF StockInv

LEMMA StockStep == InventoryInv /\ InventoryInv' /\ StockInv /\ [Next]_vars => StockInv'
<1> SUFFICES ASSUME InventoryInv, InventoryInv', StockInv, [Next]_vars PROVE StockInv'
  OBVIOUS
<1>1. CASE UNCHANGED vars
  BY <1>1, StockKept DEF vars, tables
<1>2. CASE \E d \in Docs : CreateReceipt(d) \/ CreateDelivery(d)
  BY <1>2, StockKept DEF CreateReceipt, CreateDelivery, Create
<1>3. ASSUME NEW s \in Sessions, NEW t, Become(s, t), t.pc \notin {"read", "write", "commit"}
      PROVE  StockInv'
  <2>1. /\ UNCHANGED <<balance, moved, worth, postings, raced, expected>>
        /\ sess'[s] = t /\ \A u \in Sessions \ {s} : sess'[u] = sess[u]
    BY <1>3 DEF Become, tables, InventoryInv, TypeOK
  <2>2. ~Posting(s)'
    BY <1>3, <2>1 DEF Posting
  <2> QED BY <2>1, <2>2, StockKept
<1>4. ASSUME NEW s \in Sessions, NEW d \in Docs, BeginCount(s, d) PROVE StockInv'
  <2>1. [Idle EXCEPT !.doc = d, !.at = 1, !.pc = "capture"].pc = "capture"
    BY DEF Idle
  <2> QED BY <1>3, <1>4, <2>1 DEF BeginCount
<1>5. ASSUME NEW s \in Sessions, NEW d \in Docs, BeginPost(s, d) PROVE StockInv'
  <2>1. sess'[s].pc = "read" /\ sess'[s].locks = {}
    BY <1>5, BeginPostKeeps
  <2>2. /\ UNCHANGED <<balance, moved, worth, postings, raced, expected>>
        /\ \A u \in Sessions \ {s} : sess'[u] = sess[u]
    BY <1>5 DEF BeginPost, Become, tables, InventoryInv, TypeOK
  <2>3. \A r \in Uncounted : BaseKept(s, r)' /\ ValueKept(s, r)'
    BY <2>1 DEF BaseKept, ValueKept
  <2> QED BY <2>2, <2>3, StockKept
<1>6. ASSUME NEW s \in Sessions, Capture(s) PROVE StockInv'
  <2>1. /\ UNCHANGED <<balance, moved, worth, postings, raced, expected>>
        /\ \A u \in Sessions \ {s} : sess'[u] = sess[u]
        /\ sess[s] \in Request /\ sess[s].pc = "capture"
    BY <1>6 DEF Capture, Become, tables, InventoryInv, TypeOK
  <2>2. sess'[s].pc \in {"capture", "captured"}
    BY <1>6, <2>1 DEF Capture, Become, InventoryInv, TypeOK, Request
  <2>3. ~Posting(s)'
    BY <2>2 DEF Posting
  <2> QED BY <2>1, <2>3, StockKept
<1>7. ASSUME NEW s \in Sessions, CreateCount(s) PROVE StockInv'
  <2>1. /\ UNCHANGED <<balance, moved, worth, postings, raced>>
        /\ sess'[s] = Idle /\ \A u \in Sessions \ {s} : sess'[u] = sess[u]
    BY <1>7 DEF CreateCount, InventoryInv, TypeOK
  <2>2. \A d \in Docs : expected'[d] = expected[d] \/ postings[d] = 0
    BY <1>7, CreateCountKeeps
  <2>3. ~Posting(s)'
    BY <2>1, IdleFacts DEF Posting
  <2> QED BY <2>1, <2>2, <2>3, StockKept
<1>8. ASSUME NEW s \in Sessions, Step(s) PROVE StockInv'
  <2>1. CASE Refuse(s)
    BY <1>3, <2>1, IdleFacts DEF Refuse
  <2> QED BY <1>6, <1>7, <1>8, <2>1, ReadBalanceKeepsStock, LineKeepsStock, CommitKeepsStock DEF Step
<1>9. ASSUME NEW s \in Sessions, Victim(s) \/ Abort(s) PROVE StockInv'
  BY <1>3, <1>9, IdleFacts DEF Victim, Abort
<1> QED BY <1>1, <1>2, <1>4, <1>5, <1>8, <1>9 DEF Next

-----------------------------------------------------------------------------
\* What InventoryService and the three documents keep of rows, versions and moves.
THEOREM InventoryInvariant == Spec => [](InventoryInv /\ StockInv)
BY InventoryInit, StockInit, InventoryStep, StockStep, PTL DEF Spec

\* The balance of a row that no transaction wrote from a stale read is the sum of
\* its stock moves, whatever is refused, rolled back, listed twice or counted late.
THEOREM MovesAreLostInRacesOnly == Spec => []OnlyRacesLoseMoves
<1>1. InventoryInv => OnlyRacesLoseMoves
  BY DEF InventoryInv
<1> QED BY <1>1, InventoryInvariant, PTL

\* No delivery ever takes a row below zero that no count has adjusted, raced or not.
THEOREM StockIsNeverNegative == Spec => []NeverNegative
<1>1. StockInv => NeverNegative
  BY DEF StockInv
<1> QED BY <1>1, InventoryInvariant, PTL

\* The average cost of a row in stock stays between the lowest and the highest cost
\* of the posted receipts that brought it in, through any number of blends, roundings and lost updates.
THEOREM AverageIsAlwaysWithinCosts == Spec => []AverageWithinCosts
<1>1. StockInv => AverageWithinCosts
  BY DEF StockInv
<1> QED BY <1>1, InventoryInvariant, PTL

\* The value of a row nobody raced on is that of its moves, up to half a unit per
\* receipt and piece.
THEOREM ValueIsAlwaysInStep == Spec => []ValueInStep
<1>1. StockInv => ValueInStep
  BY DEF StockInv
<1> QED BY <1>1, InventoryInvariant, PTL
=============================================================================
