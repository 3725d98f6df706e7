---------------------------- MODULE LedgerProofs ----------------------------
(***************************************************************************)
(* Proofs about Ledger, for every number of sessions, accounts, periods    *)
(* and entries.                                                            *)
(***************************************************************************)
EXTENDS Ledger, TotalsProofs

-----------------------------------------------------------------------------
(***************************************************************************)
(* Lines.                                                                  *)
(***************************************************************************)
\* No lines, swapped lines and added-up lines are lines.
LEMMA LinesTypes ==
  /\ NoLines \in Lines /\ NoTotals \in Totals
  /\ \A l \in Lines : Mirror(l) \in Lines
  /\ \A balance \in Totals, l \in Lines : Increment(balance, l) \in Totals
<1>1. NoLines \in Lines /\ NoTotals \in Totals
  BY DEF NoLines, NoTotals, Lines, Totals
<1>2. ASSUME NEW l \in Lines PROVE Mirror(l) \in Lines
  <2>1. \A c \in Columns : <<c[1], Other(c[2])>> \in Columns
    BY DEF Columns, Sides, Other
  <2> QED BY <2>1 DEF Lines, Totals, Mirror
<1>3. ASSUME NEW balance \in Totals, NEW l \in Lines PROVE Increment(balance, l) \in Totals
  <2>1. \A c \in Columns : balance[c] + l.total[c] \in Int
    BY DEF Lines, Totals
  <2> QED BY <2>1 DEF Totals, Increment
<1> QED BY <1>1, <1>2, <1>3

\* A request's rows have their columns' types.
LEMMA RequestTypes ==
  ASSUME NEW q \in Requests
  PROVE  /\ Len(q) \in Nat /\ IsFiniteSet(1..Len(q))
         /\ \A i \in 1..Len(q) : q[i] \in Row
<1>1. q \in Seq(Row)
  BY LedgerAssumption
<1> QED BY <1>1, FS_Interval

\* Storing an amount moves it by half a cent at most.
LEMMA DivBounds ==
  ASSUME NEW a \in Int, NEW b \in Nat \ {0}
  PROVE  /\ a \div b \in Int
         /\ b * (a \div b) <= a /\ a < b * (a \div b) + b
OBVIOUS

LEMMA RoundsDown ==
  ASSUME NEW n \in Nat
  PROVE  LET x == (2 * n + Unit) \div (2 * Unit) IN
         /\ x \in Int
         /\ 2 * n - Unit < 2 * (Unit * x) /\ 2 * (Unit * x) <= 2 * n + Unit
<1> DEFINE a == 2 * n + Unit  b == 2 * Unit  x == a \div b
<1>1. b \in Nat \ {0} /\ a \in Int /\ Unit \in Nat
  BY DoubleEntryAssumption
<1>2. x \in Int /\ b * x <= a /\ a < b * x + b
  <2> HIDE DEF a, b
  <2> QED BY <1>1, DivBounds
<1>3. b * x = 2 * (Unit * x) /\ Unit * x \in Int
  <2> HIDE DEF a
  <2>1. x \in Int
    BY <1>2
  <2> HIDE DEF x
  <2> QED BY <1>1, <2>1
<1> HIDE DEF x
<1> QED BY <1>1, <1>2, <1>3 DEF x

LEMMA CentsAreClose ==
  ASSUME NEW n \in Int
  PROVE  /\ Cents(n) \in Int /\ Unit * Cents(n) \in Int
         /\ -Unit <= 2 * (Unit * Cents(n)) - 2 * n /\ 2 * (Unit * Cents(n)) - 2 * n <= Unit
<1>1. Unit \in Nat
  BY DoubleEntryAssumption
<1>2. CASE n >= 0
  <2>1. PICK x \in Int : /\ x = (2 * n + Unit) \div (2 * Unit)
                         /\ 2 * n - Unit < 2 * (Unit * x) /\ 2 * (Unit * x) <= 2 * n + Unit
    BY <1>2, RoundsDown
  <2>2. Cents(n) = x
    BY <1>2, <2>1 DEF Cents
  <2>3. Unit * x \in Int
    BY <1>1
  <2> QED BY <1>1, <2>1, <2>2, <2>3
<1>3. CASE n < 0
  <2> DEFINE m == -n
  <2>1. m \in Nat
    BY <1>3
  <2>2. PICK x \in Int : /\ x = (2 * m + Unit) \div (2 * Unit)
                         /\ 2 * m - Unit < 2 * (Unit * x) /\ 2 * (Unit * x) <= 2 * m + Unit
    BY <2>1, RoundsDown
  <2>3. 2 * m + Unit = Unit - 2 * n
    BY <1>1
  <2>4. Cents(n) = -x
    BY <1>3, <2>2, <2>3 DEF Cents
  <2>5. Unit * x \in Int /\ Unit * (-x) = -(Unit * x)
    BY <1>1
  <2> QED BY <1>1, <2>2, <2>4, <2>5
<1> QED BY <1>2, <1>3

\* What a request stores is well typed.
LEMMA StoredTypes ==
  ASSUME NEW q \in Requests
  PROVE  Stored(q) \in Lines
<1>1. ASSUME NEW c \in Columns PROVE Stored(q).total[c] \in Int
  <2> DEFINE f == [i \in 1..Len(q) |-> StoredIn(q, i, c)]
  <2>1. IsFiniteSet(1..Len(q)) /\ \A i \in 1..Len(q) : f[i] \in Int
    BY RequestTypes, CentsAreClose DEF StoredIn, Row
  <2> HIDE DEF f
  <2>2. SumFunctionOnSet(f, 1..Len(q)) \in Int
    BY <2>1, SumType
  <2> QED BY <2>2 DEF Stored, f
<1>2. Len(q) \in Nat
  BY RequestTypes
<1> QED BY <1>1, <1>2 DEF Stored, Lines, Totals

\* So are the lines that may be booked.
LEMMA PostableTypes == Postable \subseteq Lines
BY StoredTypes DEF Postable

\* The row and the session without content are well typed.
LEMMA BlankTypes == Absent \in Entry /\ Idle \in Session
BY LinesTypes DEF Absent, Idle, Entry, Session, Statuses, Ops

-----------------------------------------------------------------------------
(***************************************************************************)
(* Sessions that only read.                                                *)
(***************************************************************************)
\* A step of session s that leaves the tables alone keeps the invariant when it
\* leaves s itself consistent and takes the lock only when it is free.
LEMMA ReadStep ==
  ASSUME LedgerInv, NEW s \in Sessions, NEW r \in Session,
         Become(s, r), SessionConsistent(s)', r.locked => LockFree
  PROVE  LedgerInv'
<1> USE DEF Become
<1>1. sess' \in [Sessions -> Session] /\ sess'[s] = r
  BY DEF LedgerInv, TypeOK
<1>2. TypeOK'
  BY <1>1 DEF LedgerInv, TypeOK
<1>3. ASSUME NEW t \in Sessions PROVE SessionConsistent(t)'
  <2>1. CASE t = s
    BY <2>1
  <2>2. CASE t # s
    <3>1. sess'[t] = sess[t]
      BY <2>2 DEF LedgerInv, TypeOK
    <3>2. SessionConsistent(t)
      BY DEF LedgerInv
    <3>3. sess[t].locked => \A u \in Sessions : sess'[u].locked => u = t
      BY <1>1, <3>2, <2>2 DEF SessionConsistent, LockFree, LedgerInv, TypeOK
    <3> QED BY <3>1, <3>2, <3>3 DEF SessionConsistent, IsBooked
  <2> QED BY <2>1, <2>2
<1>4. \A e \in EntryIds : RowConsistent(e)'
  BY DEF LedgerInv, RowConsistent
<1> QED BY <1>2, <1>3, <1>4 DEF LedgerInv

\* A session that gives up keeps the invariant.
LEMMA IdleStep ==
  ASSUME LedgerInv, NEW s \in Sessions, Become(s, Idle)
  PROVE  LedgerInv'
<1>1. sess'[s] = Idle
  BY DEF Become, LedgerInv, TypeOK
<1>2. SessionConsistent(s)'
  BY <1>1 DEF SessionConsistent, Idle, Updating, Numbering
<1>3. Idle.locked = FALSE
  BY DEF Idle
<1> QED BY <1>2, <1>3, BlankTypes, ReadStep

-----------------------------------------------------------------------------
(***************************************************************************)
(* First reads.                                                            *)
(***************************************************************************)
\* A request that starts keeps the invariant, whichever it is.
LEMMA BeginStep ==
  ASSUME LedgerInv, NEW s \in Sessions, Begin(s)
  PROVE  LedgerInv'
<1> USE DEF Ops, Session, Updating, Numbering
<1>1. ASSUME NEW q \in Requests, NEW p \in Periods, BeginCreate(s, q, p)
      PROVE  LedgerInv'
  <2> DEFINE l == Stored(q)
             r == [Idle EXCEPT !.op = "create", !.pc = "number",
                               !.period = p, !.lines = l]
  <2>1. l \in Lines /\ l \in Postable /\ Become(s, r)
    BY <1>1, StoredTypes DEF BeginCreate, Postable
  <2> HIDE DEF l
  <2>2. r \in Session /\ ~ r.locked
    BY <2>1, BlankTypes DEF Idle
  <2>3. SessionConsistent(s)'
    BY <2>1 DEF Become, SessionConsistent, Idle, LedgerInv, TypeOK
  <2> HIDE DEF r
  <2> QED BY <2>1, <2>2, <2>3, ReadStep
<1>2. ASSUME NEW q \in Requests, NEW p \in Periods, BeginEvent(s, q, p)
      PROVE  LedgerInv'
  <2> DEFINE l == Stored(q)
             r == [Idle EXCEPT !.op = "event", !.pc = "number",
                               !.period = p, !.lines = l]
  <2>1. l \in Lines /\ l \in Postable /\ Become(s, r)
    BY <1>2, StoredTypes DEF BeginEvent, Postable
  <2> HIDE DEF l
  <2>2. r \in Session /\ ~ r.locked
    BY <2>1, BlankTypes DEF Idle
  <2>3. SessionConsistent(s)'
    BY <2>1 DEF Become, SessionConsistent, Idle, LedgerInv, TypeOK
  <2> HIDE DEF r
  <2> QED BY <2>1, <2>2, <2>3, ReadStep
<1>3. ASSUME NEW op \in {"submit", "approve"}, NEW e \in EntryIds,
             BeginTransition(s, op, e)
      PROVE  LedgerInv'
  <2> DEFINE r == [Idle EXCEPT !.op = op, !.pc = "write", !.entry = e]
  <2>1. r \in Session /\ ~ r.locked /\ Become(s, r)
    BY <1>3, BlankTypes DEF BeginTransition, Idle
  <2>2. entries[e].status # "absent"
    BY <1>3 DEF BeginTransition, From
  <2>3. SessionConsistent(s)'
    BY <1>3, <2>2 DEF BeginTransition, Become, SessionConsistent, Idle, LedgerInv, TypeOK
  <2> HIDE DEF r
  <2> QED BY <2>1, <2>3, ReadStep
<1>4. ASSUME NEW e \in EntryIds, BeginPost(s, e)
      PROVE  LedgerInv'
  <2> DEFINE r == [Idle EXCEPT !.op = "post", !.pc = "period", !.entry = e,
                               !.period = entries[e].period]
  <2>1. r \in Session /\ ~ r.locked /\ Become(s, r)
    BY <1>4, BlankTypes DEF BeginPost, Idle, LedgerInv, TypeOK, Entry
  <2>2. entries[e].status # "absent"
    BY <1>4 DEF BeginPost, From
  <2>3. SessionConsistent(s)'
    BY <1>4, <2>2 DEF BeginPost, Become, SessionConsistent, Idle, LedgerInv, TypeOK
  <2> HIDE DEF r
  <2> QED BY <2>1, <2>3, ReadStep
<1>5. ASSUME NEW e \in EntryIds, NEW p \in Periods, BeginReverse(s, e, p)
      PROVE  LedgerInv'
  <2> DEFINE r == [Idle EXCEPT !.op = "reverse", !.pc = "period", !.entry = e,
                    !.period = p, !.lines = Mirror(entries[e].lines)]
  <2>1. Mirror(entries[e].lines) \in Lines
    BY LinesTypes DEF LedgerInv, TypeOK, Entry
  <2>2. r \in Session /\ ~ r.locked /\ Become(s, r)
    BY <1>5, <2>1, BlankTypes DEF BeginReverse, Idle
  <2>3. entries[e].status = "posted"
    BY <1>5 DEF BeginReverse, From
  <2>4. SessionConsistent(s)'
    BY <1>5, <2>3 DEF BeginReverse, Become, SessionConsistent, Idle, IsBooked,
                      Booked, LedgerInv, TypeOK
  <2> HIDE DEF r
  <2> QED BY <2>2, <2>4, ReadStep
<1> QED BY <1>1, <1>2, <1>3, <1>4, <1>5 DEF Begin

\* Reading the period keeps the invariant.
LEMMA ReadPeriodStep ==
  ASSUME LedgerInv, NEW s \in Sessions, ReadPeriod(s)
  PROVE  LedgerInv'
<1>1. CASE periodStatus[sess[s].period] = "open"
  <2> DEFINE r == [sess[s] EXCEPT
        !.pc = IF sess[s].op \in Numbering THEN "number" ELSE "write"]
  <2>1. Become(s, r) /\ sess[s] \in Session /\ SessionConsistent(s)
    BY <1>1 DEF ReadPeriod, LedgerInv, TypeOK
  <2>2. sess[s].pc = "period" /\ ~ sess[s].locked
    BY <2>1 DEF ReadPeriod, SessionConsistent, Session
  <2>3. r \in Session /\ ~ r.locked /\ sess'[s] = r
    BY <2>1, <2>2 DEF Session, Become, LedgerInv, TypeOK
  <2>4. SessionConsistent(s)'
    BY <2>1, <2>2, <2>3 DEF Become, SessionConsistent, Session, Updating,
                            Numbering, IsBooked
  <2> HIDE DEF r
  <2> QED BY <2>1, <2>3, <2>4, ReadStep
<1>2. CASE periodStatus[sess[s].period] # "open"
  BY <1>2, IdleStep DEF ReadPeriod
<1> QED BY <1>1, <1>2

\* Taking a number keeps the invariant: the lock is free, and without a
\* sequence row the number is 1.
LEMMA TakeNumberStep ==
  ASSUME LedgerInv, NEW s \in Sessions, TakeNumber(s)
  PROVE  LedgerInv'
<1>1. LockFree /\ sess[s] \in Session /\ SessionConsistent(s)
  BY DEF TakeNumber, LedgerInv, TypeOK
<1>2. sess[s].op \in Numbering /\ sess[s].pc = "number" /\ ~ sess[s].locked
  BY <1>1 DEF TakeNumber, SessionConsistent, LockFree
<1>3. CASE nextNumber = 0
  <2> DEFINE r == [sess[s] EXCEPT !.pc = "write", !.number = 1]
  <2>1. r \in Session /\ Become(s, r) /\ sess'[s] = r
    BY <1>1, <1>3 DEF TakeNumber, Session, Become, LedgerInv, TypeOK
  <2>2. SessionConsistent(s)'
    BY <1>1, <1>2, <2>1 DEF Become, SessionConsistent, Session, Updating,
                            Numbering, IsBooked
  <2> HIDE DEF r
  <2> QED BY <1>1, <2>1, <2>2, ReadStep
<1>4. CASE nextNumber # 0
  <2> DEFINE r == [sess[s] EXCEPT !.pc = "write", !.number = nextNumber,
                                  !.locked = TRUE]
  <2>1. r \in Session /\ Become(s, r) /\ sess'[s] = r
    BY <1>1, <1>4 DEF TakeNumber, Session, Become, LedgerInv, TypeOK
  <2>2. \A t \in Sessions : sess'[t].locked => t = s
    BY <1>1, <2>1 DEF Become, LockFree, LedgerInv, TypeOK
  <2>3. SessionConsistent(s)'
    BY <1>1, <1>2, <1>4, <2>1, <2>2 DEF Become, SessionConsistent, Session,
                                        Updating, Numbering, IsBooked
  <2> HIDE DEF r
  <2> QED BY <1>1, <2>1, <2>3, ReadStep
<1> QED BY <1>3, <1>4

-----------------------------------------------------------------------------
(***************************************************************************)
(* Commits.                                                                *)
(***************************************************************************)
\* The rows there are keep their lines and period, and booked ones stay booked.
RowsKept ==
  \A e \in EntryIds : entries[e].status # "absent" =>
    /\ entries'[e].status # "absent"
    /\ entries'[e].lines = entries[e].lines
    /\ entries'[e].period = entries[e].period
    /\ entries[e].status \in Booked => entries'[e].status \in Booked

\* The sessions stay consistent when one of them commits, as long as no other
\* session holds a number the commit takes.
LEMMA SessionsAfterCommit ==
  ASSUME LedgerInv, NEW s \in Sessions, RowsKept,
         sess' = [sess EXCEPT ![s] = Idle],
         nextNumber' = nextNumber \/ \A t \in Sessions \ {s} : ~ sess[t].locked
  PROVE  /\ sess' \in [Sessions -> Session]
         /\ \A t \in Sessions : SessionConsistent(t)'
<1>1. sess' \in [Sessions -> Session] /\ sess'[s] = Idle
  BY BlankTypes DEF LedgerInv, TypeOK
<1>2. SessionConsistent(s)'
  BY <1>1 DEF SessionConsistent, Idle, Updating, Numbering
<1>3. ASSUME NEW t \in Sessions, t # s PROVE SessionConsistent(t)'
  <2>1. sess'[t] = sess[t] /\ SessionConsistent(t) /\ sess[t] \in Session
    BY <1>3 DEF LedgerInv, TypeOK
  <2>2. sess[t].locked => \A u \in Sessions : sess'[u].locked => u = t
    BY <1>1, <2>1 DEF SessionConsistent, Idle, LedgerInv, TypeOK
  <2>3. sess[t].locked => nextNumber' = nextNumber
    BY <1>3
  <2>4. sess[t].op \in Updating =>
          sess[t].entry \in EntryIds /\ entries'[sess[t].entry].status # "absent"
    BY <2>1 DEF SessionConsistent, RowsKept
  <2>5. sess[t].op = "post" => sess[t].period = entries'[sess[t].entry].period
    BY <2>1 DEF SessionConsistent, RowsKept, Updating
  <2>6. sess[t].op = "reverse" =>
          /\ entries'[sess[t].entry].status \in Booked
          /\ sess[t].lines = Mirror(entries'[sess[t].entry].lines)
    BY <2>1 DEF SessionConsistent, RowsKept, Updating, IsBooked
  <2> QED BY <2>1, <2>2, <2>3, <2>4, <2>5, <2>6 DEF SessionConsistent, IsBooked
<1> QED BY <1>1, <1>2, <1>3

\* A session that may insert a row has taken that row's number, and no other
\* session holds the lock.
LEMMA TakenNumber ==
  ASSUME LedgerInv, NEW s \in Sessions, NEW ops, Writing(s, ops),
         sess[s].op \in Numbering, NEW e \in EntryIds, Fresh(e)
  PROVE  /\ sess[s].number = e
         /\ \A d \in EntryIds : d < nextNumber <=> d < e
         /\ \A t \in Sessions \ {s} : ~ sess[t].locked
<1>1. e \in Nat /\ e >= 1 /\ nextNumber \in Nat
  BY LedgerAssumption DEF EntryIds, LedgerInv, TypeOK
<1>2. ~ (e < nextNumber)
  BY DEF LedgerInv, RowConsistent, Fresh
<1>3. \A d \in 1..(e - 1) : d \in EntryIds
  BY LedgerAssumption DEF EntryIds
<1>4. \A d \in 1..(e - 1) : d < nextNumber
  BY <1>1, <1>3 DEF LedgerInv, RowConsistent, Fresh, Absent
<1>5. nextNumber = e \/ (nextNumber = 0 /\ e = 1)
  <2>1. CASE e = 1
    BY <1>1, <1>2, <2>1 DEF LedgerInv
  <2>2. CASE e > 1
    <3>1. e - 1 < nextNumber
      BY <1>1, <1>4, <2>2
    <3> QED BY <1>1, <1>2, <3>1
  <2> QED BY <1>1, <2>1, <2>2
<1>6. SessionConsistent(s) /\ sess[s].pc = "write"
  BY DEF LedgerInv, Writing
<1>7. CASE sess[s].locked
  <2>1. sess[s].number = nextNumber /\ nextNumber # 0
    BY <1>6, <1>7 DEF SessionConsistent
  <2>2. \A t \in Sessions : sess[t].locked => t = s
    BY <1>6, <1>7 DEF SessionConsistent
  <2> QED BY <1>1, <1>5, <2>1, <2>2 DEF EntryIds
<1>8. CASE ~ sess[s].locked
  <2>1. sess[s].number = 1 /\ NumberUnused(1)
    BY <1>6, <1>8 DEF SessionConsistent, Writing, WriteAllowed
  <2>2. 1 \in EntryIds /\ ~ (1 < nextNumber)
    BY <1>1, <2>1, LedgerAssumption
       DEF EntryIds, NumberUnused, LedgerInv, RowConsistent
  <2>3. nextNumber = 0 /\ e = 1
    BY <1>1, <1>5, <2>2 DEF LedgerInv
  <2>4. \A t \in Sessions : ~ sess[t].locked
    BY <2>3 DEF LedgerInv, SessionConsistent
  <2> QED BY <2>1, <2>3, <2>4 DEF EntryIds
<1> QED BY <1>7, <1>8

\* What every commit starts from.
LEMMA WritingFacts ==
  ASSUME LedgerInv, NEW s \in Sessions, NEW ops, Writing(s, ops)
  PROVE  /\ sess[s] \in Session /\ SessionConsistent(s)
         /\ sess[s].op \in ops /\ sess[s].pc = "write"
         /\ sess' = [sess EXCEPT ![s] = Idle]
         /\ periodStatus' = periodStatus
BY DEF LedgerInv, TypeOK, Writing

\* A workflow step keeps the invariant: the trigger lets it touch no booked row.
LEMMA CommitTransitionStep ==
  ASSUME LedgerInv, NEW s \in Sessions, CommitTransition(s)
  PROVE  LedgerInv' /\ RowsKept
<1> DEFINE e == sess[s].entry
<1> USE DEF CommitTransition
<1>1. /\ sess[s].op \in {"submit", "approve"} /\ sess' = [sess EXCEPT ![s] = Idle]
      /\ periodStatus' = periodStatus /\ SessionConsistent(s)
  BY WritingFacts
<1>2. e \in EntryIds /\ entries[e].status \notin Booked /\ entries[e].status # "absent"
  BY <1>1 DEF SessionConsistent, Updating, Writing, WriteAllowed, TriggerAllows, To, Booked
<1>3. To[sess[s].op] \in {"submitted", "approved"}
  BY <1>1 DEF To
<1>4. /\ entries' = [entries EXCEPT ![e].status = To[sess[s].op]]
      /\ gl' = gl /\ nextNumber' = nextNumber
  OBVIOUS
<1>5. entries' \in [EntryIds -> Entry]
  BY <1>2, <1>3, <1>4 DEF LedgerInv, TypeOK, Entry, Statuses
<1>6. RowsKept
  BY <1>2, <1>3, <1>4 DEF RowsKept, LedgerInv, TypeOK, Entry
<1>7. \A d \in EntryIds : RowConsistent(d)'
  BY <1>2, <1>3, <1>4 DEF LedgerInv, TypeOK, Entry, RowConsistent, Absent, Booked
<1>8. TypeOK' /\ \A t \in Sessions : SessionConsistent(t)'
  BY <1>1, <1>4, <1>5, <1>6, SessionsAfterCommit DEF LedgerInv, TypeOK
<1> QED BY <1>4, <1>6, <1>7, <1>8 DEF LedgerInv

\* Posting an approved entry keeps the invariant.
LEMMA CommitPostStep ==
  ASSUME LedgerInv, NEW s \in Sessions, CommitPost(s)
  PROVE  LedgerInv' /\ RowsKept
<1> DEFINE e == sess[s].entry
<1> USE DEF CommitPost
<1>1. /\ sess[s].op = "post" /\ sess' = [sess EXCEPT ![s] = Idle]
      /\ periodStatus' = periodStatus /\ SessionConsistent(s)
  BY WritingFacts
<1>2. e \in EntryIds /\ entries[e].status \notin Booked /\ entries[e].status # "absent"
  BY <1>1 DEF SessionConsistent, Updating, Writing, WriteAllowed, TriggerAllows, To, Booked
<1>3. /\ entries' = [entries EXCEPT ![e].status = "posted"]
      /\ gl' = [gl EXCEPT ![entries[e].period] = Increment(@, entries[e].lines)]
      /\ nextNumber' = nextNumber
  OBVIOUS
<1>4. entries' \in [EntryIds -> Entry]
  BY <1>2, <1>3 DEF LedgerInv, TypeOK, Entry, Statuses
<1>5. RowConsistent(e) /\ entries[e] \in Entry
  BY <1>2 DEF LedgerInv, TypeOK
<1>6. entries[e].period \in Periods /\ entries[e].lines \in Lines
  BY <1>2, <1>5 DEF RowConsistent, Absent, Entry
<1>7. gl' \in [Periods -> Totals]
  BY <1>3, <1>6, LinesTypes DEF LedgerInv, TypeOK
<1>8. RowsKept
  BY <1>2, <1>3 DEF RowsKept, LedgerInv, TypeOK, Entry
<1>9. \A d \in EntryIds : RowConsistent(d)'
  BY <1>2, <1>3 DEF LedgerInv, TypeOK, Entry, RowConsistent, Absent, Booked
<1>10. TypeOK' /\ \A t \in Sessions : SessionConsistent(t)'
  BY <1>1, <1>3, <1>4, <1>7, <1>8, SessionsAfterCommit DEF LedgerInv, TypeOK
<1> QED BY <1>3, <1>8, <1>9, <1>10 DEF LedgerInv

\* Session s inserts row e, the reversal of original unless that is 0, and marks
\* the original; what it writes is right for its kind.
Inserts(s, e, status, original) ==
  /\ sess[s].op \in Numbering /\ Fresh(e)
  /\ status \in {"draft", "posted"} /\ original \in EntryIds \cup {0}
  /\ original # 0 => status = "posted" /\ entries[original].status # "absent"
  /\ original = 0 => sess[s].lines \in Postable
  /\ entries' = [d \in EntryIds |-> entries'[d]]
  /\ entries'[e] = NewEntry(s, status, original)
  /\ \A d \in EntryIds \ {e} : entries'[d] =
       IF d = original THEN [entries[d] EXCEPT !.status = "reversed"] ELSE entries[d]
  /\ gl' \in [Periods -> Totals]
  /\ nextNumber' = sess[s].number + 1

\* Inserting a row keeps the invariant.
LEMMA InsertStep ==
  ASSUME LedgerInv, NEW s \in Sessions, NEW ops, Writing(s, ops),
         NEW e \in EntryIds, NEW status, NEW original, Inserts(s, e, status, original)
  PROVE  LedgerInv' /\ RowsKept
<1>1. /\ sess[s] \in Session /\ SessionConsistent(s)
      /\ sess' = [sess EXCEPT ![s] = Idle] /\ periodStatus' = periodStatus
  BY WritingFacts
<1> USE DEF Inserts
<1>2. /\ sess[s].number = e
      /\ \A d \in EntryIds : d < nextNumber <=> d < e
      /\ \A t \in Sessions \ {s} : ~ sess[t].locked
  BY TakenNumber
<1>3. e \in Nat /\ e >= 1 /\ nextNumber' = e + 1
  BY <1>2 DEF EntryIds
<1>4. original # e /\ entries[e].status = "absent"
  BY <1>3 DEF Fresh
<1>5. NewEntry(s, status, original) \in Entry
  BY <1>1 DEF NewEntry, Entry, Session, Statuses
<1> DEFINE changed(d) == [entries[d] EXCEPT !.status = "reversed"]
<1>10. \A d \in EntryIds : entries[d] \in Entry
  BY DEF LedgerInv, TypeOK
<1>12. ASSUME NEW d \in EntryIds
       PROVE  /\ changed(d) \in Entry /\ changed(d).status = "reversed"
              /\ changed(d).lines = entries[d].lines
              /\ changed(d).period = entries[d].period
              /\ changed(d).number = entries[d].number
              /\ changed(d).reversalOf = entries[d].reversalOf
  BY <1>10 DEF Entry, Statuses
<1>13. \A d \in EntryIds : entries'[d] = IF d = e THEN NewEntry(s, status, original)
                                        ELSE IF d = original THEN changed(d)
                                        ELSE entries[d]
  OBVIOUS
<1> HIDE DEF changed
<1>6. entries' \in [EntryIds -> Entry]
  <2>1. \A d \in EntryIds : entries'[d] \in Entry
    BY <1>5, <1>10, <1>12, <1>13
  <2> QED BY <2>1
<1>7. RowsKept
  BY <1>4, <1>12, <1>13 DEF RowsKept, Booked
<1>8. ASSUME NEW d \in EntryIds PROVE RowConsistent(d)'
  <2>1. d < nextNumber' <=> d < nextNumber \/ d = e
    BY <1>2, <1>3 DEF EntryIds
  <2>2. CASE d = e
    <3>1. entries'[d] = NewEntry(s, status, original) /\ sess[s].period \in Periods
      BY <2>2, <1>1, <1>13 DEF SessionConsistent
    <3> QED BY <3>1, <2>1, <2>2, <1>2 DEF NewEntry, RowConsistent, Booked
  <2>3. CASE d # e
    <3>1. RowConsistent(d) /\ entries[d] \in Entry
      BY DEF LedgerInv, TypeOK
    <3>2. d = original => d < nextNumber
      BY <3>1 DEF RowConsistent, Absent, EntryIds
    <3> QED BY <2>1, <2>3, <3>1, <3>2, <1>12, <1>13 DEF RowConsistent, Booked
  <2> QED BY <2>2, <2>3
<1>15. sess' \in [Sessions -> Session] /\ \A t \in Sessions : SessionConsistent(t)'
  BY <1>1, <1>2, <1>7, SessionsAfterCommit
<1>9. TypeOK'
  BY <1>1, <1>3, <1>6, <1>15 DEF LedgerInv, TypeOK
<1> QED BY <1>15, <1>3, <1>7, <1>8, <1>9 DEF LedgerInv

\* Creating a draft keeps the invariant.
LEMMA CommitCreateStep ==
  ASSUME LedgerInv, NEW s \in Sessions, CommitCreate(s)
  PROVE  LedgerInv' /\ RowsKept
<1>1. Writing(s, {"create"}) /\ sess[s].op = "create" /\ SessionConsistent(s)
  BY WritingFacts DEF CommitCreate
<1>2. PICK e \in EntryIds :
        Fresh(e) /\ entries' = [entries EXCEPT ![e] = NewEntry(s, "draft", 0)]
  BY DEF CommitCreate
<1>3. /\ nextNumber' = sess[s].number + 1 /\ gl' \in [Periods -> Totals]
      /\ sess[s].lines \in Postable
  BY <1>1 DEF CommitCreate, SessionConsistent, LedgerInv, TypeOK
<1>4. /\ entries' = [d \in EntryIds |-> entries'[d]]
      /\ entries'[e] = NewEntry(s, "draft", 0)
      /\ \A d \in EntryIds \ {e} : entries'[d] = entries[d]
  BY <1>2 DEF LedgerInv, TypeOK
<1>8. \A d \in EntryIds \ {e} : entries'[d] =
        IF d = 0 THEN [entries[d] EXCEPT !.status = "reversed"] ELSE entries[d]
  BY <1>4 DEF EntryIds
<1>5. sess[s].op \in Numbering
  BY <1>1 DEF Numbering
<1>9. Inserts(s, e, "draft", 0)
  BY <1>2, <1>3, <1>4, <1>5, <1>8 DEF Inserts
<1> QED BY <1>1, <1>9, InsertStep

\* Posting a module's event keeps the invariant.
LEMMA CommitEventStep ==
  ASSUME LedgerInv, NEW s \in Sessions, CommitEvent(s)
  PROVE  LedgerInv' /\ RowsKept
<1>1. Writing(s, {"event"}) /\ sess[s].op = "event" /\ SessionConsistent(s)
  BY WritingFacts DEF CommitEvent
<1>2. PICK e \in EntryIds :
        Fresh(e) /\ entries' = [entries EXCEPT ![e] = NewEntry(s, "posted", 0)]
  BY DEF CommitEvent
<1>3. sess[s].op \in Numbering
  BY <1>1 DEF Numbering
<1>4. sess[s].period \in Periods /\ sess[s].lines \in Lines
  BY <1>1, <1>3 DEF SessionConsistent, LedgerInv, TypeOK, Session
<1>5. /\ nextNumber' = sess[s].number + 1
      /\ sess[s].lines \in Postable
  BY <1>1 DEF CommitEvent, SessionConsistent
<1>6. gl' \in [Periods -> Totals]
  BY <1>4, LinesTypes DEF CommitEvent, LedgerInv, TypeOK
<1>7. /\ entries' = [d \in EntryIds |-> entries'[d]]
      /\ entries'[e] = NewEntry(s, "posted", 0)
      /\ \A d \in EntryIds \ {e} : entries'[d] = entries[d]
  BY <1>2 DEF LedgerInv, TypeOK
<1>8. \A d \in EntryIds \ {e} : entries'[d] =
        IF d = 0 THEN [entries[d] EXCEPT !.status = "reversed"] ELSE entries[d]
  BY <1>7 DEF EntryIds
<1>9. Inserts(s, e, "posted", 0)
  BY <1>2, <1>3, <1>5, <1>6, <1>7, <1>8 DEF Inserts
<1> QED BY <1>1, <1>9, InsertStep

\* What a reversal writes: its mirror entry and the original's status.
LEMMA ReverseWrites ==
  ASSUME LedgerInv, NEW s \in Sessions, CommitReverse(s)
  PROVE  LET o == sess[s].entry IN
         /\ Writing(s, {"reverse"}) /\ sess[s].op \in Numbering
         /\ o \in EntryIds /\ entries[o].status = "posted"
         /\ sess[s].period \in Periods /\ sess[s].lines \in Lines
         /\ sess[s].lines = Mirror(entries[o].lines)
         /\ gl' = [gl EXCEPT ![sess[s].period] = Increment(@, sess[s].lines)]
         /\ nextNumber' = sess[s].number + 1
         /\ \E e \in EntryIds :
              /\ Fresh(e) /\ e # o
              /\ entries' = [d \in EntryIds |-> entries'[d]]
              /\ entries'[e] = NewEntry(s, "posted", o)
              /\ \A d \in EntryIds \ {e} : entries'[d] =
                   IF d = o THEN [entries[d] EXCEPT !.status = "reversed"] ELSE entries[d]
<1> DEFINE o == sess[s].entry
<1>1. /\ Writing(s, {"reverse"}) /\ sess[s].op = "reverse" /\ SessionConsistent(s)
      /\ sess[s] \in Session
  BY WritingFacts DEF CommitReverse
<1>2. /\ o \in EntryIds /\ entries[o].status \in Booked
      /\ sess[s].period \in Periods /\ sess[s].lines \in Lines
      /\ sess[s].lines = Mirror(entries[o].lines)
  BY <1>1 DEF SessionConsistent, Updating, Numbering, IsBooked, Session
<1>3. entries[o].status = "posted"
  BY <1>1, <1>2 DEF Writing, WriteAllowed, Updating, TriggerAllows, To, Booked
<1>4. PICK e \in EntryIds :
        /\ Fresh(e)
        /\ entries' = [entries EXCEPT ![e] = NewEntry(s, "posted", o),
                                      ![o].status = "reversed"]
  BY DEF CommitReverse
<1>5. e # o
  BY <1>3, <1>4 DEF Fresh
<1>6. /\ entries' = [d \in EntryIds |-> entries'[d]]
      /\ entries'[e] = NewEntry(s, "posted", o)
      /\ \A d \in EntryIds \ {e} : entries'[d] =
           IF d = o THEN [entries[d] EXCEPT !.status = "reversed"] ELSE entries[d]
  BY <1>2, <1>4, <1>5 DEF LedgerInv, TypeOK
<1> QED BY <1>1, <1>2, <1>3, <1>4, <1>5, <1>6 DEF CommitReverse, Numbering

\* Reversing a posted entry keeps the invariant.
LEMMA CommitReverseStep ==
  ASSUME LedgerInv, NEW s \in Sessions, CommitReverse(s)
  PROVE  LedgerInv' /\ RowsKept
<1> DEFINE o == sess[s].entry
<1>1. /\ Writing(s, {"reverse"}) /\ sess[s].op \in Numbering
      /\ o \in EntryIds /\ entries[o].status = "posted"
      /\ sess[s].period \in Periods /\ sess[s].lines \in Lines
      /\ gl' = [gl EXCEPT ![sess[s].period] = Increment(@, sess[s].lines)]
      /\ nextNumber' = sess[s].number + 1
  BY ReverseWrites
<1>2. PICK e \in EntryIds :
        /\ Fresh(e)
        /\ entries' = [d \in EntryIds |-> entries'[d]]
        /\ entries'[e] = NewEntry(s, "posted", o)
        /\ \A d \in EntryIds \ {e} : entries'[d] =
             IF d = o THEN [entries[d] EXCEPT !.status = "reversed"] ELSE entries[d]
  BY ReverseWrites
<1>3. gl' \in [Periods -> Totals]
  BY <1>1, LinesTypes DEF LedgerInv, TypeOK
<1>4. o # 0 /\ entries[o].status # "absent"
  BY <1>1 DEF EntryIds
<1>5. Inserts(s, e, "posted", o)
  BY <1>1, <1>2, <1>3, <1>4 DEF Inserts
<1> QED BY <1>1, <1>5, InsertStep

-----------------------------------------------------------------------------
\* The initial state satisfies the invariant.
LEMMA InitInv == Init => LedgerInv
<1> SUFFICES ASSUME Init PROVE LedgerInv
  OBVIOUS
<1> USE DEF Init
<1>1. TypeOK
  BY BlankTypes, LinesTypes DEF TypeOK, PeriodStatuses
<1>2. \A s \in Sessions : SessionConsistent(s)
  BY DEF SessionConsistent, Idle, Updating, Numbering
<1>3. \A e \in EntryIds : RowConsistent(e)
  BY DEF RowConsistent, EntryIds
<1> QED BY <1>1, <1>2, <1>3 DEF LedgerInv

\* Every step of a session keeps the invariant.
LEMMA AdvanceStep ==
  ASSUME LedgerInv, NEW s \in Sessions, Advance(s)
  PROVE  LedgerInv'
<1>1. Reject(s) => LedgerInv'
  BY IdleStep DEF Reject
<1> QED BY <1>1, ReadPeriodStep, CommitTransitionStep, CommitCreateStep,
           CommitPostStep, CommitEventStep, CommitReverseStep DEF Advance

\* Opening, closing or locking a period keeps the invariant.
LEMMA SetPeriodStatusStep ==
  ASSUME LedgerInv, NEW p \in Periods, NEW status \in PeriodStatuses,
         SetPeriodStatus(p, status)
  PROVE  LedgerInv'
<1> USE DEF SetPeriodStatus
<1>1. TypeOK'
  BY DEF LedgerInv, TypeOK
<1>2. \A s \in Sessions : SessionConsistent(s)'
  BY DEF LedgerInv, SessionConsistent, IsBooked
<1>3. \A e \in EntryIds : RowConsistent(e)'
  BY DEF LedgerInv, RowConsistent
<1> QED BY <1>1, <1>2, <1>3 DEF LedgerInv

\* The invariant is inductive.
LEMMA StepInv == LedgerInv /\ [Next]_vars => LedgerInv'
<1> SUFFICES ASSUME LedgerInv, [Next]_vars PROVE LedgerInv'
  OBVIOUS
<1>1. ASSUME NEW s \in Sessions, Begin(s) \/ TakeNumber(s) \/ Advance(s) \/ Abort(s)
      PROVE  LedgerInv'
  <2>1. Abort(s) => LedgerInv'
    BY IdleStep DEF Abort
  <2> QED BY <1>1, <2>1, BeginStep, TakeNumberStep, AdvanceStep
<1>2. ASSUME NEW p \in Periods, NEW status \in PeriodStatuses, SetPeriodStatus(p, status)
      PROVE  LedgerInv'
  BY <1>2, SetPeriodStatusStep
<1>3. CASE UNCHANGED vars
  <2> USE <1>3 DEF vars
  <2>1. TypeOK'
    BY DEF LedgerInv, TypeOK
  <2>2. \A s \in Sessions : SessionConsistent(s)'
    BY DEF LedgerInv, SessionConsistent, IsBooked
  <2>3. \A e \in EntryIds : RowConsistent(e)'
    BY DEF LedgerInv, RowConsistent
  <2> QED BY <2>1, <2>2, <2>3 DEF LedgerInv
<1> QED BY <1>1, <1>2, <1>3 DEF Next

\* Rows, sessions and the number sequence stay consistent with each other in
\* every reachable state.
THEOREM LedgerInvariant == Spec => []LedgerInv
<1>1. Init => LedgerInv
  BY InitInv
<1>2. LedgerInv /\ [Next]_vars => LedgerInv'
  BY StepInv
<1> QED BY <1>1, <1>2, PTL DEF Spec

\* The tables and the sessions always hold what their columns allow.
THEOREM TypeCorrect == Spec => []TypeOK
<1>1. LedgerInv => TypeOK
  BY DEF LedgerInv
<1> QED BY <1>1, LedgerInvariant, PTL

\* Entry numbers are gapless and in the order of commit.
THEOREM NumbersCorrect == Spec => []NumbersInCommitOrder
<1>1. LedgerInv => NumbersInCommitOrder
  <2> SUFFICES ASSUME LedgerInv, NEW e \in EntryIds
               PROVE  /\ entries[e].status # "absent" => entries[e].number = e
                      /\ entries[e].status # "absent" <=> e < nextNumber
    BY DEF NumbersInCommitOrder
  <2> QED BY DEF LedgerInv, RowConsistent, Absent
<1> QED BY <1>1, LedgerInvariant, PTL

-----------------------------------------------------------------------------
(***************************************************************************)
(* What the steps do to the book.                                          *)
(***************************************************************************)
\* Only a commit writes entries or balances.
LEMMA Writers ==
  ASSUME [Next]_vars
  PROVE  \/ entries' = entries /\ gl' = gl
         \/ \E s \in Sessions : \/ CommitTransition(s) \/ CommitCreate(s)
                               \/ CommitPost(s) \/ CommitEvent(s) \/ CommitReverse(s)
BY DEF Next, vars, Begin, BeginCreate, BeginEvent, BeginTransition, BeginPost,
       BeginReverse, Become, TakeNumber, Advance, ReadPeriod, Reject, Abort,
       SetPeriodStatus

\* What a commit may do: keep the book, add entry e to it in period p with the
\* lines l (its balances with it), and turn the posted original into a reversed
\* one when l is its mirror.
Keeps(d) ==
  \/ ~ IsBooked(d) /\ entries'[d].status \notin Booked
  \/ entries'[d] = entries[d]

AddsNothing == gl' = gl /\ \A d \in EntryIds : Keeps(d)

Adds(e, p, l) ==
  /\ ~ IsBooked(e) /\ p \in Periods /\ l \in Lines
  /\ entries'[e].status = "posted" /\ entries'[e].period = p /\ entries'[e].lines = l
  /\ gl' = [gl EXCEPT ![p] = Increment(@, l)]

AddsEntry(e, p, l) ==
  /\ Adds(e, p, l)
  /\ entries'[e].reversalOf = 0 /\ l \in Postable
  /\ \A d \in EntryIds \ {e} : Keeps(d)

AddsReversal(o, e, p) ==
  /\ Adds(e, p, Mirror(entries[o].lines))
  /\ entries'[e].reversalOf = o /\ o # e
  /\ entries[o].status = "posted"
  /\ entries'[o] = [entries[o] EXCEPT !.status = "reversed"]
  /\ \A d \in EntryIds \ {e, o} : Keeps(d)

\* Every step keeps the book, adds one entry or adds one reversal to it.
LEMMA BookStep ==
  ASSUME LedgerInv, [Next]_vars
  PROVE  \/ AddsNothing
         \/ \E e \in EntryIds, p \in Periods, l \in Lines : AddsEntry(e, p, l)
         \/ \E o, e \in EntryIds, p \in Periods : AddsReversal(o, e, p)
<1>1. CASE entries' = entries /\ gl' = gl
  BY <1>1 DEF AddsNothing, Keeps
<1>2. ASSUME NEW s \in Sessions, CommitTransition(s) PROVE AddsNothing
  <2>1. /\ sess[s].op \in {"submit", "approve"} /\ SessionConsistent(s)
        /\ WriteAllowed(s)
    BY <1>2, WritingFacts DEF CommitTransition, Writing
  <2>2. To[sess[s].op] \in {"submitted", "approved"}
    BY <2>1 DEF To
  <2>3. entries[sess[s].entry].status \notin Booked
    BY <2>1, <2>2 DEF WriteAllowed, Updating, TriggerAllows, Booked
  <2> QED BY <1>2, <2>1, <2>2, <2>3
          DEF CommitTransition, AddsNothing, Keeps, IsBooked, Booked, Updating,
              SessionConsistent, LedgerInv, TypeOK, Entry
<1>3. ASSUME NEW s \in Sessions, CommitCreate(s) PROVE AddsNothing
  <2>1. PICK e \in EntryIds :
          Fresh(e) /\ entries' = [entries EXCEPT ![e] = NewEntry(s, "draft", 0)]
    BY <1>3 DEF CommitCreate
  <2> QED BY <1>3, <2>1 DEF CommitCreate, Fresh, AddsNothing, Keeps, IsBooked,
                            Booked, NewEntry, LedgerInv, TypeOK
<1>4. ASSUME NEW s \in Sessions, CommitPost(s)
      PROVE  \E e \in EntryIds, p \in Periods, l \in Lines : AddsEntry(e, p, l)
  <2> DEFINE e == sess[s].entry
  <2>1. sess[s].op = "post" /\ SessionConsistent(s) /\ WriteAllowed(s)
    BY <1>4, WritingFacts DEF CommitPost, Writing
  <2>2. e \in EntryIds /\ ~ IsBooked(e) /\ entries[e].status # "absent"
    BY <2>1 DEF SessionConsistent, Updating, WriteAllowed, TriggerAllows, To,
                IsBooked, Booked
  <2>3. RowConsistent(e) /\ entries[e] \in Entry
    BY <2>2 DEF LedgerInv, TypeOK
  <2>4. /\ entries[e].period \in Periods /\ entries[e].lines \in Lines
        /\ entries[e].reversalOf = 0
        /\ entries[e].lines \in Postable
    BY <2>2, <2>3 DEF RowConsistent, Entry, Absent, IsBooked
  <2>5. /\ entries' = [entries EXCEPT ![e].status = "posted"]
        /\ gl' = [gl EXCEPT ![entries[e].period] = Increment(@, entries[e].lines)]
    BY <1>4 DEF CommitPost
  <2>6. /\ entries'[e] = [entries[e] EXCEPT !.status = "posted"]
        /\ \A d \in EntryIds \ {e} : entries'[d] = entries[d]
    BY <2>2, <2>5 DEF LedgerInv, TypeOK
  <2>7. /\ entries'[e].status = "posted" /\ entries'[e].period = entries[e].period
        /\ entries'[e].lines = entries[e].lines /\ entries'[e].reversalOf = 0
    BY <2>3, <2>4, <2>6 DEF Entry
  <2>8. AddsEntry(e, entries[e].period, entries[e].lines)
    BY <2>2, <2>4, <2>5, <2>6, <2>7 DEF AddsEntry, Adds, Keeps
  <2> HIDE DEF e
  <2> QED BY <2>2, <2>4, <2>8
<1>5. ASSUME NEW s \in Sessions, CommitEvent(s)
      PROVE  \E e \in EntryIds, p \in Periods, l \in Lines : AddsEntry(e, p, l)
  <2>1. PICK e \in EntryIds :
          Fresh(e) /\ entries' = [entries EXCEPT ![e] = NewEntry(s, "posted", 0)]
    BY <1>5 DEF CommitEvent
  <2>2. sess[s].op = "event" /\ SessionConsistent(s) /\ sess[s] \in Session
    BY <1>5, WritingFacts DEF CommitEvent
  <2>3. /\ sess[s].period \in Periods /\ sess[s].lines \in Lines
        /\ sess[s].lines \in Postable
    BY <2>2 DEF SessionConsistent, Numbering, Session
  <2>4. /\ entries'[e] = NewEntry(s, "posted", 0)
        /\ \A d \in EntryIds \ {e} : entries'[d] = entries[d]
    BY <2>1 DEF LedgerInv, TypeOK
  <2>5. AddsEntry(e, sess[s].period, sess[s].lines)
    BY <1>5, <2>1, <2>3, <2>4 DEF CommitEvent, AddsEntry, Adds, Keeps, NewEntry,
                                  Fresh, IsBooked, Booked
  <2> QED BY <2>3, <2>5
<1>6. ASSUME NEW s \in Sessions, CommitReverse(s)
      PROVE  \E o, e \in EntryIds, p \in Periods : AddsReversal(o, e, p)
  <2> DEFINE o == sess[s].entry
  <2>1. /\ o \in EntryIds /\ entries[o].status = "posted"
        /\ sess[s].period \in Periods /\ sess[s].lines \in Lines
        /\ sess[s].lines = Mirror(entries[o].lines)
        /\ gl' = [gl EXCEPT ![sess[s].period] = Increment(@, sess[s].lines)]
    BY <1>6, ReverseWrites
  <2>2. PICK e \in EntryIds :
          /\ Fresh(e) /\ e # o
          /\ entries'[e] = NewEntry(s, "posted", o)
          /\ \A d \in EntryIds \ {e} : entries'[d] =
               IF d = o THEN [entries[d] EXCEPT !.status = "reversed"] ELSE entries[d]
    BY <1>6, ReverseWrites
  <2> HIDE DEF o
  <2>3. Adds(e, sess[s].period, Mirror(entries[o].lines)) /\ entries'[e].reversalOf = o
    BY <2>1, <2>2 DEF Adds, NewEntry, Fresh, IsBooked, Booked
  <2>4. \A d \in EntryIds \ {e, o} : Keeps(d)
    BY <2>2 DEF Keeps
  <2>5. entries'[o] = [entries[o] EXCEPT !.status = "reversed"]
    BY <2>1, <2>2
  <2>6. AddsReversal(o, e, sess[s].period)
    BY <2>1, <2>2, <2>3, <2>4, <2>5 DEF AddsReversal
  <2> QED BY <2>1, <2>6
<1> QED BY <1>1, <1>2, <1>3, <1>4, <1>5, <1>6, Writers

\* A booked entry never changes, except from posted to reversed.
THEOREM LedgerIsImmutable == Spec => LedgerImmutable
<1> DEFINE Kept(e) ==
      \/ entries'[e] = entries[e]
      \/ /\ entries[e].status = "posted"
         /\ entries'[e] = [entries[e] EXCEPT !.status = "reversed"]
<1>1. ASSUME LedgerInv, [Next]_vars, NEW e \in EntryIds, IsBooked(e)
      PROVE  Kept(e)
  <2>1. CASE AddsNothing
    BY <1>1, <2>1 DEF AddsNothing, Keeps
  <2>2. ASSUME NEW d \in EntryIds, NEW p \in Periods, NEW l \in Lines, AddsEntry(d, p, l)
        PROVE  Kept(e)
    BY <1>1, <2>2 DEF AddsEntry, Adds, Keeps
  <2>3. ASSUME NEW o \in EntryIds, NEW d \in EntryIds, NEW p \in Periods,
               AddsReversal(o, d, p)
        PROVE  Kept(e)
    BY <1>1, <2>3 DEF AddsReversal, Adds, Keeps
  <2> QED BY <1>1, <2>1, <2>2, <2>3, BookStep
<1>2. LedgerInv /\ [Next]_vars =>
        [\A e \in EntryIds : IsBooked(e) => Kept(e)]_vars
  BY <1>1
<1> QED BY <1>2, LedgerInvariant, PTL DEF Spec, LedgerImmutable

\* Reversals stay exact.
LEMMA ReversalStep ==
  ASSUME LedgerInv, ReversalExact, [Next]_vars
  PROVE  ReversalExact'
<1> DEFINE Exact(e) ==
      /\ entries[e].status = "reversed" <=>
           \E r \in EntryIds : entries[r].reversalOf = e
      /\ \A r \in EntryIds : entries[r].reversalOf = e =>
           /\ IsBooked(r) /\ r # e
           /\ entries[r].lines = Mirror(entries[e].lines)
           /\ \A q \in EntryIds : entries[q].reversalOf = e => q = r
<1>0. \A e \in EntryIds : Exact(e)
  BY DEF ReversalExact
<1>1. \A d \in EntryIds : ~ IsBooked(d) => entries[d].reversalOf = 0
  BY DEF LedgerInv, RowConsistent, Absent, IsBooked
<1>2. \A d \in EntryIds : entries'[d].status \notin Booked => entries'[d].reversalOf = 0
  BY StepInv DEF LedgerInv, RowConsistent, Absent
<1>3. ASSUME \A d \in EntryIds : /\ entries'[d].reversalOf = entries[d].reversalOf
                                 /\ entries'[d].status = "reversed" <=>
                                      entries[d].status = "reversed"
                                 /\ IsBooked(d) => entries'[d] = entries[d],
             NEW e \in EntryIds
      PROVE  Exact(e)'
  <2>1. entries'[e].status = "reversed" <=>
          \E r \in EntryIds : entries'[r].reversalOf = e
    BY <1>0, <1>3
  <2>2. ASSUME NEW r \in EntryIds, entries'[r].reversalOf = e
        PROVE  /\ entries'[r].status \in Booked /\ r # e
               /\ entries'[r].lines = Mirror(entries'[e].lines)
               /\ \A q \in EntryIds : entries'[q].reversalOf = e => q = r
    <3>1. entries[r].reversalOf = e /\ IsBooked(r) /\ entries[e].status = "reversed"
      BY <1>0, <1>3, <2>2
    <3>2. entries'[r] = entries[r] /\ entries'[e] = entries[e]
      BY <1>3, <3>1 DEF IsBooked, Booked
    <3> QED BY <1>0, <1>3, <3>1, <3>2 DEF IsBooked
  <2> QED BY <2>1, <2>2 DEF IsBooked
<1>4. CASE AddsNothing
  <2>1. \A d \in EntryIds : /\ entries'[d].reversalOf = entries[d].reversalOf
                            /\ entries'[d].status = "reversed" <=>
                                 entries[d].status = "reversed"
                            /\ IsBooked(d) => entries'[d] = entries[d]
    BY <1>1, <1>2, <1>4 DEF AddsNothing, Keeps, IsBooked, Booked
  <2> QED BY <1>3, <2>1 DEF ReversalExact
<1>5. ASSUME NEW i \in EntryIds, NEW p \in Periods, NEW l \in Lines, AddsEntry(i, p, l)
      PROVE  ReversalExact'
  <2>1. \A d \in EntryIds : /\ entries'[d].reversalOf = entries[d].reversalOf
                            /\ entries'[d].status = "reversed" <=>
                                 entries[d].status = "reversed"
                            /\ IsBooked(d) => entries'[d] = entries[d]
    BY <1>1, <1>2, <1>5 DEF AddsEntry, Adds, Keeps, IsBooked, Booked
  <2> QED BY <1>3, <2>1 DEF ReversalExact
<1>6. ASSUME NEW o \in EntryIds, NEW i \in EntryIds, NEW p \in Periods,
             AddsReversal(o, i, p)
      PROVE  ReversalExact'
  <2>1. /\ o # i /\ entries[o].status = "posted" /\ ~ IsBooked(i)
        /\ entries'[i].status = "posted" /\ entries'[i].reversalOf = o
        /\ entries'[i].lines = Mirror(entries[o].lines)
        /\ entries'[o] = [entries[o] EXCEPT !.status = "reversed"]
    BY <1>6 DEF AddsReversal, Adds
  <2>2. /\ entries'[o].status = "reversed" /\ entries'[o].lines = entries[o].lines
        /\ entries'[o].reversalOf = entries[o].reversalOf
    BY <2>1 DEF LedgerInv, TypeOK, Entry
  <2>3. \A d \in EntryIds \ {i, o} :
          /\ entries'[d].reversalOf = entries[d].reversalOf
          /\ entries'[d].status = "reversed" <=> entries[d].status = "reversed"
          /\ IsBooked(d) => entries'[d] = entries[d]
    BY <1>1, <1>2, <1>6 DEF AddsReversal, Keeps, IsBooked, Booked
  <2>4. \A r \in EntryIds : entries[r].reversalOf # o /\ entries[r].reversalOf # i
    BY <1>0, <2>1 DEF IsBooked, Booked
  <2>10. \A r \in EntryIds :
           entries'[r].reversalOf = IF r = i THEN o ELSE entries[r].reversalOf
    <3> TAKE r \in EntryIds
    <3>1. CASE r = i
      BY <2>1, <3>1
    <3>2. CASE r = o
      BY <2>1, <2>2, <3>2
    <3>3. CASE r \in EntryIds \ {i, o}
      BY <2>3, <3>3
    <3> QED BY <3>1, <3>2, <3>3
  <2>5. \A r \in EntryIds : entries'[r].reversalOf = o <=> r = i
    BY <2>4, <2>10
  <2>6. \A r \in EntryIds : entries'[r].reversalOf # i
    BY <2>1, <2>4, <2>10
  <2>7. Exact(o)'
    BY <2>1, <2>2, <2>5 DEF IsBooked, Booked
  <2>8. Exact(i)'
    BY <2>1, <2>6
  <2>9. ASSUME NEW e \in EntryIds \ {i, o} PROVE Exact(e)'
    <3>0. e # 0 /\ e # o
      BY DEF EntryIds
    <3>1. \A r \in EntryIds : entries'[r].reversalOf = e <=> entries[r].reversalOf = e
      BY <1>1, <2>1, <2>10, <3>0
    <3>2. entries'[e].status = "reversed" <=>
            \E r \in EntryIds : entries'[r].reversalOf = e
      BY <1>0, <2>3, <3>1
    <3>3. ASSUME NEW r \in EntryIds, entries'[r].reversalOf = e
          PROVE  /\ entries'[r].status \in Booked /\ r # e
                 /\ entries'[r].lines = Mirror(entries'[e].lines)
                 /\ \A q \in EntryIds : entries'[q].reversalOf = e => q = r
      <4>1. entries[r].reversalOf = e /\ IsBooked(r) /\ entries[e].status = "reversed"
        BY <1>0, <3>1, <3>3
      <4>2. entries'[e] = entries[e] /\ r # i
        BY <2>1, <2>3, <4>1 DEF IsBooked, Booked
      <4>3. entries'[r].lines = entries[r].lines /\ entries'[r].status \in Booked
        BY <2>2, <2>3, <4>1, <4>2 DEF IsBooked, Booked
      <4> QED BY <1>0, <3>1, <4>1, <4>2, <4>3
    <3> QED BY <3>2, <3>3 DEF IsBooked
  <2> QED BY <2>7, <2>8, <2>9 DEF ReversalExact
<1> QED BY <1>4, <1>5, <1>6, BookStep

\* A reversed entry has exactly one reversal, its booked mirror.
THEOREM ReversalsAreExact == Spec => []ReversalExact
<1>1. Init => ReversalExact
  BY DEF Init, ReversalExact, Absent, EntryIds
<1>2. LedgerInv /\ ReversalExact /\ [Next]_vars => ReversalExact'
  BY ReversalStep
<1> QED BY <1>1, <1>2, LedgerInvariant, PTL DEF Spec

-----------------------------------------------------------------------------
(***************************************************************************)
(* The balances.                                                           *)
(***************************************************************************)
\* What each entry contributes to column c of period p.
Contributions(p, c) == [e \in EntryIds |-> Contribution(e, p, c)]

LEMMA EntryIdsAreFinite == IsFiniteSet(EntryIds)
BY LedgerAssumption, FS_Interval DEF EntryIds

\* Contributions are integers.
LEMMA ContributionTypes ==
  ASSUME TypeOK, NEW p, NEW c \in Columns
  PROVE  \A e \in EntryIds : Contributions(p, c)[e] \in Int
BY DEF Contributions, Contribution, TypeOK, Entry, Lines, Totals

\* The balances stay the sum of the book when nothing enters it.
LEMMA BalancesKept ==
  ASSUME TypeOK, TypeOK', GLMatchesLedger, AddsNothing
  PROVE  GLMatchesLedger'
<1> SUFFICES ASSUME NEW p \in Periods, NEW c \in Columns
             PROVE  gl'[p][c] = SumFunctionOnSet(Contributions(p, c)', EntryIds)
  BY DEF GLMatchesLedger, Contributions
<1>1. gl'[p][c] = SumFunctionOnSet(Contributions(p, c), EntryIds)
  BY DEF GLMatchesLedger, Contributions, AddsNothing
<1>2. \A e \in EntryIds : Contributions(p, c)'[e] = Contributions(p, c)[e]
  BY DEF Contributions, Contribution, AddsNothing, Keeps, IsBooked
<1>3. \A e \in EntryIds : Contributions(p, c)[e] \in Int
  BY ContributionTypes
<1> HIDE DEF Contributions
<1> QED BY <1>1, <1>2, <1>3, EntryIdsAreFinite, SumSame

\* The balances stay the sum of the book when entry i enters it: its lines are
\* added to its period and every other contribution stays.
LEMMA BalancesAdded ==
  ASSUME TypeOK, TypeOK', GLMatchesLedger,
         NEW i \in EntryIds, NEW q \in Periods, NEW l \in Lines, Adds(i, q, l),
         \A d \in EntryIds \ {i} :
           /\ entries'[d].status \in Booked <=> IsBooked(d)
           /\ IsBooked(d) => /\ entries'[d].period = entries[d].period
                             /\ entries'[d].lines = entries[d].lines
  PROVE  GLMatchesLedger'
<1> SUFFICES ASSUME NEW p \in Periods, NEW c \in Columns
             PROVE  gl'[p][c] = SumFunctionOnSet(Contributions(p, c)', EntryIds)
  BY DEF GLMatchesLedger, Contributions
<1> DEFINE old == Contributions(p, c)
           new == Contributions(p, c)'
<1>1. gl[p][c] = SumFunctionOnSet(old, EntryIds) /\ gl[p][c] \in Int
  BY DEF GLMatchesLedger, Contributions, TypeOK, Totals
<1>2. \A e \in EntryIds \ {i} : new[e] = old[e]
  BY DEF Contributions, Contribution, IsBooked
<1>3. old[i] = 0 /\ new[i] = IF p = q THEN l.total[c] ELSE 0
  BY DEF Contributions, Contribution, IsBooked, Adds, Booked
<1>4. \A e \in EntryIds : old[e] \in Int /\ new[e] \in Int
  BY ContributionTypes DEF Contributions, Contribution, TypeOK, Entry, Lines, Totals, IsBooked
<1>5. gl'[p][c] = gl[p][c] + new[i]
  <2>1. CASE p = q
    <3>1. gl'[p] = Increment(gl[p], l)
      BY <2>1 DEF Adds, TypeOK
    <3> QED BY <1>3, <2>1, <3>1 DEF Increment
  <2>2. CASE p # q
    <3>1. gl'[p] = gl[p]
      BY <2>2 DEF Adds, TypeOK
    <3> QED BY <1>1, <1>3, <2>2, <3>1
  <2> QED BY <2>1, <2>2
<1> HIDE DEF old, new
<1>6. SumFunctionOnSet(new, EntryIds) = SumFunctionOnSet(old, EntryIds) + new[i] - old[i]
  <2>1. DiffersAt(i, old, new, EntryIds) /\ IsFiniteSet(EntryIds)
    BY <1>2, <1>4, EntryIdsAreFinite DEF DiffersAt
  <2> QED BY <2>1, SumChange
<1>7. new[i] \in Int
  BY <1>4
<1>8. gl'[p][c] = SumFunctionOnSet(new, EntryIds)
  BY <1>1, <1>3, <1>5, <1>6, <1>7
<1> QED BY <1>8 DEF new

\* Every step keeps the balances equal to the sum of the booked lines.
LEMMA BalancesStep ==
  ASSUME LedgerInv, GLMatchesLedger, [Next]_vars
  PROVE  GLMatchesLedger'
<1>1. TypeOK /\ TypeOK'
  BY StepInv DEF LedgerInv
<1>2. CASE AddsNothing
  BY <1>1, <1>2, BalancesKept
<1>3. ASSUME NEW i \in EntryIds, NEW p \in Periods, NEW l \in Lines, AddsEntry(i, p, l)
      PROVE  GLMatchesLedger'
  <2>1. \A d \in EntryIds \ {i} :
          /\ entries'[d].status \in Booked <=> IsBooked(d)
          /\ IsBooked(d) => /\ entries'[d].period = entries[d].period
                            /\ entries'[d].lines = entries[d].lines
    BY <1>3 DEF AddsEntry, Keeps, IsBooked
  <2>2. Adds(i, p, l)
    BY <1>3 DEF AddsEntry
  <2> QED BY <1>1, <2>1, <2>2, BalancesAdded
<1>4. ASSUME NEW o \in EntryIds, NEW i \in EntryIds, NEW p \in Periods,
             AddsReversal(o, i, p)
      PROVE  GLMatchesLedger'
  <2>1. /\ entries'[o].status \in Booked /\ IsBooked(o)
        /\ entries'[o].period = entries[o].period
        /\ entries'[o].lines = entries[o].lines
    BY <1>1, <1>4 DEF AddsReversal, IsBooked, Booked, TypeOK, Entry
  <2>2. \A d \in EntryIds \ {i} :
          /\ entries'[d].status \in Booked <=> IsBooked(d)
          /\ IsBooked(d) => /\ entries'[d].period = entries[d].period
                            /\ entries'[d].lines = entries[d].lines
    BY <1>4, <2>1 DEF AddsReversal, Keeps, IsBooked
  <2>3. Adds(i, p, Mirror(entries[o].lines)) /\ Mirror(entries[o].lines) \in Lines
    BY <1>4 DEF AddsReversal, Adds
  <2> QED BY <1>1, <2>2, <2>3, BalancesAdded
<1> QED BY <1>2, <1>3, <1>4, BookStep

\* The balances the reports read are the sum of the booked lines, whatever the
\* requests, their interleaving and their failures.
THEOREM BalancesAreExact == Spec => []GLMatchesLedger
<1>1. Init => GLMatchesLedger
  <2> SUFFICES ASSUME Init, NEW p \in Periods, NEW c \in Columns
               PROVE  gl[p][c] = SumFunctionOnSet([e \in EntryIds |-> Contribution(e, p, c)], EntryIds)
    BY DEF GLMatchesLedger
  <2> DEFINE all == [e \in EntryIds |-> Contribution(e, p, c)]
  <2>1. \A e \in EntryIds : all[e] = 0
    BY DEF Init, Contribution, IsBooked, Booked, Absent
  <2>2. gl[p][c] = 0
    BY DEF Init, NoTotals
  <2> HIDE DEF all
  <2>3. SumFunctionOnSet(all, EntryIds) = 0
    BY <2>1, EntryIdsAreFinite, SumZero
  <2> QED BY <2>2, <2>3 DEF all
<1>2. LedgerInv /\ GLMatchesLedger /\ [Next]_vars => GLMatchesLedger'
  BY BalancesStep
<1> QED BY <1>1, <1>2, LedgerInvariant, PTL DEF Spec

-----------------------------------------------------------------------------
(***************************************************************************)
(* The trial balance.                                                      *)
(***************************************************************************)
\* Totals have an integer sum on each side, lines that are added to them add their
\* imbalance, and swapped lines have the opposite one.
LEMMA SideTotals ==
  ASSUME NEW t \in Totals, NEW side \in Sides
  PROVE  SideTotal(t, side) \in Int
<1> DEFINE f == [a \in Accounts |-> t[<<a, side>>]]
<1>1. \A a \in Accounts : f[a] \in Int
  BY DEF Totals, Columns
<1>2. IsFiniteSet(Accounts)
  BY DoubleEntryAssumption
<1> HIDE DEF f
<1>3. SumFunctionOnSet(f, Accounts) \in Int
  BY <1>1, <1>2, SumType
<1> QED BY <1>3 DEF SideTotal, f

LEMMA ImbalanceAdds ==
  ASSUME NEW t \in Totals, NEW l \in Lines
  PROVE  Imbalance(Increment(t, l)) = Imbalance(t) + Imbalance(l.total)
<1>0. l.total \in Totals
  BY DEF Lines
<1>1. ASSUME NEW side \in Sides
      PROVE  SideTotal(Increment(t, l), side) = SideTotal(t, side) + SideTotal(l.total, side)
  <2> DEFINE f == [a \in Accounts |-> t[<<a, side>>]]
             g == [a \in Accounts |-> l.total[<<a, side>>]]
             h == [a \in Accounts |-> Increment(t, l)[<<a, side>>]]
  <2>1. \A a \in Accounts : f[a] \in Int /\ g[a] \in Int /\ h[a] = f[a] + g[a]
    BY <1>0 DEF Totals, Columns, Increment
  <2>2. IsFiniteSet(Accounts)
    BY DoubleEntryAssumption
  <2> HIDE DEF f, g, h
  <2>3. SumFunctionOnSet(h, Accounts) = SumFunctionOnSet(f, Accounts) + SumFunctionOnSet(g, Accounts)
    BY <2>1, <2>2, SumAdd
  <2> QED BY <2>3 DEF SideTotal, f, g, h
<1>2. "dr" \in Sides /\ "cr" \in Sides
  BY DEF Sides
<1>3. /\ SideTotal(t, "dr") \in Int /\ SideTotal(t, "cr") \in Int
      /\ SideTotal(l.total, "dr") \in Int /\ SideTotal(l.total, "cr") \in Int
  BY <1>0, <1>2, SideTotals
<1> QED BY <1>1, <1>2, <1>3 DEF Imbalance

LEMMA ImbalanceTypes ==
  ASSUME NEW t \in Totals
  PROVE  Imbalance(t) \in Int
<1>1. "dr" \in Sides /\ "cr" \in Sides
  BY DEF Sides
<1> QED BY <1>1, SideTotals DEF Imbalance

LEMMA ImbalanceOfMirror ==
  ASSUME NEW l \in Lines
  PROVE  /\ Imbalance(Mirror(l).total) = -Imbalance(l.total) /\ Imbalance(l.total) \in Int
         /\ Slack(Mirror(l)) = Slack(l) /\ Slack(l) \in Nat
<1>0. l.total \in Totals /\ l.rows \in Nat
  BY DEF Lines
<1>1. ASSUME NEW side \in Sides
      PROVE  SideTotal(Mirror(l).total, side) = SideTotal(l.total, Other(side))
  <2>1. \A a \in Accounts : Mirror(l).total[<<a, side>>] = l.total[<<a, Other(side)>>]
    BY DEF Mirror, Columns
  <2>2. [a \in Accounts |-> Mirror(l).total[<<a, side>>]] = [a \in Accounts |-> l.total[<<a, Other(side)>>]]
    BY <2>1
  <2> QED BY <2>2 DEF SideTotal
<1>2. /\ "dr" \in Sides /\ "cr" \in Sides
      /\ Other("dr") = "cr" /\ Other("cr") = "dr"
  BY DEF Sides, Other
<1>3. SideTotal(l.total, "dr") \in Int /\ SideTotal(l.total, "cr") \in Int
  BY <1>0, <1>2, SideTotals
<1>4. Imbalance(Mirror(l).total) = -Imbalance(l.total)
  BY <1>1, <1>2, <1>3 DEF Imbalance
<1>5. Slack(Mirror(l)) = Slack(l) /\ Slack(l) \in Nat
  <2>1. Unit * l.rows \in Nat
    BY <1>0, DoubleEntryAssumption
  <2> QED BY <2>1, DoubleEntryAssumption DEF Slack, Mirror
<1> QED BY <1>0, <1>4, <1>5, ImbalanceTypes

\* The trial balance is off by an integer, and moves by the imbalance of what is
\* added to a period.
LEMMA NetBalanceMoves ==
  ASSUME TypeOK, NEW p \in Periods, NEW l \in Lines,
         gl' = [gl EXCEPT ![p] = Increment(@, l)]
  PROVE  NetBalance \in Int /\ NetBalance' = NetBalance + Imbalance(l.total)
<1> DEFINE f == [q \in Periods |-> Imbalance(gl[q])]
           g == [q \in Periods |-> Imbalance(gl'[q])]
<1>1. \A q \in Periods : /\ gl[q] \in Totals
                         /\ gl'[q] = IF q = p THEN Increment(gl[p], l) ELSE gl[q]
  BY DEF TypeOK
<1>2. /\ \A q \in Periods : Imbalance(gl[q]) \in Int
      /\ Imbalance(Increment(gl[p], l)) = Imbalance(gl[p]) + Imbalance(l.total)
      /\ Imbalance(l.total) \in Int
  BY <1>1, ImbalanceAdds, ImbalanceTypes, ImbalanceOfMirror
<1>3. g[p] = f[p] + Imbalance(l.total) /\ f[p] \in Int
  BY <1>1, <1>2
<1>4. \A q \in Periods : f[q] \in Int /\ g[q] \in Int /\ (q # p => g[q] = f[q])
  BY <1>1, <1>2
<1>5. IsFiniteSet(Periods)
  BY LedgerAssumption
<1> HIDE DEF f, g
<1>6. DiffersAt(p, f, g, Periods)
  BY <1>4 DEF DiffersAt
<1>7. SumFunctionOnSet(g, Periods) = SumFunctionOnSet(f, Periods) + g[p] - f[p]
  BY <1>5, <1>6, SumChange
<1>8. SumFunctionOnSet(f, Periods) \in Int
  BY <1>4, <1>5, SumType
<1>9. NetBalance = SumFunctionOnSet(f, Periods) /\ NetBalance' = SumFunctionOnSet(g, Periods)
  BY DEF NetBalance, f, g
<1> QED BY <1>2, <1>3, <1>7, <1>8, <1>9

\* What a request that passed the check stores is off by the tolerance and half a
\* cent a row at most: its totals add up to the sum of its rounded rows, and each
\* of these is half a cent from the amount that was checked at most.
StoredRow(q, i) == Signed(q[i].side, Cents(q[i].amount))

LEMMA SideOfStored ==
  ASSUME NEW q \in Requests, NEW side \in Sides
  PROVE  SideTotal(Stored(q).total, side) =
           SumFunctionOnSet([i \in 1..Len(q) |->
             IF q[i].side = side THEN Cents(q[i].amount) ELSE 0], 1..Len(q))
<1> DEFINE S == 1..Len(q)
           f == [i \in S |-> IF q[i].side = side THEN Cents(q[i].amount) ELSE 0]
           key == [i \in S |-> q[i].account]
           g == FibreSums(f, key, S, Accounts)
           h == [a \in Accounts |-> Stored(q).total[<<a, side>>]]
<1>1. IsFiniteSet(S) /\ IsFiniteSet(Accounts)
  BY RequestTypes, DoubleEntryAssumption
<1>2. \A i \in S : f[i] \in Int /\ key[i] \in Accounts
  <2> SUFFICES ASSUME NEW i \in S PROVE f[i] \in Int /\ key[i] \in Accounts
    OBVIOUS
  <2>1. q[i].amount \in Int /\ q[i].account \in Accounts
    BY RequestTypes DEF Row
  <2>2. Cents(q[i].amount) \in Int
    BY <2>1, CentsAreClose
  <2> QED BY <2>1, <2>2
<1>3. ASSUME NEW a \in Accounts PROVE h[a] = g[a]
  <2> DEFINE F == {i \in S : key[i] = a}
             part == [i \in S |-> StoredIn(q, i, <<a, side>>)]
  <2>1. <<a, side>> \in Columns
    BY DEF Columns
  <2>2. h[a] = SumFunctionOnSet(part, S)
    BY <2>1 DEF Stored
  <2>3. \A i \in S : part[i] = IF i \in F THEN f[i] ELSE 0
    BY DEF StoredIn
  <2>4. g[a] = SumFunctionOnSet(f, F)
    BY DEF FibreSums, Fibre
  <2>5. F \in SUBSET S
    OBVIOUS
  <2> HIDE DEF S, f, g, h, key, part, F
  <2> QED BY <1>1, <1>2, <2>2, <2>3, <2>4, <2>5, SumPart
<1> HIDE DEF S, f, g, h, key
<1>4. SumFunctionOnSet(h, Accounts) = SumFunctionOnSet(g, Accounts)
  BY <1>1, <1>3, SumSame
<1>5. SumFunctionOnSet(g, Accounts) = SumFunctionOnSet(f, S)
  BY <1>1, <1>2, SumFibres DEF g
<1> QED BY <1>4, <1>5 DEF SideTotal, S, f, h

LEMMA ImbalanceOfStored ==
  ASSUME NEW q \in Requests
  PROVE  Imbalance(Stored(q).total) =
           SumFunctionOnSet([i \in 1..Len(q) |-> StoredRow(q, i)], 1..Len(q))
<1> DEFINE S == 1..Len(q)
           dr == [i \in S |-> IF q[i].side = "dr" THEN Cents(q[i].amount) ELSE 0]
           cr == [i \in S |-> IF q[i].side = "cr" THEN Cents(q[i].amount) ELSE 0]
           all == [i \in S |-> StoredRow(q, i)]
<1>1. IsFiniteSet(S) /\ \A i \in S : q[i].side \in Sides /\ Cents(q[i].amount) \in Int
  BY RequestTypes, CentsAreClose DEF Row
<1>2. \A i \in S : all[i] \in Int /\ cr[i] \in Int /\ dr[i] = all[i] + cr[i]
  BY <1>1 DEF StoredRow, Signed, Sides
<1>3. /\ SideTotal(Stored(q).total, "dr") = SumFunctionOnSet(dr, S)
      /\ SideTotal(Stored(q).total, "cr") = SumFunctionOnSet(cr, S)
  BY SideOfStored DEF Sides
<1> HIDE DEF S, dr, cr, all
<1>4. SumFunctionOnSet(dr, S) = SumFunctionOnSet(all, S) + SumFunctionOnSet(cr, S)
  BY <1>1, <1>2, SumAdd
<1>5. SumFunctionOnSet(all, S) \in Int /\ SumFunctionOnSet(cr, S) \in Int
  BY <1>1, <1>2, SumType
<1>6. Imbalance(Stored(q).total) = SumFunctionOnSet(all, S)
  BY <1>3, <1>4, <1>5 DEF Imbalance
<1> QED BY <1>6 DEF S, all

LEMMA StoredIsWithin ==
  ASSUME NEW q \in Requests, Accepts(q)
  PROVE  Within(Stored(q))
<1> DEFINE S == 1..Len(q)
           asked == [i \in S |-> Signed(q[i].side, q[i].amount)]
           all == [i \in S |-> StoredRow(q, i)]
           twice == [i \in S |-> 2 * asked[i]]
           scaled == [i \in S |-> (2 * Unit) * all[i]]
           moved == [i \in S |-> scaled[i] - twice[i]]
<1>1. /\ IsFiniteSet(S) /\ Len(q) \in Nat /\ Cardinality(S) = Len(q)
      /\ \A i \in S : q[i].side \in Sides /\ q[i].amount \in Int
  <2>1. Len(q) \in Nat /\ \A i \in S : q[i] \in Row
    BY RequestTypes
  <2>2. IsFiniteSet(S) /\ Cardinality(S) = Len(q)
    BY <2>1, FS_Interval
  <2> QED BY <2>1, <2>2 DEF Row
<1>2. Unit \in Nat /\ 2 * Unit \in Int /\ Tolerance \in Nat
  BY DoubleEntryAssumption
<1>3. ASSUME NEW i \in S
      PROVE  /\ asked[i] \in Int /\ all[i] \in Int /\ twice[i] \in Int /\ scaled[i] \in Int
             /\ -Unit <= moved[i] /\ moved[i] <= Unit /\ moved[i] \in Int
             /\ scaled[i] = twice[i] + moved[i]
  <2> DEFINE n == q[i].amount  c == Cents(n)
  <2>1. n \in Int /\ q[i].side \in Sides
    BY <1>1
  <2>2. /\ c \in Int /\ Unit * c \in Int
        /\ -Unit <= 2 * (Unit * c) - 2 * n /\ 2 * (Unit * c) - 2 * n <= Unit
    BY <2>1, CentsAreClose
  <2>3. asked[i] = Signed(q[i].side, n) /\ all[i] = Signed(q[i].side, c)
    BY DEF StoredRow
  <2>4. twice[i] = 2 * asked[i] /\ scaled[i] = (2 * Unit) * all[i] /\ moved[i] = scaled[i] - twice[i]
    OBVIOUS
  <2> HIDE DEF n, c, asked, all, twice, scaled, moved
  <2>5. CASE q[i].side = "dr"
    <3>1. asked[i] = n /\ all[i] = c
      BY <2>3, <2>5 DEF Signed
    <3>2. (2 * Unit) * c = 2 * (Unit * c)
      BY <1>2, <2>2
    <3> QED BY <1>2, <2>1, <2>2, <2>4, <3>1, <3>2
  <2>6. CASE q[i].side = "cr"
    <3>1. asked[i] = -n /\ all[i] = -c
      BY <2>3, <2>6 DEF Signed
    <3>2. (2 * Unit) * (-c) = -(2 * (Unit * c))
      BY <1>2, <2>2
    <3> QED BY <1>2, <2>1, <2>2, <2>4, <3>1, <3>2
  <2> QED BY <2>1, <2>5, <2>6 DEF Sides
<1>4. \A i \in S : twice[i] = 2 * asked[i] /\ scaled[i] = (2 * Unit) * all[i]
  OBVIOUS
<1>5. -Tolerance <= SumFunctionOnSet(asked, S) /\ SumFunctionOnSet(asked, S) <= Tolerance
  BY DEF Accepts
<1>6. Imbalance(Stored(q).total) = SumFunctionOnSet(all, S)
  BY ImbalanceOfStored
<1> HIDE DEF S, asked, all, twice, scaled, moved
<1>7. SumFunctionOnSet(twice, S) = 2 * SumFunctionOnSet(asked, S)
  BY <1>1, <1>3, <1>4, SumTimes
<1>8. SumFunctionOnSet(scaled, S) = (2 * Unit) * SumFunctionOnSet(all, S)
  BY <1>1, <1>2, <1>3, <1>4, SumTimes
<1>9. SumFunctionOnSet(scaled, S) = SumFunctionOnSet(twice, S) + SumFunctionOnSet(moved, S)
  BY <1>1, <1>3, SumAdd
<1>10. /\ -(Unit * Len(q)) <= SumFunctionOnSet(moved, S)
       /\ SumFunctionOnSet(moved, S) <= Unit * Len(q)
  <2>1. WithinOn(S, moved, S, Unit)
    BY <1>3 DEF WithinOn
  <2>2. S \in SUBSET S
    OBVIOUS
  <2> QED BY <1>1, <1>2, <2>1, <2>2, SumWithin
<1>11. SumFunctionOnSet(asked, S) \in Int /\ SumFunctionOnSet(all, S) \in Int
       /\ SumFunctionOnSet(moved, S) \in Int /\ Unit * Len(q) \in Int
  BY <1>1, <1>2, <1>3, SumType
<1>12. (2 * Unit) * SumFunctionOnSet(all, S) = 2 * SumFunctionOnSet(asked, S) + SumFunctionOnSet(moved, S)
  BY <1>7, <1>8, <1>9
<1>13. Slack(Stored(q)) = 2 * Tolerance + Unit * Len(q)
  BY DEF Slack, Stored
<1> DEFINE x == (2 * Unit) * SumFunctionOnSet(all, S)
<1>14. 2 * Unit * Imbalance(Stored(q).total) = x
  BY <1>6
<1>15. -(2 * Tolerance + Unit * Len(q)) <= x /\ x <= 2 * Tolerance + Unit * Len(q)
  <2> DEFINE y == SumFunctionOnSet(asked, S)  z == SumFunctionOnSet(moved, S)  w == Unit * Len(q)
  <2>1. /\ x = 2 * y + z /\ y \in Int /\ z \in Int /\ w \in Int
        /\ -Tolerance <= y /\ y <= Tolerance /\ -w <= z /\ z <= w
    BY <1>5, <1>10, <1>11, <1>12
  <2> HIDE DEF x, y, z, w
  <2>2. -(2 * Tolerance + w) <= x /\ x <= 2 * Tolerance + w
    BY <1>2, <2>1
  <2> QED BY <2>2 DEF w
<1> HIDE DEF x
<1> QED BY <1>13, <1>14, <1>15 DEF Within

LEMMA PostableIsWithin ==
  ASSUME NEW l \in Postable
  PROVE  l \in Lines /\ Within(l)
BY PostableTypes, StoredIsWithin DEF Postable

LEMMA MirrorIsWithin ==
  ASSUME NEW l \in Lines, Within(l)
  PROVE  Within(Mirror(l))
<1> DEFINE x == Imbalance(l.total)  y == Imbalance(Mirror(l).total)  w == Slack(l)
<1>1. y = -x /\ x \in Int /\ Slack(Mirror(l)) = w /\ w \in Nat
  BY ImbalanceOfMirror
<1>2. -w <= 2 * Unit * x /\ 2 * Unit * x <= w
  BY DEF Within
<1> HIDE DEF x, y, w
<1>3. 2 * Unit * y = -(2 * Unit * x) /\ 2 * Unit * x \in Int
  BY <1>1, DoubleEntryAssumption
<1>4. -w <= 2 * Unit * y /\ 2 * Unit * y <= w
  BY <1>1, <1>2, <1>3
<1> QED BY <1>1, <1>4 DEF Within, y

\* The parts of two entries change, the trial balance with them.
Moved(off, e, n, o, m) == [off EXCEPT ![e] = n, ![o] = m]

Moves(p, l, off, e, n, o, m) ==
  /\ gl' = [gl EXCEPT ![p] = Increment(@, l)]
  /\ NetBalance = SumFunctionOnSet(off, EntryIds)
  /\ o # e /\ off[e] = 0 /\ n + m = off[o] + Imbalance(l.total)

LEMMA DriftMoves ==
  ASSUME TypeOK, NEW p \in Periods, NEW l \in Lines, NEW off \in [EntryIds -> Int],
         NEW e \in EntryIds, NEW o \in EntryIds, NEW n \in Int, NEW m \in Int,
         Moves(p, l, off, e, n, o, m)
  PROVE  /\ Moved(off, e, n, o, m) \in [EntryIds -> Int]
         /\ NetBalance' = SumFunctionOnSet(Moved(off, e, n, o, m), EntryIds)
<1> USE DEF Moved, Moves
<1> DEFINE mid == [off EXCEPT ![e] = n]
           new == Moved(off, e, n, o, m)
<1>1. /\ \A d \in EntryIds : off[d] \in Int /\ mid[d] \in Int /\ new[d] \in Int
      /\ mid[e] = n /\ mid[o] = off[o] /\ new[o] = m
      /\ \A d \in EntryIds : (d # e => mid[d] = off[d]) /\ (d # o => new[d] = mid[d])
      /\ off[o] \in Int /\ n \in Int /\ m \in Int /\ new \in [EntryIds -> Int]
  OBVIOUS
<1>2. IsFiniteSet(EntryIds)
  BY EntryIdsAreFinite
<1>3. NetBalance \in Int /\ NetBalance' = NetBalance + Imbalance(l.total) /\ Imbalance(l.total) \in Int
  BY NetBalanceMoves, ImbalanceOfMirror
<1> HIDE DEF mid, new
<1>4. DiffersAt(e, off, mid, EntryIds) /\ DiffersAt(o, mid, new, EntryIds)
  BY <1>1 DEF DiffersAt
<1>5. SumFunctionOnSet(mid, EntryIds) = SumFunctionOnSet(off, EntryIds) + mid[e] - off[e]
  BY <1>2, <1>4, SumChange
<1>6. SumFunctionOnSet(new, EntryIds) = SumFunctionOnSet(mid, EntryIds) + new[o] - mid[o]
  BY <1>2, <1>4, SumChange
<1>7. NetBalance' = SumFunctionOnSet(new, EntryIds)
  BY <1>1, <1>3, <1>5, <1>6
<1> QED BY <1>1, <1>7 DEF new

\* An entry that a step keeps leaves what it left.
LEMMA LeavesKept ==
  ASSUME NEW d \in EntryIds, Keeps(d), NEW off, NEW new, new[d] = off[d], Leaves(off, d)
  PROVE  Leaves(new, d)'
BY DEF Leaves, Keeps, IsBooked, Booked, Within, Slack

\* A new entry leaves its imbalance.
LEMMA DriftOfEntry ==
  ASSUME TypeOK, DriftInv, NEW e \in EntryIds, NEW p \in Periods, NEW l \in Lines, AddsEntry(e, p, l)
  PROVE  DriftInv'
<1>1. PICK off \in [EntryIds -> Int] :
        NetBalance = SumFunctionOnSet(off, EntryIds) /\ \A d \in EntryIds : Leaves(off, d)
  BY DEF DriftInv
<1> DEFINE new == [off EXCEPT ![e] = Imbalance(l.total)]
<1>2. /\ Adds(e, p, l) /\ l \in Postable
      /\ \A d \in EntryIds \ {e} : Keeps(d)
  BY DEF AddsEntry
<1>3. off[e] = 0
  BY <1>1, <1>2 DEF Adds, Leaves, IsBooked, Booked
<1>4. Imbalance(l.total) \in Int /\ Within(l)
  BY <1>2, ImbalanceOfMirror, PostableIsWithin
<1>5. /\ new \in [EntryIds -> Int] /\ new[e] = Imbalance(l.total)
      /\ \A d \in EntryIds : /\ off[d] \in Int /\ new[d] \in Int
                             /\ d # e => new[d] = off[d]
  BY <1>4
<1> HIDE DEF new
<1>6. DiffersAt(e, off, new, EntryIds) /\ IsFiniteSet(EntryIds)
  BY <1>5, EntryIdsAreFinite DEF DiffersAt
<1>7. SumFunctionOnSet(new, EntryIds) = SumFunctionOnSet(off, EntryIds) + new[e] - off[e]
  BY <1>6, SumChange
<1>8. NetBalance \in Int /\ NetBalance' = NetBalance + Imbalance(l.total)
  BY <1>2, NetBalanceMoves DEF Adds
<1>9. NetBalance' = SumFunctionOnSet(new, EntryIds)
  BY <1>1, <1>3, <1>4, <1>5, <1>7, <1>8
<1>10. ASSUME NEW d \in EntryIds PROVE Leaves(new, d)'
  <2>1. CASE d = e
    BY <1>2, <1>4, <1>5, <2>1 DEF Adds, Leaves, Within, Slack
  <2>2. CASE d # e
    BY <1>1, <1>2, <1>5, <2>2, LeavesKept
  <2> QED BY <2>1, <2>2
<1> QED BY <1>5, <1>9, <1>10 DEF DriftInv

\* A reversal leaves what its original has left, less the original's imbalance.
LEMMA DriftOfReversal ==
  ASSUME TypeOK, DriftInv, NEW o \in EntryIds, NEW e \in EntryIds, NEW p \in Periods,
         AddsReversal(o, e, p)
  PROVE  DriftInv'
<1>1. PICK off \in [EntryIds -> Int] :
        NetBalance = SumFunctionOnSet(off, EntryIds) /\ \A d \in EntryIds : Leaves(off, d)
  BY DEF DriftInv
<1> DEFINE k == entries[o].lines
<1>2. /\ Adds(e, p, Mirror(k)) /\ o # e /\ entries[o].status = "posted"
      /\ entries'[o] = [entries[o] EXCEPT !.status = "reversed"]
      /\ \A d \in EntryIds \ {e, o} : Keeps(d)
  BY DEF AddsReversal
<1>3. k \in Lines /\ entries[o] \in Entry
  BY DEF TypeOK, Entry
<1>4. PICK l \in Lines : l = Mirror(k)
  BY <1>3, LinesTypes
<1>5. /\ Within(k) /\ off[o] \in {0, Imbalance(k.total)}
      /\ Imbalance(l.total) = -Imbalance(k.total) /\ Imbalance(k.total) \in Int
  BY <1>1, <1>2, <1>3, <1>4, ImbalanceOfMirror DEF Leaves
<1>6. Within(l)
  BY <1>3, <1>4, <1>5, MirrorIsWithin
<1> HIDE DEF k
<1> DEFINE n == off[o] + Imbalance(l.total)
<1>7. n \in Int /\ n \in {0, Imbalance(l.total)} /\ n + 0 = off[o] + Imbalance(l.total)
  BY <1>5
<1>8. off[e] = 0
  BY <1>1, <1>2 DEF Adds, Leaves, IsBooked, Booked
<1>9. gl' = [gl EXCEPT ![p] = Increment(@, l)]
  BY <1>2, <1>4 DEF Adds
<1> HIDE DEF n
<1> DEFINE new == Moved(off, e, n, o, 0)
<1>10. new \in [EntryIds -> Int] /\ NetBalance' = SumFunctionOnSet(new, EntryIds)
  <2>1. Moves(p, l, off, e, n, o, 0)
    BY <1>1, <1>2, <1>7, <1>8, <1>9 DEF Moves
  <2> QED BY <1>4, <1>7, <2>1, DriftMoves
<1>11. new[e] = n /\ new[o] = 0 /\ \A d \in EntryIds \ {e, o} : new[d] = off[d]
  BY <1>2 DEF Moved
<1> HIDE DEF new
<1>12. ASSUME NEW d \in EntryIds PROVE Leaves(new, d)'
  <2>1. CASE d = e
    BY <1>2, <1>4, <1>6, <1>7, <1>11, <2>1 DEF Adds, Leaves, Within, Slack
  <2>2. CASE d = o
    <3>1. entries'[o].status = "reversed"
      BY <1>2, <1>3 DEF Entry
    <3> QED BY <1>11, <2>2, <3>1 DEF Leaves
  <2>3. CASE d \notin {e, o}
    BY <1>1, <1>2, <1>11, <2>3, LeavesKept
  <2> QED BY <2>1, <2>2, <2>3
<1> QED BY <1>10, <1>12 DEF DriftInv

\* Every step keeps the drift what the posted entries leave.
LEMMA DriftStep ==
  ASSUME LedgerInv, DriftInv, [Next]_vars
  PROVE  DriftInv'
<1>1. TypeOK
  BY DEF LedgerInv
<1>2. CASE AddsNothing
  <2>1. PICK off \in [EntryIds -> Int] :
          NetBalance = SumFunctionOnSet(off, EntryIds) /\ \A d \in EntryIds : Leaves(off, d)
    BY DEF DriftInv
  <2>2. NetBalance' = SumFunctionOnSet(off, EntryIds)
    BY <1>2, <2>1 DEF NetBalance, AddsNothing
  <2>3. \A d \in EntryIds : Leaves(off, d)'
    BY <1>2, <2>1, LeavesKept DEF AddsNothing
  <2> QED BY <2>1, <2>2, <2>3 DEF DriftInv
<1> QED BY <1>1, <1>2, DriftOfEntry, DriftOfReversal, BookStep

\* Integers between a bound and its opposite.
LEMMA BoundOfSum ==
  ASSUME NEW off \in [EntryIds -> Int], NEW w \in [EntryIds -> Int],
         \A e \in EntryIds : -w[e] <= 2 * Unit * off[e] /\ 2 * Unit * off[e] <= w[e]
  PROVE  /\ -SumFunctionOnSet(w, EntryIds) <= 2 * Unit * SumFunctionOnSet(off, EntryIds)
         /\ 2 * Unit * SumFunctionOnSet(off, EntryIds) <= SumFunctionOnSet(w, EntryIds)
<1> DEFINE S == EntryIds
           x == [e \in S |-> (2 * Unit) * off[e]]
           above == [e \in S |-> x[e] - w[e]]
           below == [e \in S |-> -x[e] - w[e]]
           minus == [e \in S |-> (-1) * x[e]]
<1>1. IsFiniteSet(S) /\ {} \in SUBSET S /\ 2 * Unit \in Int
  BY EntryIdsAreFinite, DoubleEntryAssumption
<1>2. ASSUME NEW e \in S
      PROVE  /\ off[e] \in Int /\ w[e] \in Int /\ x[e] \in Int
             /\ x[e] = (2 * Unit) * off[e] /\ -w[e] <= x[e] /\ x[e] <= w[e]
  BY <1>1
<1>3. \A e \in S : /\ above[e] \in Int /\ above[e] <= 0 /\ x[e] = above[e] + w[e]
                   /\ below[e] \in Int /\ below[e] <= 0 /\ minus[e] = below[e] + w[e]
                   /\ minus[e] = (-1) * x[e] /\ minus[e] \in Int
  <2> HIDE DEF x
  <2> QED BY <1>2
<1> HIDE DEF S, x, above, below, minus
<1>4. SumFunctionOnSet(x, S) = (2 * Unit) * SumFunctionOnSet(off, S)
  BY <1>1, <1>2, SumTimes
<1>5. SumFunctionOnSet(minus, S) = (-1) * SumFunctionOnSet(x, S)
  <2>1. -1 \in Int
    OBVIOUS
  <2> QED BY <1>1, <1>2, <1>3, <2>1, SumTimes
<1>6. SumFunctionOnSet(x, S) = SumFunctionOnSet(above, S) + SumFunctionOnSet(w, S)
  BY <1>1, <1>2, <1>3, SumAdd
<1>7. SumFunctionOnSet(minus, S) = SumFunctionOnSet(below, S) + SumFunctionOnSet(w, S)
  BY <1>1, <1>2, <1>3, SumAdd
<1>8. /\ SumFunctionOnSet(above, S) \in Int /\ SumFunctionOnSet(above, S) <= 0
      /\ SumFunctionOnSet(below, S) \in Int /\ SumFunctionOnSet(below, S) <= 0
  <2>1. /\ SumFunctionOnSet(above, S) \in Int
        /\ SumFunctionOnSet(above, S) <= SumFunctionOnSet(above, {})
    BY <1>1, <1>3, SumOfMore
  <2>2. /\ SumFunctionOnSet(below, S) \in Int
        /\ SumFunctionOnSet(below, S) <= SumFunctionOnSet(below, {})
    BY <1>1, <1>3, SumOfMore
  <2> QED BY <2>1, <2>2, SumEmpty
<1>9. SumFunctionOnSet(x, S) \in Int /\ SumFunctionOnSet(w, S) \in Int
  BY <1>1, <1>2, SumType
<1>10. /\ -SumFunctionOnSet(w, S) <= SumFunctionOnSet(x, S)
       /\ SumFunctionOnSet(x, S) <= SumFunctionOnSet(w, S)
  BY <1>5, <1>6, <1>7, <1>8, <1>9
<1> QED BY <1>4, <1>10 DEF S

\* Whatever the requests do and undo, and however their amounts are rounded when
\* they are stored, the trial balance is off by at most the tolerance and half a
\* cent a row for each entry that is still posted.
THEOREM TrialBalanceDriftIsBounded == Spec => []TrialBalanceDrift
<1>1. Init => DriftInv
  <2> SUFFICES ASSUME Init PROVE DriftInv
    OBVIOUS
  <2> DEFINE off == [e \in EntryIds |-> 0]
             f == [p \in Periods |-> Imbalance(gl[p])]
  <2>1. NoLines \in Lines /\ Mirror(NoLines) = NoLines /\ NoLines.total = NoTotals
    BY LinesTypes DEF NoLines, NoTotals, Mirror, Columns, Sides, Other
  <2>2. Imbalance(NoTotals) = 0
    <3>1. Imbalance(NoTotals) = -Imbalance(NoTotals) /\ Imbalance(NoTotals) \in Int
      BY <2>1, ImbalanceOfMirror
    <3> QED BY <3>1
  <2>3. /\ off \in [EntryIds -> Int] /\ \A e \in EntryIds : off[e] = 0
        /\ \A p \in Periods : f[p] = 0
    BY <2>2 DEF Init
  <2>4. IsFiniteSet(Periods) /\ IsFiniteSet(EntryIds)
    BY LedgerAssumption, EntryIdsAreFinite
  <2>5. \A e \in EntryIds : entries[e].status = "absent"
    BY DEF Init, Absent
  <2> HIDE DEF off, f
  <2>6. SumFunctionOnSet(off, EntryIds) = 0 /\ SumFunctionOnSet(f, Periods) = 0
    BY <2>3, <2>4, SumZero
  <2>7. NetBalance = 0
    BY <2>6 DEF NetBalance, f
  <2>8. \A e \in EntryIds : Leaves(off, e)
    BY <2>3, <2>5 DEF Leaves
  <2> QED BY <2>3, <2>6, <2>7, <2>8 DEF DriftInv
<1>2. LedgerInv /\ DriftInv /\ [Next]_vars => DriftInv'
  BY DriftStep
<1>3. LedgerInv /\ DriftInv => TrialBalanceDrift
  <2> SUFFICES ASSUME LedgerInv, DriftInv PROVE TrialBalanceDrift
    OBVIOUS
  <2>1. PICK off \in [EntryIds -> Int] :
          NetBalance = SumFunctionOnSet(off, EntryIds) /\ \A d \in EntryIds : Leaves(off, d)
    BY DEF DriftInv
  <2> DEFINE w == [e \in EntryIds |->
                     IF entries[e].status = "posted" THEN Slack(entries[e].lines) ELSE 0]
  <2>2. \A e \in EntryIds : entries[e].lines \in Lines
    BY DEF LedgerInv, TypeOK, Entry
  <2>3. w \in [EntryIds -> Int] /\ \A e \in EntryIds : w[e] >= 0
    BY <2>2, ImbalanceOfMirror
  <2>4. ASSUME NEW e \in EntryIds
        PROVE  -w[e] <= 2 * Unit * off[e] /\ 2 * Unit * off[e] <= w[e]
    <3>0. 2 * Unit * 0 = 0
      BY DoubleEntryAssumption
    <3>1. CASE entries[e].status = "posted" /\ off[e] # 0
      BY <2>1, <3>1 DEF Leaves, Within
    <3>2. CASE off[e] = 0
      <4> HIDE DEF w
      <4> QED BY <2>3, <3>0, <3>2
    <3> QED BY <2>1, <3>1, <3>2 DEF Leaves
  <2> HIDE DEF w
  <2>5. /\ -SumFunctionOnSet(w, EntryIds) <= 2 * Unit * SumFunctionOnSet(off, EntryIds)
        /\ 2 * Unit * SumFunctionOnSet(off, EntryIds) <= SumFunctionOnSet(w, EntryIds)
    BY <2>3, <2>4, BoundOfSum
  <2> QED BY <2>1, <2>5 DEF TrialBalanceDrift, w
<1> QED BY <1>1, <1>2, <1>3, LedgerInvariant, PTL DEF Spec

-----------------------------------------------------------------------------
(***************************************************************************)
(* The refinement.                                                         *)
(***************************************************************************)
\* The posting the book holds for entry e.
InBook(e) ==
  IF ~IsBooked(e) THEN [state |-> "none"]
  ELSE [state |-> IF entries[e].status = "posted" THEN "live" ELSE "reversed",
        lines |-> entries[e].lines, period |-> entries[e].period,
        reverses |-> entries[e].reversalOf]

TheBook == [e \in EntryIds |-> InBook(e)]

\* The book's operators on lines are the ledger's.
LEMMA SameLines ==
  /\ Book!NoTotals = NoTotals
  /\ \A l : Book!Mirror(l) = Mirror(l)
  /\ \A row, l : Book!Increment(row, l) = Increment(row, l)
BY DEF Book!NoTotals, NoTotals, Book!Mirror, Mirror, Book!Increment, Increment,
       Book!Columns, Columns, Book!Sides, Sides, Book!Other, Other

\* An entry a step keeps is the same posting of the book.
LEMMA KeptInBook ==
  ASSUME NEW d \in EntryIds, Keeps(d)
  PROVE  InBook(d)' = InBook(d)
BY DEF Keeps, InBook, IsBooked

\* Adding an entry is recording a posting.
LEMMA RecordStep ==
  ASSUME LedgerInv, NEW e \in EntryIds, NEW p \in Periods, NEW l \in Lines,
         AddsEntry(e, p, l)
  PROVE  Book!Record(e, l, p)
<1>1. /\ InBook(e) = Book!Blank
      /\ InBook(e)' = Book!Posting(l, p, 0)
  BY DEF AddsEntry, Adds, InBook, IsBooked, Booked, Book!Blank, Book!Posting
<1>2. \A d \in EntryIds \ {e} : InBook(d)' = InBook(d)
  BY KeptInBook DEF AddsEntry
<1>3. TheBook' = [TheBook EXCEPT ![e] = Book!Posting(l, p, 0)]
  BY <1>1, <1>2 DEF TheBook
<1>4. gl' = [gl EXCEPT ![p] = Book!Increment(@, l)]
  BY SameLines DEF AddsEntry, Adds
<1> QED BY <1>1, <1>3, <1>4 DEF Book!Record, TheBook, InBook

\* Adding a reversal is taking a posting back.
LEMMA TakeBackStep ==
  ASSUME LedgerInv, NEW o \in EntryIds, NEW e \in EntryIds, NEW p \in Periods,
         AddsReversal(o, e, p)
  PROVE  Book!TakeBack(o, e, p)
<1> DEFINE l == Mirror(entries[o].lines)
<1>1. /\ InBook(o).state = "live" /\ InBook(o).lines = entries[o].lines
      /\ InBook(e) = Book!Blank
      /\ InBook(e)' = Book!Posting(l, p, o)
  BY DEF AddsReversal, Adds, InBook, IsBooked, Booked, Book!Blank, Book!Posting
<1>2. entries'[o].status = "reversed" /\ entries[o] \in Entry
  BY DEF AddsReversal, LedgerInv, TypeOK, Entry
<1>3. InBook(o)' = [InBook(o) EXCEPT !.state = "reversed"]
  BY <1>2 DEF AddsReversal, InBook, IsBooked, Booked, Entry
<1>4. \A d \in EntryIds \ {e, o} : InBook(d)' = InBook(d)
  BY KeptInBook DEF AddsReversal
<1>5. o # e
  BY DEF AddsReversal
<1>6. TheBook' = [TheBook EXCEPT ![e] = Book!Posting(l, p, o), ![o].state = "reversed"]
  <2> HIDE DEF l
  <2> QED BY <1>1, <1>3, <1>4, <1>5 DEF TheBook
<1>7. gl' = [gl EXCEPT ![p] = Book!Increment(@, Book!Mirror(TheBook[o].lines))]
  BY <1>1, SameLines DEF AddsReversal, Adds, TheBook
<1>8. l = Book!Mirror(TheBook[o].lines)
  BY <1>1, SameLines DEF TheBook
<1> HIDE DEF l
<1> QED BY <1>1, <1>6, <1>7, <1>8 DEF Book!TakeBack, TheBook, InBook

\* The ledger implements the append-only book: whatever the sessions do, each
\* of their steps records one posting, takes one back or leaves book and
\* balances alone.
THEOREM LedgerImplementsBook == Spec => ImplementsBook
<1>1. Init => Book!ABInit
  BY SameLines DEF Init, Book!ABInit, Book!Blank, IsBooked, Booked, Absent
<1>2. ASSUME LedgerInv, [Next]_vars
      PROVE  Book!ABNext \/ UNCHANGED <<TheBook, gl>>
  <2>1. CASE AddsNothing
    <3>1. \A d \in EntryIds : InBook(d)' = InBook(d)
      BY <2>1, KeptInBook DEF AddsNothing
    <3> QED BY <2>1, <3>1 DEF AddsNothing, TheBook
  <2>2. ASSUME NEW e \in EntryIds, NEW p \in Periods, NEW l \in Lines, AddsEntry(e, p, l)
        PROVE  Book!ABNext
    <3>1. l \in Postable
      BY <2>2 DEF AddsEntry
    <3> QED BY <1>2, <2>2, <3>1, RecordStep DEF Book!ABNext
  <2>3. ASSUME NEW o \in EntryIds, NEW e \in EntryIds, NEW p \in Periods,
               AddsReversal(o, e, p)
        PROVE  Book!ABNext
    BY <1>2, <2>3, TakeBackStep DEF Book!ABNext
  <2> QED BY <1>2, <2>1, <2>2, <2>3, BookStep
<1>3. ASSUME LedgerInv, [Next]_vars
      PROVE  [Book!ABNext]_<<TheBook, gl>>
  BY <1>2, <1>3
<1> QED BY <1>1, <1>3, LedgerInvariant, PTL
        DEF Spec, ImplementsBook, Book!ABSpec, TheBook, InBook

-----------------------------------------------------------------------------
(***************************************************************************)
(* Closed periods.                                                         *)
(***************************************************************************)
\* Nobody starts to post into a period that is not open, and with nobody
\* posting into it its balances stay.
LEMMA SealedStep ==
  ASSUME LedgerInv, [Next]_vars, NEW p \in Periods, periodStatus[p] # "open"
  PROVE  /\ Posters(p)' \subseteq Posters(p)
         /\ Posters(p) = {} => gl'[p] = gl[p]
<1> USE DEF Posting
<1>1. ASSUME NEW s \in Sessions, NEW r \in Session, sess' = [sess EXCEPT ![s] = r],
             r.period = p /\ r.op \in {"event", "post", "reverse"}
               /\ r.pc \in {"number", "write"} => Posting(s, p)
      PROVE  Posters(p)' \subseteq Posters(p)
  <2>1. \A t \in Sessions : sess'[t] = IF t = s THEN r ELSE sess[t]
    BY <1>1 DEF LedgerInv, TypeOK
  <2> QED BY <1>1, <2>1 DEF Posters
<1>2. Idle \in Session /\ Idle.op = "none"
  BY BlankTypes DEF Idle
<1>3. ASSUME NEW s \in Sessions, Begin(s)
      PROVE  Posters(p)' \subseteq Posters(p) /\ gl' = gl
  <2>1. ASSUME NEW x \in Requests, NEW q \in Periods, BeginCreate(s, x, q)
        PROVE  Posters(p)' \subseteq Posters(p) /\ gl' = gl
    BY <2>1 DEF BeginCreate, Become, Posters, Idle, LedgerInv, TypeOK
  <2>2. ASSUME NEW x \in Requests, NEW q \in Periods, BeginEvent(s, x, q)
        PROVE  Posters(p)' \subseteq Posters(p) /\ gl' = gl
    BY <2>2 DEF BeginEvent, Become, Posters, Idle, LedgerInv, TypeOK
  <2>3. ASSUME NEW op \in {"submit", "approve"}, NEW e \in EntryIds,
               BeginTransition(s, op, e)
        PROVE  Posters(p)' \subseteq Posters(p) /\ gl' = gl
    BY <2>3 DEF BeginTransition, Become, Posters, Idle, LedgerInv, TypeOK
  <2>4. ASSUME NEW e \in EntryIds, BeginPost(s, e)
        PROVE  Posters(p)' \subseteq Posters(p) /\ gl' = gl
    BY <2>4 DEF BeginPost, Become, Posters, Idle, LedgerInv, TypeOK
  <2>5. ASSUME NEW e \in EntryIds, NEW q \in Periods, BeginReverse(s, e, q)
        PROVE  Posters(p)' \subseteq Posters(p) /\ gl' = gl
    BY <2>5 DEF BeginReverse, Become, Posters, Idle, LedgerInv, TypeOK
  <2> QED BY <1>3, <2>1, <2>2, <2>3, <2>4, <2>5 DEF Begin
<1>4. ASSUME NEW s \in Sessions, Become(s, Idle)
      PROVE  Posters(p)' \subseteq Posters(p) /\ gl' = gl
  BY <1>1, <1>2, <1>4 DEF Become
<1>5. ASSUME NEW s \in Sessions, ReadPeriod(s)
      PROVE  Posters(p)' \subseteq Posters(p) /\ gl' = gl
  <2>1. CASE periodStatus[sess[s].period] = "open"
    <3>1. sess[s].period # p /\ sess[s] \in Session
      BY <2>1 DEF LedgerInv, TypeOK
    <3> QED BY <1>5, <2>1, <3>1 DEF ReadPeriod, Become, Posters, Session, LedgerInv, TypeOK
  <2>2. CASE periodStatus[sess[s].period] # "open"
    BY <1>4, <1>5, <2>2 DEF ReadPeriod
  <2> QED BY <2>1, <2>2
<1>6. ASSUME NEW s \in Sessions, TakeNumber(s)
      PROVE  Posters(p)' \subseteq Posters(p) /\ gl' = gl
  <2>1. /\ sess[s] \in Session /\ sess[s].pc = "number"
        /\ nextNumber \in Nat
    BY <1>6 DEF TakeNumber, LedgerInv, TypeOK
  <2>2. PICK r \in Session : Become(s, r) /\ r.period = sess[s].period /\ r.op = sess[s].op
    <3> DEFINE first == [sess[s] EXCEPT !.pc = "write", !.number = 1]
               next == [sess[s] EXCEPT !.pc = "write", !.number = nextNumber,
                                       !.locked = TRUE]
    <3>1. /\ first \in Session /\ first.period = sess[s].period /\ first.op = sess[s].op
          /\ next \in Session /\ next.period = sess[s].period /\ next.op = sess[s].op
      BY <2>1 DEF Session
    <3>2. Become(s, first) \/ Become(s, next)
      BY <1>6 DEF TakeNumber
    <3> HIDE DEF first, next
    <3> QED BY <3>1, <3>2
  <2> QED BY <1>1, <2>1, <2>2 DEF Become
<1>7. ASSUME NEW s \in Sessions, NEW ops, Writing(s, ops)
      PROVE  Posters(p)' \subseteq Posters(p)
  BY <1>1, <1>2, <1>7 DEF Writing
<1>8. ASSUME NEW s \in Sessions, CommitPost(s) \/ CommitEvent(s) \/ CommitReverse(s)
      PROVE  Posters(p)' \subseteq Posters(p) /\ (Posters(p) = {} => gl'[p] = gl[p])
  <2>1. Writing(s, {"post"}) \/ Writing(s, {"event"}) \/ Writing(s, {"reverse"})
    BY <1>8 DEF CommitPost, CommitEvent, CommitReverse
  <2>2. /\ sess[s].op \in {"post", "event", "reverse"} /\ sess[s].pc = "write"
        /\ SessionConsistent(s)
    BY <2>1, WritingFacts
  <2>3. gl' = [gl EXCEPT ![sess[s].period] = gl'[sess[s].period]]
    BY <1>8, <2>2 DEF CommitPost, CommitEvent, CommitReverse, SessionConsistent, Writing,
                      LedgerInv, TypeOK
  <2>4. Posters(p) = {} => sess[s].period # p
    BY <2>2 DEF Posters
  <2> QED BY <1>7, <2>1, <2>3, <2>4 DEF LedgerInv, TypeOK
<1>9. ASSUME NEW s \in Sessions, CommitTransition(s) \/ CommitCreate(s)
      PROVE  Posters(p)' \subseteq Posters(p) /\ gl' = gl
  BY <1>7, <1>9 DEF CommitTransition, CommitCreate
<1>10. ASSUME NEW s \in Sessions, Reject(s) \/ Abort(s)
       PROVE  Posters(p)' \subseteq Posters(p) /\ gl' = gl
  BY <1>4, <1>10 DEF Reject, Abort
<1>11. ASSUME NEW q \in Periods, NEW status \in PeriodStatuses, SetPeriodStatus(q, status)
       PROVE  Posters(p)' \subseteq Posters(p) /\ gl' = gl
  BY <1>11 DEF SetPeriodStatus, Posters
<1>12. CASE UNCHANGED vars
  BY <1>12 DEF vars, Posters
<1> QED BY <1>3, <1>5, <1>6, <1>8, <1>9, <1>10, <1>11, <1>12 DEF Next, Advance

\* A closed period gains no new posters, and is sealed when those it had are done.
THEOREM ClosedPeriodsAreSealed == Spec => ClosedPeriodSealed
<1>1. LedgerInv /\ [Next]_vars =>
        [\A p \in Periods : periodStatus[p] # "open" =>
           /\ Posters(p)' \subseteq Posters(p)
           /\ Posters(p) = {} => gl'[p] = gl[p]]_vars
  BY SealedStep
<1> QED BY <1>1, LedgerInvariant, PTL DEF Spec, ClosedPeriodSealed
=============================================================================
