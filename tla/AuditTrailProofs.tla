-------------------------- MODULE AuditTrailProofs --------------------------
(***************************************************************************)
(* Proofs about AuditTrail, for any number of sessions, tables, rows and   *)
(* requests.                                                               *)
(***************************************************************************)
EXTENDS AuditTrail, TotalsProofs

\* A nonempty set of numbers with an upper bound has a greatest one.
LEMMA GreatestNatural ==
  ASSUME NEW T \in SUBSET Nat, T # {}, NEW n \in Nat, \A k \in T : k <= n
  PROVE  Max(T) \in T /\ \A k \in T : k <= Max(T)
<1> DEFINE U == {n - k : k \in T}
<1>1. U \in SUBSET Nat /\ U # {}
  <2>1. \A k \in T : n - k \in Nat
    OBVIOUS
  <2>2. PICK k \in T : TRUE
    OBVIOUS
  <2> QED BY <2>1, <2>2
<1>2. PICK u \in U : \A v \in U : u <= v
  BY <1>1, LeastNatural
<1>3. PICK m \in T : u = n - m
  OBVIOUS
<1>4. \A k \in T : m >= k
  <2>1. TAKE k \in T
  <2>2. u <= n - k
    BY <1>2
  <2> QED BY <1>3, <2>2
<1>5. Max(T) \in T /\ \A k \in T : Max(T) >= k
  BY <1>4 DEF Max
<1> QED BY <1>5

\* Being rivals for a key is symmetric.
LEMMA RivalsSymmetric ==
  \A e \in Entities : \A d \in Rivals(e) : d \in Entities \ {e} /\ e \in Rivals(d)
BY DEF Rivals

\* The idle session, the empty request and the new row are well typed.
LEMMA BlankTypes ==
  /\ Blank \in Row
  /\ Idle \in Transaction
BY AuditAssumption DEF Blank, Row, Idle, Steps, NoHash, Transaction

-----------------------------------------------------------------------------
(***************************************************************************)
(* What a step that leaves tables and trail alone preserves.               *)
(***************************************************************************)
\* The part of the invariant about tables and trail.
TablesOK ==
  /\ \A r \in trail : RowOK(r)
  /\ LastEditIsCurrent
  /\ LivesOnce
  /\ OldValueAsOfRead

LEMMA TablesKept ==
  ASSUME AuditInv, value' = value, trail' = trail, clock' \in Nat, clock <= clock'
  PROVE  TablesOK'
<1>1. \A r \in trail : RowOK(r)'
  <2>1. TAKE r \in trail
  <2>2. RowOK(r) /\ r.committed \in Nat /\ clock \in Nat
    BY DEF AuditInv, TypeOK, Transaction, AuditRow
  <2>3. r.committed <= clock'
    BY <2>2 DEF RowOK
  <2> QED BY <2>2, <2>3 DEF RowOK, LinkOK, About, OwnOf, Together
<1>2. LastEditIsCurrent' /\ LivesOnce' /\ OldValueAsOfRead'
  BY DEF AuditInv, LastEditIsCurrent, LivesOnce, Birth, OldValueAsOfRead, Latest, About
<1> QED BY <1>1, <1>2 DEF TablesOK

\* What a session knows stays true of tables that do not change, when its row's
\* lock does not.
LEMMA SessionKept ==
  ASSUME AuditInv, value' = value, trail' = trail, clock' \in Nat, clock <= clock',
         NEW s \in Sessions, sess'[s] = sess[s],
         Writing(s) => lock'[sess[s].entity] = s
  PROVE  /\ SessionOK(s)'
         /\ LinkedSession(s)'
<1>1. SessionOK(s) /\ clock \in Nat /\ sess[s].read \in Nat /\ sess[s].at \in Nat
  BY DEF AuditInv, TypeOK, Transaction
<1>2. SessionOK(s)'
  <2>1. \A n \in sess[s].notes : n.at \in Nat
    BY DEF AuditInv, TypeOK, Transaction
  <2> QED BY <1>1, <2>1 DEF SessionOK, Changing, Writing, About, Latest
<1>3. LinkedSession(s)'
  BY DEF AuditInv, LinkedSession, LinkOK, Own
<1> QED BY <1>2, <1>3

\* A step of one session that leaves tables and trail alone needs a look only at
\* this session and at the locks.
LEMMA QuietStep ==
  ASSUME AuditInv, TypeOK', value' = value, trail' = trail, clock <= clock',
         NEW s \in Sessions, SessionOK(s)', LinkedSession(s)',
         \A x \in Sessions \ {s} :
           sess'[x] = sess[x] /\ (Writing(x) => lock'[sess[x].entity] = x),
         \A e \in Entities : HeldOK(e)' /\ OneRow(e)'
  PROVE  AuditInv'
<1>1. clock' \in Nat
  BY DEF TypeOK, Transaction
<1>2. TablesOK'
  BY <1>1, TablesKept
<1>3. \A x \in Sessions : SessionOK(x)' /\ LinkedSession(x)'
  BY <1>1, SessionKept
<1> QED BY <1>2, <1>3 DEF AuditInv, TablesOK

LEMMA InsertKeeps ==
  ASSUME AuditInv, NEW s \in Sessions, NEW e \in Entities, NEW step \in {"signing", "written"},
         InsertRow(s, e, step)
  PROVE  AuditInv'
<1>1. TypeOK /\ s # Nobody
  BY AuditAssumption DEF AuditInv
<1>2. /\ lock' = [lock EXCEPT ![e] = s] /\ lock[e] = Nobody /\ value[e] = NoRow
      /\ sess' = [sess EXCEPT ![s] = [Idle EXCEPT !.step = step, !.op = "create",
                      !.entity = e, !.read = clock, !.after = Blank]]
      /\ value' = value /\ trail' = trail /\ clock' = clock
  BY DEF InsertRow, NewId, Become
<1>3. TypeOK'
  BY <1>1, <1>2, BlankTypes DEF TypeOK, Transaction, Steps
<1>4. /\ sess'[s].step = step /\ sess'[s].op = "create" /\ sess'[s].entity = e
      /\ sess'[s].read = clock /\ sess'[s].before = NoRow /\ sess'[s].after = Blank
      /\ sess'[s].notes = {}
  BY <1>1, <1>2 DEF TypeOK, Transaction, Idle
<1>5. SessionOK(s)' /\ LinkedSession(s)'
  <2>1. About(e)' = {} /\ lock'[e] = s /\ Blank # NoRow
    BY <1>1, <1>2, BlankTypes, AuditAssumption DEF InsertRow, NewId, About, TypeOK, Transaction
  <2> QED BY <1>1, <1>2, <1>4, <2>1 DEF SessionOK, LinkedSession, Writing, Changing, TypeOK, Transaction
<1>6. \A x \in Sessions \ {s} :
        sess'[x] = sess[x] /\ (Writing(x) => lock'[sess[x].entity] = x)
  <2>1. TAKE x \in Sessions \ {s}
  <2>2. SessionOK(x) /\ x # Nobody
    BY AuditAssumption DEF AuditInv
  <2> QED BY <1>1, <1>2, <2>2 DEF SessionOK, Writing, TypeOK, Transaction
<1>7. \A d \in Entities : HeldOK(d)'
  <2>1. TAKE d \in Entities
  <2>2. HeldOK(d)
    BY DEF AuditInv
  <2>3. ~Writing(s)
    BY DEF InsertRow, Idle, Writing
  <2> QED BY <1>1, <1>2, <1>4, <2>2, <2>3 DEF HeldOK, Held, Writing, TypeOK, Transaction
<1>8. \A d \in Entities : OneRow(d)'
  <2>1. TAKE d \in Entities
  <2>2. \A c \in Entities : Taken(c)' <=> (Taken(c) \/ c = e)
    BY <1>1, <1>2 DEF Taken, Held, TypeOK, Transaction
  <2>3. \A c \in Rivals(e) : ~Taken(c)
    BY DEF InsertRow, KeyFree, Taken, Held
  <2>4. OneRow(d)
    BY DEF AuditInv
  <2> QED BY <2>2, <2>3, <2>4, RivalsSymmetric DEF OneRow, Rivals
<1> QED BY <1>1, <1>2, <1>3, <1>5, <1>6, <1>7, <1>8, QuietStep DEF TypeOK, Transaction

LEMMA ReadBeforeKeeps ==
  ASSUME AuditInv, NEW s \in Sessions, NEW e \in Entities, NEW dto \in Requests \cup {NoRequest},
         NEW op \in {"edit", "remove"}, ReadBefore(s, op, e, dto)
  PROVE  AuditInv'
<1>1. TypeOK
  BY DEF AuditInv
<1>2. /\ sess' = [sess EXCEPT ![s] = [Idle EXCEPT !.step = "read", !.op = op,
                      !.entity = e, !.dto = dto, !.read = clock, !.before = value[e]]]
      /\ value[e] # NoRow
      /\ value' = value /\ trail' = trail /\ clock' = clock /\ lock' = lock
  BY DEF ReadBefore, Become
<1>3. TypeOK'
  BY <1>1, <1>2, BlankTypes DEF TypeOK, Transaction, Steps
<1>4. /\ sess'[s].step = "read" /\ sess'[s].op = op /\ sess'[s].entity = e
      /\ sess'[s].read = clock /\ sess'[s].before = value[e] /\ sess'[s].notes = {}
  BY <1>1, <1>2 DEF TypeOK, Transaction, Idle
<1>5. PICK q \in About(e) : q.newValue = value[e] /\ Latest(e, clock, q)
  <2> DEFINE A == {r.at : r \in About(e)}
  <2>1. /\ About(e) # {} /\ A \in SUBSET Nat /\ A # {} /\ clock \in Nat
        /\ \A r \in About(e) : RowOK(r) /\ r \in AuditRow /\ r.entity = e
    BY <1>1, <1>2 DEF AuditInv, LastEditIsCurrent, TypeOK, Transaction, About, AuditRow
  <2>2. \A k \in A : k <= clock
    BY <2>1 DEF RowOK, AuditRow
  <2>3. PICK q \in About(e) : \A r \in About(e) : r.at <= q.at
    <3>1. Max(A) \in A /\ \A k \in A : k <= Max(A)
      BY <2>1, <2>2, GreatestNatural
    <3> QED BY <3>1
  <2>4. q.newValue = value[e]
    BY <2>3 DEF AuditInv, LastEditIsCurrent
  <2>5. \A r \in About(e) : r.committed <= q.committed
    BY <2>1, <2>3 DEF RowOK
  <2>6. q.committed <= clock
    BY <2>1 DEF RowOK
  <2> QED BY <2>4, <2>5, <2>6 DEF Latest
<1>6. SessionOK(s)' /\ LinkedSession(s)'
  <2>1. q \in About(e)' /\ Latest(e, clock, q)' /\ clock \in Nat
    BY <1>1, <1>2, <1>5 DEF About, Latest, TypeOK, Transaction
  <2> QED BY <1>2, <1>4, <1>5, <2>1 DEF SessionOK, LinkedSession, Writing, Changing
<1>7. \A x \in Sessions \ {s} :
        sess'[x] = sess[x] /\ (Writing(x) => lock'[sess[x].entity] = x)
  BY <1>1, <1>2 DEF AuditInv, SessionOK, Writing, TypeOK, Transaction
<1>8. \A d \in Entities : HeldOK(d)' /\ OneRow(d)'
  <2>1. TAKE d \in Entities
  <2>2. HeldOK(d) /\ OneRow(d) /\ ~Writing(s)
    BY DEF AuditInv, ReadBefore, Idle, Writing
  <2> QED BY <1>1, <1>2, <2>2 DEF HeldOK, OneRow, Held, Taken, Rivals, Writing, TypeOK, Transaction
<1> QED BY <1>1, <1>2, <1>3, <1>6, <1>7, <1>8, QuietStep DEF TypeOK, Transaction

LEMMA WriteKeeps ==
  ASSUME AuditInv, NEW s \in Sessions, Write(s)
  PROVE  AuditInv'
<1> DEFINE t == sess[s]
           e == t.entity
           after == IF t.op = "edit" THEN Merge(t) ELSE NoRow
<1>1. /\ TypeOK /\ SessionOK(s) /\ LinkedSession(s) /\ s # Nobody /\ t.step = "read"
      /\ e \in Entities /\ Changing(s)
  BY AuditAssumption DEF AuditInv, SessionOK, Write, Changing
<1>2. /\ lock' = [lock EXCEPT ![e] = s] /\ lock[e] = Nobody /\ value[e] # NoRow
      /\ sess' = [sess EXCEPT ![s] = [t EXCEPT !.step = "written", !.after = after]]
      /\ value' = value /\ trail' = trail /\ clock' = clock
  BY DEF Write, MayWrite, Become
<1>3. after \in Row \cup {NoRow} /\ (t.op = "edit" => after # NoRow)
  <2>1. ASSUME t.op = "edit" PROVE Merge(t) \in Row /\ NoRow \notin Row
    <3>1. value[e] \in [Fields -> Values]
      BY <1>1, <1>2 DEF TypeOK, Transaction, Row
    <3>2. \A f \in DOMAIN t.dto : t.dto[f] \in Values
      BY <1>1, AuditAssumption DEF TypeOK, Transaction, NoRequest
    <3> QED BY <3>1, <3>2, AuditAssumption DEF Merge, Row
  <2> QED BY <2>1
<1>4. TypeOK'
  <2>1. PICK q, a : q = t /\ a = after
    OBVIOUS
  <2>2. q \in Transaction /\ a \in Row \cup {NoRow}
    BY <1>1, <1>3, <2>1 DEF TypeOK
  <2>3. [q EXCEPT !.step = "written", !.after = a] \in Transaction
    BY <2>2 DEF Transaction, Steps
  <2> QED BY <1>1, <1>2, <2>1, <2>3 DEF TypeOK
<1>5. /\ sess'[s].step = "written" /\ sess'[s].op = t.op /\ sess'[s].entity = e
      /\ sess'[s].read = t.read /\ sess'[s].before = t.before /\ sess'[s].after = after
      /\ sess'[s].notes = t.notes
  BY <1>1, <1>2 DEF TypeOK, Transaction
<1>6. SessionOK(s)' /\ LinkedSession(s)'
  <2>1. /\ t.op \in {"edit", "remove"} /\ t.before # NoRow /\ t.read <= clock
        /\ \E q \in About(e) : q.newValue = t.before /\ Latest(e, t.read, q)
    BY <1>1 DEF SessionOK, TypeOK, Transaction
  <2>2. \E q \in About(e)' : q.newValue = t.before /\ Latest(e, t.read, q)'
    BY <1>2, <2>1 DEF About, Latest
  <2>3. SessionOK(s)'
    BY <1>1, <1>2, <1>3, <1>5, <2>1, <2>2 DEF SessionOK, Writing, Changing, TypeOK
  <2>4. LinkedSession(s)'
    BY <1>1, <1>2, <1>5 DEF LinkedSession, LinkOK, Own
  <2> QED BY <2>3, <2>4
<1>7. \A x \in Sessions \ {s} :
        sess'[x] = sess[x] /\ (Writing(x) => lock'[sess[x].entity] = x)
  <2>1. TAKE x \in Sessions \ {s}
  <2>2. SessionOK(x) /\ x # Nobody
    BY AuditAssumption DEF AuditInv
  <2> QED BY <1>1, <1>2, <2>2 DEF SessionOK, Writing, TypeOK, Transaction
<1>8. \A d \in Entities : HeldOK(d)' /\ OneRow(d)'
  <2>1. TAKE d \in Entities
  <2>2. HeldOK(d) /\ OneRow(d) /\ ~Writing(s)
    BY <1>1 DEF AuditInv, Writing
  <2>3. HeldOK(d)'
    BY <1>1, <1>2, <1>5, <2>2 DEF HeldOK, Held, Writing, TypeOK, Transaction
  <2>4. \A c \in Entities : Taken(c)' <=> Taken(c)
    BY <1>1, <1>2 DEF Taken, Held, TypeOK, Transaction
  <2> QED BY <2>2, <2>3, <2>4 DEF OneRow, Rivals
<1> QED BY <1>1, <1>2, <1>4, <1>6, <1>7, <1>8, QuietStep DEF TypeOK, Transaction

\* The trigger finds the greatest row that is committed or the transaction's own.
LEMMA LastRowIsLast ==
  ASSUME AuditInv, NEW s \in Sessions
  PROVE  /\ LastRow(s) \in Nat /\ LastRow(s) <= clock
         /\ \A r \in trail : r.at <= LastRow(s)
         /\ \A n \in Own(s) : n <= LastRow(s)
         /\ LastRow(s) # NoHash => LastRow(s) \in Own(s) \/ \E q \in trail : q.at = LastRow(s)
<1> DEFINE A == {r.at : r \in trail} \cup Own(s)
<1>1. LastRow(s) = IF A = {} THEN NoHash ELSE Max(A)
  BY DEF LastRow, Own
<1>2. A \in SUBSET Nat /\ clock \in Nat /\ \A k \in A : k <= clock
  <2>1. \A r \in trail : r.at \in Nat /\ r.at <= clock
    BY DEF AuditInv, TypeOK, AuditRow, RowOK
  <2>2. \A n \in sess[s].notes : n.at \in Nat /\ n.at <= clock
    BY DEF AuditInv, TypeOK, Transaction, SessionOK
  <2> QED BY <2>1, <2>2 DEF Own, AuditInv, TypeOK
<1>3. CASE A = {}
  BY <1>1, <1>2, <1>3 DEF NoHash
<1>4. CASE A # {}
  <2>1. Max(A) \in A /\ \A k \in A : k <= Max(A)
    BY <1>2, <1>4, GreatestNatural
  <2> QED BY <1>1, <1>2, <1>4, <2>1
<1> QED BY <1>3, <1>4

\* A link to it is true: it is past everything that the transaction sees.
LEMMA NewLinkOK ==
  ASSUME AuditInv, NEW s \in Sessions
  PROVE  LinkOK(clock + 1, LastRow(s), Own(s)) /\ LinkOK(clock + 1, LastRow(s), Own(s) \cup {clock + 1})
<1>1. \A r \in trail : RowOK(r) /\ r \in AuditRow /\ clock \in Nat
  BY DEF AuditInv, TypeOK
<1>2. LinkOK(clock + 1, LastRow(s), Own(s))
  BY <1>1, LastRowIsLast DEF LinkOK, RowOK, AuditRow
<1>3. clock \in Nat
  BY DEF AuditInv, TypeOK
<1> QED BY <1>2, <1>3 DEF LinkOK

\* A step that records leaves the other sessions and the locks alone.
LEMMA RecordedKeeps ==
  ASSUME AuditInv, NEW s \in Sessions, NEW t \in Transaction, Recorded(s, t),
         SessionOK(s)', LinkedSession(s)',
         Writing(s) => Writing(s)' /\ t.entity = sess[s].entity
  PROVE  AuditInv'
<1>1. TypeOK /\ clock \in Nat
  BY DEF AuditInv, TypeOK
<1>2. /\ sess' = [sess EXCEPT ![s] = t] /\ sess'[s] = t
      /\ value' = value /\ trail' = trail /\ clock' = clock + 1 /\ lock' = lock
  BY <1>1 DEF Recorded, Become, TypeOK
<1>3. TypeOK' /\ clock <= clock'
  BY <1>1, <1>2 DEF TypeOK
<1>4. \A x \in Sessions \ {s} :
        sess'[x] = sess[x] /\ (Writing(x) => lock'[sess[x].entity] = x)
  BY <1>1, <1>2 DEF AuditInv, SessionOK, Writing, TypeOK
<1>5. \A d \in Entities : HeldOK(d)' /\ OneRow(d)'
  <2>1. TAKE d \in Entities
  <2>2. HeldOK(d) /\ OneRow(d)
    BY DEF AuditInv
  <2>3. OneRow(d)'
    BY <1>2, <2>2 DEF OneRow, Held, Taken, Rivals
  <2>4. ASSUME Held(d) PROVE Writing(lock[d])' /\ sess'[lock[d]].entity = d
    <3>1. lock[d] \in Sessions /\ Writing(lock[d]) /\ sess[lock[d]].entity = d
      BY <2>2, <2>4 DEF HeldOK
    <3>2. CASE lock[d] = s
      BY <1>2, <3>1, <3>2 DEF Writing
    <3>3. CASE lock[d] # s
      BY <1>4, <3>1, <3>3 DEF Writing
    <3> QED BY <3>2, <3>3
  <2> QED BY <1>2, <2>2, <2>3, <2>4 DEF HeldOK, Held, Writing
<1> QED BY <1>1, <1>2, <1>3, <1>4, <1>5, QuietStep

LEMMA RecordKeeps ==
  ASSUME AuditInv, NEW s \in Sessions, Record(s)
  PROVE  AuditInv'
<1>0. PICK q : q = sess[s]
  OBVIOUS
<1>1. /\ TypeOK /\ SessionOK(s) /\ LinkedSession(s) /\ q.step = "written" /\ clock \in Nat
      /\ q \in Transaction /\ LastRow(s) \in Nat
  BY <1>0, LastRowIsLast DEF AuditInv, Record, TypeOK
<1>a. PICK at, prev : at = clock + 1 /\ prev = LastRow(s)
  OBVIOUS
<1>b. PICK t : t = [q EXCEPT !.step = "recorded", !.at = at, !.prev = prev]
  OBVIOUS
<1>2. /\ at = clock + 1 /\ prev = LastRow(s)
      /\ t = [q EXCEPT !.step = "recorded", !.at = at, !.prev = prev]
  BY <1>a, <1>b
<1>3. /\ Recorded(s, t) /\ trail' = trail /\ value' = value /\ lock' = lock /\ clock' = clock + 1
      /\ sess'[s] = t
  BY <1>0, <1>1, <1>2 DEF Record, Recorded, Become, TypeOK
<1>4. /\ t \in Transaction /\ t.step = "recorded" /\ t.op = q.op /\ t.entity = q.entity
      /\ t.read = q.read /\ t.before = q.before /\ t.after = q.after /\ t.notes = q.notes
      /\ t.at = clock + 1 /\ t.prev = LastRow(s)
  <2>1. at \in Nat /\ prev \in Nat
    BY <1>1, <1>2
  <2>2. t \in Transaction /\ t.at = at /\ t.prev = prev
    BY <1>1, <1>2, <2>1 DEF Transaction, Steps
  <2> QED BY <1>1, <1>2, <2>2 DEF Transaction
<1>5. \A r \in trail : RowOK(r) /\ r \in AuditRow
  BY <1>1 DEF AuditInv, TypeOK
<1>6. SessionOK(s)'
  <2>1. q.read <= clock + 1 /\ LastRow(s) < clock + 1
    BY <1>0, <1>1, LastRowIsLast DEF SessionOK, Transaction
  <2>2. \A r \in trail : r.at < clock + 1
    BY <1>1, <1>5 DEF RowOK, AuditRow
  <2>3. About(q.entity)' = About(q.entity)
    BY <1>3 DEF About
  <2>4. \A p : Latest(q.entity, q.read, p)' <=> Latest(q.entity, q.read, p)
    BY <1>3, <2>3 DEF Latest
  <2>5. \A n \in q.notes : n.at \in Nat /\ n.at <= clock /\ n.prev < n.at
    BY <1>0, <1>1 DEF SessionOK, Transaction
  <2> QED BY <1>0, <1>1, <1>3, <1>4, <2>1, <2>2, <2>3, <2>4, <2>5
          DEF SessionOK, Changing, Writing, About
<1>7. LinkedSession(s)'
  <2>1. LinkOK(clock + 1, LastRow(s), Own(s)) /\ Own(s)' = Own(s)
    BY <1>0, <1>3, <1>4, NewLinkOK DEF Own
  <2>2. \A n, link, own : LinkOK(n, link, own)' <=> LinkOK(n, link, own)
    BY <1>3 DEF LinkOK
  <2> QED BY <1>0, <1>1, <1>3, <1>4, <2>1, <2>2 DEF LinkedSession
<1>8. Writing(s) => Writing(s)' /\ t.entity = sess[s].entity
  BY <1>0, <1>3, <1>4 DEF Writing
<1> QED BY <1>3, <1>4, <1>6, <1>7, <1>8, RecordedKeeps

\* A row about no entity that is recorded now joins the transaction's own rows.
LEMMA NoteLinked ==
  ASSUME AuditInv, NEW s \in Sessions, trail' = trail,
         sess'[s].notes = sess[s].notes \cup {[at |-> clock + 1, prev |-> LastRow(s)]},
         sess'[s].step # "recorded"
  PROVE  /\ LinkedSession(s)'
         /\ \A n \in sess'[s].notes : n.at <= clock + 1 /\ n.prev < n.at
<1>1. /\ clock \in Nat /\ LastRow(s) \in Nat /\ LastRow(s) <= clock
      /\ \A n \in sess[s].notes : /\ n.at \in Nat /\ n.prev \in Nat
                                  /\ n.at <= clock /\ n.prev < n.at
                                  /\ LinkOK(n.at, n.prev, Own(s))
  <2>1. \A n \in sess[s].notes : n.at \in Nat /\ n.prev \in Nat
    BY DEF AuditInv, TypeOK, Transaction
  <2>2. /\ \A n \in sess[s].notes : n.at <= clock /\ n.prev < n.at
        /\ \A n \in sess[s].notes : LinkOK(n.at, n.prev, Own(s))
    BY DEF AuditInv, SessionOK, LinkedSession
  <2>3. clock \in Nat /\ LastRow(s) \in Nat /\ LastRow(s) <= clock
    BY LastRowIsLast DEF AuditInv, TypeOK
  <2> QED BY <2>1, <2>2, <2>3
<1>2. Own(s)' = Own(s) \cup {clock + 1}
  <2>1. Own(s)' = {n.at : n \in sess[s].notes \cup {[at |-> clock + 1, prev |-> LastRow(s)]}}
    BY DEF Own
  <2>2. {n.at : n \in {[at |-> clock + 1, prev |-> LastRow(s)]}} = {clock + 1}
    OBVIOUS
  <2> QED BY <2>1, <2>2 DEF Own
<1>3. \A at, prev, own : LinkOK(at, prev, own)' <=> LinkOK(at, prev, own)
  BY DEF LinkOK
<1>4. ASSUME NEW n \in sess[s].notes PROVE LinkOK(n.at, n.prev, Own(s) \cup {clock + 1})
  <2>1. LinkOK(n.at, n.prev, Own(s)) /\ n.at \in Nat /\ ~(clock + 1 < n.at)
    BY <1>1
  <2> QED BY <2>1 DEF LinkOK
<1>5. LinkOK(clock + 1, LastRow(s), Own(s) \cup {clock + 1})
  BY NewLinkOK
<1>6. ASSUME NEW n \in sess'[s].notes PROVE LinkOK(n.at, n.prev, Own(s))'
  <2>1. CASE n \in sess[s].notes
    BY <1>2, <1>3, <1>4, <2>1
  <2>2. CASE n = [at |-> clock + 1, prev |-> LastRow(s)]
    BY <1>2, <1>3, <1>5, <2>2
  <2> QED BY <2>1, <2>2
<1>7. \A n \in sess'[s].notes : n.at <= clock + 1 /\ n.prev < n.at
  BY <1>1
<1> QED BY <1>6, <1>7 DEF LinkedSession

LEMMA RecordTenantKeeps ==
  ASSUME AuditInv, NEW s \in Sessions, RecordTenant(s)
  PROVE  AuditInv'
<1>0. PICK q, n : q = sess[s] /\ n = [at |-> clock + 1, prev |-> LastRow(s)]
  OBVIOUS
<1>1. /\ TypeOK /\ SessionOK(s) /\ q.step = "signing" /\ clock \in Nat
      /\ q \in Transaction /\ n \in [at : Nat, prev : Nat]
  BY <1>0, LastRowIsLast DEF AuditInv, RecordTenant, TypeOK
<1>2. PICK t : t = [q EXCEPT !.step = "written", !.notes = q.notes \cup {n}]
  OBVIOUS
<1>3. /\ Recorded(s, t) /\ trail' = trail /\ value' = value /\ lock' = lock /\ clock' = clock + 1
      /\ sess'[s] = t
  BY <1>0, <1>1, <1>2 DEF RecordTenant, Recorded, Become, TypeOK
<1>4. /\ t \in Transaction /\ t.step = "written" /\ t.op = q.op /\ t.entity = q.entity
      /\ t.read = q.read /\ t.before = q.before /\ t.after = q.after
      /\ t.notes = q.notes \cup {n}
  BY <1>1, <1>2 DEF Transaction, Steps
<1>5. LinkedSession(s)' /\ \A m \in t.notes : m.at <= clock + 1 /\ m.prev < m.at
  BY <1>0, <1>3, <1>4, NoteLinked
<1>6. SessionOK(s)'
  <2>1. q.read <= clock + 1
    BY <1>0, <1>1 DEF SessionOK, Transaction
  <2>2. About(q.entity)' = About(q.entity)
    BY <1>3 DEF About
  <2>3. \A p : Latest(q.entity, q.read, p)' <=> Latest(q.entity, q.read, p)
    BY <1>3, <2>2 DEF Latest
  <2> QED BY <1>0, <1>1, <1>3, <1>4, <1>5, <2>1, <2>2, <2>3 DEF SessionOK, Changing, Writing
<1>7. Writing(s) => Writing(s)' /\ t.entity = sess[s].entity
  BY <1>0, <1>3, <1>4 DEF Writing
<1> QED BY <1>3, <1>4, <1>5, <1>6, <1>7, RecordedKeeps

LEMMA LoginKeeps ==
  ASSUME AuditInv, NEW s \in Sessions, NEW e \in Entities, Login(s, e)
  PROVE  AuditInv'
<1>0. PICK n : n = [at |-> clock + 1, prev |-> LastRow(s)]
  OBVIOUS
<1>1. /\ TypeOK /\ sess[s] = Idle /\ clock \in Nat /\ n \in [at : Nat, prev : Nat]
  BY <1>0, LastRowIsLast DEF AuditInv, Login, TypeOK
<1>2. PICK t : t = [Idle EXCEPT !.step = "login", !.read = clock, !.notes = {n}]
  OBVIOUS
<1>3. /\ Recorded(s, t) /\ trail' = trail /\ value' = value /\ lock' = lock /\ clock' = clock + 1
      /\ sess'[s] = t
  BY <1>0, <1>1, <1>2 DEF Login, Recorded, Become, TypeOK
<1>4. /\ t \in Transaction /\ t.step = "login" /\ t.read = clock /\ t.notes = {n}
  BY <1>1, <1>2, BlankTypes DEF Transaction, Steps, Idle
<1>5. sess[s].notes = {} /\ ~Writing(s)
  BY <1>1 DEF Idle, Writing
<1>6. LinkedSession(s)' /\ \A m \in t.notes : m.at <= clock + 1 /\ m.prev < m.at
  BY <1>0, <1>3, <1>4, <1>5, NoteLinked
<1>7. SessionOK(s)'
  BY <1>1, <1>3, <1>4, <1>6 DEF SessionOK, Changing, Writing
<1> QED BY <1>3, <1>4, <1>5, <1>6, <1>7, RecordedKeeps

LEMMA AbortKeeps ==
  ASSUME AuditInv, NEW s \in Sessions, Abort(s)
  PROVE  AuditInv'
<1>1. TypeOK /\ s # Nobody
  BY AuditAssumption DEF AuditInv
<1>2. /\ sess' = [sess EXCEPT ![s] = Idle] /\ lock' = Release(s)
      /\ value' = value /\ trail' = trail /\ clock' = clock
  BY DEF Abort, Become
<1>3. TypeOK'
  BY <1>1, <1>2, BlankTypes DEF TypeOK, Transaction, Release
<1>4. sess'[s] = Idle
  BY <1>1, <1>2 DEF TypeOK, Transaction
<1>5. SessionOK(s)' /\ LinkedSession(s)'
  BY <1>1, <1>2, <1>4 DEF SessionOK, LinkedSession, Writing, Changing, Idle, TypeOK
<1>6. \A x \in Sessions \ {s} :
        sess'[x] = sess[x] /\ (Writing(x) => lock'[sess[x].entity] = x)
  <2>1. TAKE x \in Sessions \ {s}
  <2>2. SessionOK(x) /\ sess'[x] = sess[x]
    BY <1>1, <1>2 DEF AuditInv, TypeOK
  <2>3. ASSUME Writing(x) PROVE sess[x].entity \in Entities /\ lock[sess[x].entity] = x
    BY <2>2, <2>3 DEF SessionOK, Changing, Writing
  <2> QED BY <1>2, <2>2, <2>3 DEF Release
<1>7. \A d \in Entities : HeldOK(d)' /\ OneRow(d)'
  <2>1. TAKE d \in Entities
  <2>2. HeldOK(d) /\ OneRow(d)
    BY DEF AuditInv
  <2>3. \A c \in Entities : Held(c)' => lock'[c] = lock[c] /\ Held(c) /\ lock[c] # s
    BY <1>1, <1>2 DEF Held, Release, TypeOK, Transaction
  <2>4. HeldOK(d)'
    BY <1>1, <1>2, <2>2, <2>3 DEF HeldOK, Writing, TypeOK, Transaction
  <2>5. \A c \in Entities : Taken(c)' => Taken(c)
    BY <1>2, <2>3 DEF Taken
  <2> QED BY <2>2, <2>4, <2>5 DEF OneRow, Rivals
<1> QED BY <1>1, <1>2, <1>3, <1>5, <1>6, <1>7, QuietStep DEF TypeOK, Transaction

-----------------------------------------------------------------------------
\* The rows a commit puts into the trail.
RowsOf(s) ==
  {Note(n, sess[s], clock + 1) : n \in sess[s].notes} \cup
  (IF sess[s].step = "recorded" THEN {Change(sess[s], clock + 1)} ELSE {})
TimesOf(s) == {q.at : q \in RowsOf(s)}

\* What they show, each by itself.
LEMMA RowsAreRecorded ==
  ASSUME AuditInv, NEW s \in Sessions, sess[s].step \in {"recorded", "login"}
  PROVE  /\ \A r \in RowsOf(s) :
              /\ r \in AuditRow /\ r.committed = clock + 1
              /\ r.at <= clock /\ r.prev < r.at /\ r.read <= clock
              /\ LinkOK(r.at, r.prev, TimesOf(s))
              /\ r.entity \in Entities \/ r.oldValue # NoRow =>
                   sess[s].step = "recorded" /\ r = Change(sess[s], clock + 1)
<1>0. PICK t, time : t = sess[s] /\ time = clock + 1
  OBVIOUS
<1>1. /\ t \in Transaction /\ SessionOK(s) /\ LinkedSession(s)
      /\ clock \in Nat /\ time \in Nat /\ t.read \in Nat /\ t.read <= clock
      /\ t.at \in Nat /\ t.prev \in Nat
  <2>1. t \in Transaction /\ SessionOK(s) /\ LinkedSession(s) /\ clock \in Nat
    BY <1>0 DEF AuditInv, TypeOK
  <2> QED BY <1>0, <2>1 DEF SessionOK, Transaction
<1>2. \A n \in t.notes : n.at \in Nat /\ n.prev \in Nat /\ n.at <= clock /\ n.prev < n.at
  BY <1>0, <1>1 DEF SessionOK, Transaction
<1>3. t.step = "recorded" =>
        /\ t.at <= clock /\ t.prev < t.at /\ t.entity \in Entities
        /\ \A n \in t.notes : n.at < t.at
  BY <1>0, <1>1 DEF SessionOK, Changing, Writing
<1>4. PICK own : own = TimesOf(s)
  OBVIOUS
<1>5. own = IF t.step = "recorded" THEN Own(s) \cup {t.at} ELSE Own(s)
  <2>1. {q.at : q \in {Note(n, t, time) : n \in t.notes}} = Own(s)
    <3>1. \A n : Note(n, t, time).at = n.at
      BY DEF Note
    <3> QED BY <1>0, <3>1 DEF Own
  <2>2. Change(t, time).at = t.at
    BY DEF Change
  <2>3. RowsOf(s) = {Note(n, t, time) : n \in t.notes} \cup
                    (IF t.step = "recorded" THEN {Change(t, time)} ELSE {})
    BY <1>0 DEF RowsOf
  <2> QED BY <1>4, <2>1, <2>2, <2>3 DEF TimesOf
<1>6. ASSUME NEW n \in t.notes
      PROVE  LET r == Note(n, t, time) IN
             /\ r \in AuditRow /\ r.committed = time /\ r.at <= clock /\ r.prev < r.at
             /\ r.read <= clock /\ LinkOK(r.at, r.prev, own)
             /\ r.entity = Nobody /\ r.oldValue = NoRow
  <2>1. PICK r : r = Note(n, t, time)
    OBVIOUS
  <2>2. /\ r.at = n.at /\ r.prev = n.prev /\ r.read = t.read /\ r.committed = time
        /\ r.entity = Nobody /\ r.oldValue = NoRow
    BY <2>1 DEF Note
  <2>3. r \in AuditRow
    BY <1>1, <1>2, <2>1 DEF Note, AuditRow
  <2>4. LinkOK(n.at, n.prev, Own(s))
    BY <1>0, <1>1 DEF LinkedSession
  <2>5. LinkOK(n.at, n.prev, own)
    <3>1. CASE t.step = "recorded"
      <4>1. ~(t.at < n.at)
        BY <1>1, <1>2, <1>3, <3>1
      <4> QED BY <1>5, <2>4, <3>1, <4>1 DEF LinkOK
    <3>2. CASE t.step # "recorded"
      BY <1>5, <2>4, <3>2
    <3> QED BY <3>1, <3>2
  <2> QED BY <1>1, <1>2, <2>1, <2>2, <2>3, <2>5
<1>7. ASSUME t.step = "recorded"
      PROVE  LET r == Change(t, time) IN
             /\ r \in AuditRow /\ r.committed = time /\ r.at <= clock /\ r.prev < r.at
             /\ r.read <= clock /\ LinkOK(r.at, r.prev, own)
  <2>1. PICK r : r = Change(t, time)
    OBVIOUS
  <2>2. r.at = t.at /\ r.prev = t.prev /\ r.read = t.read /\ r.committed = time
    BY <2>1 DEF Change
  <2>3. r \in AuditRow
    BY <1>1, <1>3, <1>7, <2>1 DEF Change, NewValue, AuditRow, Transaction
  <2>4. LinkOK(t.at, t.prev, Own(s)) /\ ~(t.at < t.at)
    BY <1>0, <1>1, <1>7 DEF LinkedSession
  <2>5. LinkOK(t.at, t.prev, own)
    BY <1>5, <1>7, <2>4 DEF LinkOK
  <2> QED BY <1>1, <1>3, <1>7, <2>1, <2>2, <2>3, <2>5
<1>8. \A r \in RowsOf(s) :
        \/ \E n \in t.notes : r = Note(n, t, time)
        \/ t.step = "recorded" /\ r = Change(t, time)
  BY <1>0 DEF RowsOf
<1>9. Nobody \notin Entities
  BY AuditAssumption
<1> SUFFICES ASSUME NEW r \in RowsOf(s)
             PROVE  /\ r \in AuditRow /\ r.committed = time
                    /\ r.at <= clock /\ r.prev < r.at /\ r.read <= clock
                    /\ LinkOK(r.at, r.prev, own)
                    /\ r.entity \in Entities \/ r.oldValue # NoRow =>
                         t.step = "recorded" /\ r = Change(t, time)
  BY <1>0, <1>4
<1>10. CASE \E n \in t.notes : r = Note(n, t, time)
  BY <1>6, <1>9, <1>10
<1>11. CASE t.step = "recorded" /\ r = Change(t, time)
  BY <1>7, <1>11
<1> QED BY <1>8, <1>10, <1>11

\* A commit leaves the links of the rows that are there and of the other sessions
\* true, and adds true ones.
LEMMA CommitLinks ==
  ASSUME AuditInv, NEW s \in Sessions, sess[s].step \in {"recorded", "login"},
         trail' = trail \cup RowsOf(s), clock' = clock + 1
  PROVE  /\ \A r \in trail' :
              /\ r \in AuditRow /\ r.prev < r.at /\ r.at < r.committed
              /\ r.committed <= clock' /\ r.read < r.committed
              /\ LinkOK(r.at, r.prev, OwnOf(r))'
         /\ \A x \in Sessions \ {s} : sess'[x] = sess[x] => LinkedSession(x)'
<1>1. /\ clock \in Nat
      /\ \A r \in trail : RowOK(r) /\ r \in AuditRow /\ r.committed \in Nat /\ r.at \in Nat
      /\ \A r \in trail : r.prev \in Nat /\ r.read \in Nat
  BY DEF AuditInv, TypeOK, AuditRow
<1>2. \A r \in trail : /\ r.prev < r.at /\ r.at < r.committed /\ r.committed < clock + 1
                       /\ r.read < r.committed /\ LinkOK(r.at, r.prev, OwnOf(r)) /\ r.at <= clock
  BY <1>1 DEF RowOK
<1>3. \A r \in RowsOf(s) :
        /\ r \in AuditRow /\ r.committed = clock + 1
        /\ r.at <= clock /\ r.prev < r.at /\ r.read <= clock
        /\ LinkOK(r.at, r.prev, TimesOf(s))
  BY RowsAreRecorded
<1>4. \A at, prev, own : at \in Nat /\ at <= clock /\ LinkOK(at, prev, own) => LinkOK(at, prev, own)'
  <2>1. TAKE at, prev, own
  <2>2. HAVE at \in Nat /\ at <= clock /\ LinkOK(at, prev, own)
  <2>3. \A r \in RowsOf(s) : ~(r.committed < at) /\ r.committed # at
    <3>1. TAKE r \in RowsOf(s)
    <3>2. r.committed = clock + 1 /\ clock \in Nat /\ at \in Nat /\ at <= clock
      BY <1>1, <1>3, <2>2
    <3> QED BY <3>2
  <2> QED BY <2>2, <2>3 DEF LinkOK
<1>5. ASSUME NEW r \in trail PROVE OwnOf(r)' = OwnOf(r)
  <2>1. \A q \in RowsOf(s) : ~Together(r, q)
    <3>1. TAKE q \in RowsOf(s)
    <3>2. q.committed = clock + 1 /\ r.committed < clock + 1 /\ r.committed \in Nat /\ clock \in Nat
      BY <1>1, <1>2, <1>3
    <3> QED BY <3>2 DEF Together
  <2>2. {p \in trail' : Together(r, p)} = {p \in trail : Together(r, p)}
    BY <2>1
  <2> QED BY <2>2 DEF OwnOf, Together
<1>6. ASSUME NEW r \in RowsOf(s) PROVE OwnOf(r)' = TimesOf(s)
  <2>1. \A q \in trail : ~Together(r, q)
    <3>1. TAKE q \in trail
    <3>2. r.committed = clock + 1 /\ q.committed < clock + 1 /\ q.committed \in Nat /\ clock \in Nat
      BY <1>1, <1>2, <1>3
    <3> QED BY <3>2 DEF Together
  <2>2. \A q \in RowsOf(s) : Together(r, q)
    BY <1>3 DEF Together
  <2>3. {p \in trail' : Together(r, p)} = RowsOf(s)
    BY <2>1, <2>2
  <2> QED BY <2>3 DEF OwnOf, TimesOf, Together
<1>7. ASSUME NEW r \in trail'
      PROVE  /\ r \in AuditRow /\ r.prev < r.at /\ r.at < r.committed
             /\ r.committed <= clock' /\ r.read < r.committed
             /\ LinkOK(r.at, r.prev, OwnOf(r))'
  <2>1. CASE r \in trail
    <3>1. PICK own : own = OwnOf(r)
      OBVIOUS
    <3>2. LinkOK(r.at, r.prev, own)'
      BY <1>1, <1>2, <1>4, <2>1, <3>1
    <3> QED BY <1>1, <1>2, <1>5, <2>1, <3>1, <3>2
  <2>2. CASE r \in RowsOf(s)
    <3>1. PICK own : own = TimesOf(s)
      OBVIOUS
    <3>2. r.at \in Nat /\ r.read \in Nat
      BY <1>3, <2>2 DEF AuditRow
    <3>3. LinkOK(r.at, r.prev, own)'
      BY <1>3, <1>4, <2>2, <3>1, <3>2
    <3>4. LinkOK(r.at, r.prev, OwnOf(r))'
      BY <1>6, <2>2, <3>1, <3>3
    <3>5. /\ r \in AuditRow /\ r.committed = clock + 1 /\ clock \in Nat
          /\ r.at <= clock /\ r.prev < r.at /\ r.read <= clock
      BY <1>1, <1>3, <2>2
    <3>6. r.at < r.committed /\ r.committed <= clock + 1 /\ r.read < r.committed
      BY <3>2, <3>5
    <3> QED BY <3>4, <3>5, <3>6
  <2> QED BY <2>1, <2>2
<1>8. ASSUME NEW x \in Sessions \ {s}, sess'[x] = sess[x] PROVE LinkedSession(x)'
  <2>0. PICK u, own : u = sess[x] /\ own = Own(x)
    OBVIOUS
  <2>1. /\ u \in Transaction /\ SessionOK(x) /\ LinkedSession(x)
        /\ sess'[x] = u /\ Own(x)' = own
    BY <1>8, <2>0 DEF AuditInv, TypeOK, Own
  <2>2. \A n \in u.notes : n.at \in Nat /\ n.at <= clock /\ LinkOK(n.at, n.prev, own)
    BY <2>0, <2>1 DEF SessionOK, LinkedSession, Transaction
  <2>3. u.step = "recorded" => u.at \in Nat /\ u.at <= clock /\ LinkOK(u.at, u.prev, own)
    BY <2>0, <2>1 DEF SessionOK, LinkedSession, Transaction
  <2>4. /\ \A n \in u.notes : LinkOK(n.at, n.prev, own)'
        /\ u.step = "recorded" => LinkOK(u.at, u.prev, own)'
    BY <1>4, <2>2, <2>3
  <2> QED BY <2>1, <2>4 DEF LinkedSession
<1> QED BY <1>7, <1>8

LEMMA CommitLoginKeeps ==
  ASSUME AuditInv, NEW s \in Sessions, CommitLogin(s)
  PROVE  AuditInv'
<1>1. /\ TypeOK /\ sess[s].step = "login" /\ clock \in Nat /\ RowsOf(s) \subseteq AuditRow
      /\ sess' = [sess EXCEPT ![s] = Idle] /\ sess'[s] = Idle
      /\ value' = value /\ lock' = lock /\ clock' = clock + 1
      /\ trail' = trail \cup RowsOf(s)
  BY RowsAreRecorded DEF AuditInv, TypeOK, CommitLogin, Become, RowsOf
<1>2. TypeOK'
  BY <1>1, BlankTypes DEF TypeOK
<1>3. \A r \in RowsOf(s) : r.entity \notin Entities /\ r.oldValue = NoRow /\ r \notin trail
  <2>1. \A r \in trail : r.committed <= clock /\ r.committed \in Nat
    BY DEF AuditInv, RowOK, TypeOK, AuditRow
  <2>2. TAKE r \in RowsOf(s)
  <2>3. r.committed = clock + 1 /\ ~(r.entity \in Entities \/ r.oldValue # NoRow)
    BY <1>1, RowsAreRecorded
  <2> QED BY <1>1, <2>1, <2>3
<1>4. \A d \in Entities : About(d)' = About(d)
  BY <1>1, <1>3 DEF About
<1>5. \A x \in Sessions \ {s} : sess'[x] = sess[x]
  BY <1>1 DEF TypeOK
<1>6. ASSUME NEW x \in Sessions PROVE SessionOK(x)' /\ LinkedSession(x)'
  <2>1. CASE x = s
    BY <1>1, <2>1 DEF SessionOK, LinkedSession, Writing, Changing, Idle
  <2>2. CASE x # s
    <3>0. PICK u : u = sess[x]
      OBVIOUS
    <3>1. /\ u \in Transaction /\ SessionOK(x) /\ sess'[x] = u
      BY <1>5, <2>2, <3>0 DEF AuditInv, TypeOK
    <3>2. /\ u.read \in Nat /\ u.at \in Nat
          /\ \A n \in u.notes : n.at \in Nat
      BY <3>1 DEF Transaction
    <3>3. u.entity \in Entities =>
            /\ About(u.entity)' = About(u.entity)
            /\ \A p : Latest(u.entity, u.read, p)' <=> Latest(u.entity, u.read, p)
      BY <1>4 DEF Latest
    <3>4. SessionOK(x)'
      BY <1>1, <3>0, <3>1, <3>2, <3>3 DEF SessionOK, Changing, Writing
    <3> QED BY <1>1, <1>5, <2>2, <3>4, CommitLinks
  <2> QED BY <2>1, <2>2
<1>7. \A d \in Entities : HeldOK(d)' /\ OneRow(d)'
  <2>1. TAKE d \in Entities
  <2>2. HeldOK(d) /\ OneRow(d) /\ ~Writing(s)
    BY <1>1 DEF AuditInv, Writing
  <2>3. HeldOK(d)'
    BY <1>1, <1>5, <2>2 DEF HeldOK, Held, Writing
  <2> QED BY <1>1, <2>2, <2>3 DEF OneRow, Held, Taken, Rivals
<1>8. ASSUME NEW r \in trail' PROVE RowOK(r)'
  <2>1. CASE r \in trail
    <3>1. RowOK(r)
      BY <2>1 DEF AuditInv
    <3> QED BY <1>1, <1>4, <3>1, CommitLinks DEF RowOK
  <2>2. CASE r \in RowsOf(s)
    BY <1>1, <1>3, <2>2, CommitLinks DEF RowOK
  <2> QED BY <1>1, <2>1, <2>2
<1>9. LastEditIsCurrent' /\ LivesOnce'
  BY <1>1, <1>4 DEF AuditInv, LastEditIsCurrent, LivesOnce, Birth
<1>10. OldValueAsOfRead'
  <2> SUFFICES ASSUME NEW r \in trail', r.oldValue # NoRow
               PROVE  \E q \in About(r.entity)' :
                        q.newValue = r.oldValue /\ Latest(r.entity, r.read, q)'
    BY DEF OldValueAsOfRead
  <2>1. r \in trail
    BY <1>1, <1>3
  <2>2. PICK q \in About(r.entity) : q.newValue = r.oldValue /\ Latest(r.entity, r.read, q)
    BY <2>1 DEF AuditInv, OldValueAsOfRead
  <2>3. \A p \in About(r.entity)' : p \in About(r.entity) \/ ~(p.committed <= r.read)
    <3>1. r.read < clock + 1 /\ r.read \in Nat
      <4>1. r.read < r.committed /\ r.committed <= clock /\ r \in AuditRow
        BY <2>1 DEF AuditInv, RowOK, TypeOK
      <4> QED BY <1>1, <4>1 DEF AuditRow
    <3>2. \A p \in RowsOf(s) : p.committed = clock + 1
      BY <1>1, RowsAreRecorded
    <3>3. \A p \in RowsOf(s) : ~(p.committed <= r.read)
      BY <1>1, <3>1, <3>2
    <3> QED BY <1>1, <3>3 DEF About
  <2>4. q \in About(r.entity)'
    BY <1>1, <2>2 DEF About
  <2> QED BY <2>2, <2>3, <2>4 DEF Latest
<1> QED BY <1>2, <1>6, <1>7, <1>8, <1>9, <1>10 DEF AuditInv

LEMMA CommitKeeps ==
  ASSUME AuditInv, NEW s \in Sessions, Commit(s)
  PROVE  AuditInv'
<1>0. PICK t, e, new : t = sess[s] /\ e = t.entity /\ new = Change(t, clock + 1)
  OBVIOUS
<1>1. /\ TypeOK /\ SessionOK(s) /\ s # Nobody
      /\ t.step = "recorded" /\ t \in Transaction /\ e \in Entities
      /\ clock \in Nat /\ t.at \in Nat /\ t.prev \in Nat /\ t.read \in Nat
  BY <1>0, AuditAssumption DEF AuditInv, Commit, SessionOK, Changing, Writing, TypeOK, Transaction
<1>2. /\ sess' = [sess EXCEPT ![s] = Idle] /\ lock' = Release(s)
      /\ value' = [value EXCEPT ![e] = t.after] /\ clock' = clock + 1
      /\ trail' = trail \cup RowsOf(s)
  BY <1>0, <1>1 DEF Commit, Become, RowsOf
<1>3. /\ t.at <= clock /\ t.prev < t.at /\ t.read <= clock /\ lock[e] = s
      /\ \A r \in About(e) : r.at < t.at
      /\ t.op = "create" => About(e) = {} /\ t.before = NoRow
      /\ t.op # "create" =>
           /\ t.before # NoRow /\ value[e] # NoRow
           /\ \E q \in About(e) : q.newValue = t.before /\ Latest(e, t.read, q)
  BY <1>0, <1>1 DEF SessionOK, Changing, Writing
<1>4. \A r \in trail : RowOK(r) /\ r \in AuditRow /\ r.committed < clock + 1 /\ r.at < clock + 1
  BY <1>1 DEF AuditInv, TypeOK, AuditRow, RowOK
<1>a. \A r \in RowsOf(s) :
        /\ r \in AuditRow /\ r.committed = clock + 1 /\ r.read <= clock
        /\ r.entity \in Entities \/ r.oldValue # NoRow => r = new
  BY <1>0, <1>1, RowsAreRecorded
<1>5. TypeOK'
  BY <1>1, <1>2, <1>a, BlankTypes DEF TypeOK, Transaction, Release
<1>6. /\ new.at = t.at /\ new.prev = t.prev /\ new.entity = e /\ new.oldValue = t.before
      /\ new.newValue = t.after /\ new.read = t.read /\ new.committed = clock + 1
      /\ new \in RowsOf(s)
  BY <1>0, <1>1 DEF Change, NewValue, RowsOf
<1>7. /\ About(e)' = About(e) \cup {new}
      /\ \A d \in Entities \ {e} : About(d)' = About(d) /\ value'[d] = value[d]
      /\ value'[e] = t.after
  BY <1>1, <1>2, <1>6, <1>a DEF About, TypeOK
<1>9. \A x \in Sessions : SessionOK(x)' /\ LinkedSession(x)'
  <2>1. TAKE x \in Sessions
  <2>2. CASE x = s
    <3>1. sess'[x] = Idle
      BY <1>1, <1>2, <2>2 DEF TypeOK
    <3> QED BY <1>1, <1>2, <3>1 DEF SessionOK, LinkedSession, Writing, Changing, Idle
  <2>3. CASE x # s
    <3>0. PICK u : u = sess[x]
      OBVIOUS
    <3>1. /\ sess'[x] = u /\ SessionOK(x) /\ u \in Transaction
      BY <1>1, <1>2, <2>3, <3>0 DEF AuditInv, TypeOK
    <3>2. ASSUME Changing(x), u.op # "create"
          PROVE  \E q \in About(u.entity)' : q.newValue = u.before /\ Latest(u.entity, u.read, q)'
      <4>1. PICK q \in About(u.entity) : q.newValue = u.before /\ Latest(u.entity, u.read, q)
        BY <3>0, <3>1, <3>2 DEF SessionOK
      <4>2. /\ q \in About(u.entity)' /\ u.entity \in Entities /\ ~(new.committed <= u.read)
        <5>1. u.read <= clock /\ u.read \in Nat /\ u.entity \in Entities
          BY <3>0, <3>1, <3>2 DEF SessionOK, Transaction
        <5> QED BY <1>1, <1>6, <1>7, <4>1, <5>1
      <4>3. Latest(u.entity, u.read, q)'
        BY <1>7, <4>1, <4>2 DEF Latest
      <4> QED BY <4>1, <4>2, <4>3
    <3>3. ASSUME Writing(x)
          PROVE  /\ u.entity \in Entities \ {e} /\ lock'[u.entity] = x
                 /\ About(u.entity)' = About(u.entity) /\ value'[u.entity] = value[u.entity]
      <4>1. u.entity \in Entities /\ lock[u.entity] = x
        BY <3>0, <3>1, <3>3 DEF SessionOK, Writing, Changing
      <4>2. u.entity # e
        BY <1>3, <2>3, <4>1
      <4> QED BY <1>1, <1>2, <1>7, <2>3, <4>1, <4>2 DEF Release
    <3>4. /\ u.read \in Nat /\ u.at \in Nat /\ u.prev \in Nat
          /\ Writing(x)' = Writing(x) /\ Changing(x)' = Changing(x)
      BY <3>0, <3>1 DEF Transaction, Writing, Changing
    <3>5. /\ u.read <= clock + 1 /\ (u.step = "recorded" => u.at <= clock + 1)
          /\ \A n \in u.notes : n.at <= clock + 1 /\ n.prev < n.at
      <4>1. \A n \in u.notes : n.at \in Nat
        BY <3>1 DEF Transaction
      <4> QED BY <1>1, <3>0, <3>1, <3>4, <4>1 DEF SessionOK
    <3>6. SessionOK(x)'
      BY <1>2, <3>0, <3>1, <3>2, <3>3, <3>4, <3>5 DEF SessionOK, Writing, Changing
    <3>7. LinkedSession(x)'
      BY <1>0, <1>1, <1>2, <2>3, <3>0, <3>1, CommitLinks
    <3> QED BY <3>6, <3>7
  <2> QED BY <2>2, <2>3
<1>10. \A d \in Entities : HeldOK(d)' /\ OneRow(d)'
  <2>1. TAKE d \in Entities
  <2>2. HeldOK(d) /\ OneRow(d)
    BY DEF AuditInv
  <2>3. \A c \in Entities : Held(c)' => lock'[c] = lock[c] /\ Held(c) /\ lock[c] # s
    BY <1>1, <1>2 DEF Held, Release, TypeOK
  <2>4. HeldOK(d)'
    BY <1>1, <1>2, <2>2, <2>3 DEF HeldOK, Writing, TypeOK
  <2>5. \A c \in Entities : Taken(c)' => Taken(c)
    <3>1. Taken(e)
      BY <1>1, <1>3 DEF Taken, Held
    <3> QED BY <1>7, <2>3, <3>1 DEF Taken
  <2> QED BY <2>2, <2>4, <2>5 DEF OneRow, Rivals
<1>11. \A r \in trail' : RowOK(r)'
  <2>1. TAKE r \in trail'
  <2>2. CASE r \in trail
    <3>1. RowOK(r) /\ r \in AuditRow
      BY <1>4, <2>2
    <3>3. ASSUME r.entity \in Entities
          PROVE  \A q \in About(r.entity)' : q.at <= r.at => q.committed <= r.committed
      <4>1. TAKE q \in About(r.entity)'
      <4>2. CASE q \in About(r.entity)
        BY <3>1, <3>3, <4>2 DEF RowOK
      <4>3. CASE q = new /\ r.entity = e
        <5>1. r.at < t.at
          BY <1>3, <2>2, <4>3 DEF About
        <5> QED BY <1>1, <1>6, <3>1, <4>3, <5>1 DEF AuditRow
      <4> QED BY <1>7, <3>3, <4>1, <4>2, <4>3
    <3> QED BY <1>0, <1>1, <1>2, <3>3, CommitLinks DEF RowOK
  <2>3. CASE r \in RowsOf(s)
    <3>1. r.entity \in Entities => r.entity = e /\ r.committed = clock + 1
      BY <1>6, <1>a, <2>3
    <3>2. \A q \in About(e)' : q.committed <= clock + 1
      BY <1>1, <1>4, <1>6, <1>7 DEF About, AuditRow
    <3> QED BY <1>0, <1>1, <1>2, <3>1, <3>2, CommitLinks DEF RowOK
  <2> QED BY <1>2, <2>2, <2>3
<1>12. LastEditIsCurrent'
  <2> SUFFICES ASSUME NEW d \in Entities
               PROVE  /\ \A r \in About(d)' :
                           (\A q \in About(d)' : q.at <= r.at) => r.newValue = value'[d]
                      /\ About(d)' = {} => value'[d] = NoRow
    BY DEF LastEditIsCurrent
  <2>1. CASE d # e
    BY <1>7, <2>1 DEF AuditInv, LastEditIsCurrent
  <2>2. CASE d = e
    <3>1. ASSUME NEW r \in About(e), \A q \in About(e)' : q.at <= r.at
          PROVE  FALSE
      <4>1. t.at <= r.at /\ r.at < t.at /\ r.at \in Nat
        BY <1>3, <1>4, <1>6, <1>7, <3>1 DEF About, AuditRow
      <4> QED BY <1>1, <4>1
    <3> QED BY <1>6, <1>7, <2>2, <3>1
  <2> QED BY <2>1, <2>2
<1>13. LivesOnce'
  <2> SUFFICES ASSUME NEW d \in Entities, About(d)' # {}
               PROVE  \E b \in About(d)' : Birth(d, b)'
    BY DEF LivesOnce
  <2>1. CASE d # e
    <3>1. PICK b \in About(d) : Birth(d, b)
      BY <1>7, <2>1 DEF AuditInv, LivesOnce
    <3> QED BY <1>7, <2>1, <3>1 DEF Birth
  <2>2. CASE d = e /\ t.op = "create"
    <3>1. About(d)' = {new}
      BY <1>3, <1>7, <2>2
    <3> QED BY <1>1, <1>3, <1>6, <2>2, <3>1 DEF Birth
  <2>3. CASE d = e /\ t.op # "create"
    <3>1. PICK q \in About(e) : q.newValue = t.before /\ Latest(e, t.read, q)
      BY <1>3, <2>3
    <3>2. PICK b \in About(e) : Birth(e, b)
      BY <1>1, <3>1 DEF AuditInv, LivesOnce
    <3>3. b.committed <= t.read
      <4>1. /\ b \in AuditRow /\ q \in AuditRow /\ q.read < q.committed /\ q.committed <= t.read
        BY <1>4, <3>1, <3>2 DEF About, RowOK, Latest
      <4>2. b = q \/ b.committed <= q.read
        BY <3>1, <3>2 DEF Birth
      <4> QED BY <1>1, <4>1, <4>2 DEF AuditRow
    <3>4. \A r \in About(e) : r.newValue # NoRow
      <4>1. TAKE r \in About(e)
      <4>2. r.newValue = NoRow => \A p \in About(e) : p.at <= r.at
        BY <3>2 DEF Birth
      <4>3. r.newValue = NoRow => r.newValue = value[e]
        BY <1>1, <4>2 DEF AuditInv, LastEditIsCurrent
      <4> QED BY <1>3, <2>3, <4>3
    <3>5. \A p \in About(e) : p.at <= t.at /\ p.at \in Nat
      BY <1>1, <1>3, <1>4 DEF About, AuditRow
    <3>6. Birth(e, b)'
      <4>1. \A r \in About(e)' \ {b} : r.oldValue # NoRow /\ b.committed <= r.read
        BY <1>3, <1>6, <1>7, <2>3, <3>2, <3>3 DEF Birth
      <4>2. \A r, p \in About(e)' : r.newValue = NoRow => p.at <= r.at
        BY <1>1, <1>6, <1>7, <3>4, <3>5
      <4> QED BY <3>2, <4>1, <4>2 DEF Birth
    <3> QED BY <1>7, <2>3, <3>2, <3>6
  <2> QED BY <2>1, <2>2, <2>3
<1>14. OldValueAsOfRead'
  <2> SUFFICES ASSUME NEW r \in trail', r.oldValue # NoRow
               PROVE  \E q \in About(r.entity)' :
                        q.newValue = r.oldValue /\ Latest(r.entity, r.read, q)'
    BY DEF OldValueAsOfRead
  <2>1. \A p \in RowsOf(s) : ~(p.committed <= r.read)
    <3>1. r = new \/ r \in trail
      BY <1>2, <1>a
    <3>2. r \in trail => r.read \in Nat /\ r.committed \in Nat /\ r.read < r.committed
                          /\ r.committed < clock + 1
      BY <1>4 DEF RowOK, AuditRow
    <3> QED BY <1>1, <1>3, <1>6, <1>a, <3>1, <3>2
  <2>2. \A p \in About(r.entity)' : p \in RowsOf(s) \/ p \in About(r.entity)
    BY <1>2 DEF About
  <2>3. PICK q \in About(r.entity) : q.newValue = r.oldValue /\ Latest(r.entity, r.read, q)
    <3>1. CASE r \in trail
      BY <3>1 DEF AuditInv, OldValueAsOfRead
    <3>2. CASE r = new
      BY <1>3, <1>6, <3>2
    <3> QED BY <1>2, <1>a, <3>1, <3>2
  <2>4. q \in About(r.entity)'
    BY <1>2, <2>3 DEF About
  <2> QED BY <2>1, <2>2, <2>3, <2>4 DEF Latest
<1> QED BY <1>5, <1>9, <1>10, <1>11, <1>12, <1>13, <1>14 DEF AuditInv

-----------------------------------------------------------------------------
(***************************************************************************)
(* Theorems.                                                               *)
(***************************************************************************)
LEMMA AuditInit == Init => AuditInv
<1> SUFFICES ASSUME Init PROVE AuditInv
  OBVIOUS
<1>1. \A e \in Entities : About(e) = {} /\ ~Held(e) /\ ~Taken(e)
  BY DEF Init, About, Held, Taken
<1>2. \A s \in Sessions : SessionOK(s) /\ LinkedSession(s)
  BY DEF Init, Idle, SessionOK, LinkedSession, Writing, Changing
<1>3. \A e \in Entities : HeldOK(e) /\ OneRow(e)
  BY <1>1 DEF HeldOK, OneRow
<1>4. LastEditIsCurrent
  BY DEF Init, LastEditIsCurrent, About
<1>5. LivesOnce /\ OldValueAsOfRead /\ \A r \in trail : RowOK(r)
  BY <1>1 DEF Init, LivesOnce, OldValueAsOfRead
<1>6. TypeOK
  BY BlankTypes DEF Init, TypeOK
<1> QED BY <1>2, <1>3, <1>4, <1>5, <1>6 DEF AuditInv

LEMMA AuditStep == AuditInv /\ [Next]_vars => AuditInv'
<1> SUFFICES ASSUME AuditInv, [Next]_vars PROVE AuditInv'
  OBVIOUS
<1>1. CASE UNCHANGED vars
  <2>1. /\ value' = value /\ trail' = trail /\ clock' = clock /\ lock' = lock /\ sess' = sess
        /\ clock \in Nat
    BY <1>1 DEF vars, AuditInv, TypeOK
  <2>2. TypeOK' /\ \A e \in Entities : HeldOK(e)' /\ OneRow(e)'
    BY <2>1 DEF AuditInv, TypeOK, HeldOK, OneRow, Held, Taken, Writing, Rivals
  <2>3. TablesOK'
    BY <2>1, TablesKept
  <2>4. \A s \in Sessions : SessionOK(s)' /\ LinkedSession(s)'
    BY <2>1, SessionKept DEF AuditInv, SessionOK
  <2> QED BY <2>2, <2>3, <2>4 DEF AuditInv, TablesOK
<1>2. CASE Next
  <2> SUFFICES ASSUME NEW s \in Sessions,
                      \/ \E e \in Entities : SignUp(s, e) \/ Insert(s, e) \/ Login(s, e)
                      \/ \E e \in Entities, dto \in Requests : ReadBefore(s, "edit", e, dto)
                      \/ \E e \in Entities : ReadBefore(s, "remove", e, NoRequest)
                      \/ Write(s) \/ Record(s) \/ RecordTenant(s)
                      \/ Commit(s) \/ CommitLogin(s) \/ Abort(s)
               PROVE  AuditInv'
    BY <1>2 DEF Next
  <2>1. CASE \E e \in Entities : SignUp(s, e) \/ Insert(s, e)
    BY <2>1, InsertKeeps DEF SignUp, Insert
  <2>2. CASE \E e \in Entities : Login(s, e)
    BY <2>2, LoginKeeps
  <2>3. CASE \E e \in Entities, dto \in Requests : ReadBefore(s, "edit", e, dto)
    BY <2>3, ReadBeforeKeeps
  <2>4. CASE \E e \in Entities : ReadBefore(s, "remove", e, NoRequest)
    BY <2>4, ReadBeforeKeeps
  <2>5. CASE Write(s)
    BY <2>5, WriteKeeps
  <2>6. CASE Record(s) \/ RecordTenant(s)
    BY <2>6, RecordKeeps, RecordTenantKeeps
  <2>7. CASE Commit(s) \/ CommitLogin(s)
    BY <2>7, CommitKeeps, CommitLoginKeeps
  <2>8. CASE Abort(s)
    BY <2>8, AbortKeeps
  <2> QED BY <2>1, <2>2, <2>3, <2>4, <2>5, <2>6, <2>7, <2>8
<1> QED BY <1>1, <1>2

\* The invariant of the handlers that change master data (companies.service.ts and
\* the other services) and of the trigger that links the audit trail.
THEOREM AuditInvariant == Spec => []AuditInv
BY AuditInit, AuditStep, PTL DEF Spec

\* The last audit row about an entity shows it as it is: the UPDATE's row lock is
\* kept until the audit row is inserted and committed.
THEOREM LastEditIsAlwaysCurrent == Spec => []LastEditIsCurrent
<1>1. AuditInv => LastEditIsCurrent
  BY DEF AuditInv
<1> QED BY <1>1, AuditInvariant, PTL

\* Creation, changes and removal of an entity are recorded in this order, and the
\* unique indexes keep the keys apart whatever the handlers look at.
THEOREM OneLifeAlways == Spec => []OneLife
<1>1. AuditInv => LivesOnce
  BY DEF AuditInv
<1>2. AuditInv => KeysAreUnique
  BY DEF AuditInv, KeysAreUnique, OneRow, Taken
<1>3. AuditInv => OneLife
  BY <1>1, <1>2 DEF OneLife
<1> QED BY <1>3, AuditInvariant, PTL

\* The old value of every audit row is what was committed when its handler read.
THEOREM OldValuesAreReads == Spec => []OldValueAsOfRead
<1>1. AuditInv => OldValueAsOfRead
  BY DEF AuditInv
<1> QED BY <1>1, AuditInvariant, PTL

\* The trigger never links an audit row to one that is rolled back: it leads to one
\* committed before, or to one of the same transaction.
THEOREM LinksAlwaysLeadBack == Spec => []LinksLeadBack
<1>1. AuditInv => LinksLeadBack
  <2> SUFFICES ASSUME AuditInv, NEW r \in trail, r.prev # NoHash
               PROVE  \E q \in trail : /\ q.at = r.prev /\ q.at < r.at
                                       /\ q.committed < r.at \/ Together(r, q)
    BY DEF LinksLeadBack
  <2>1. r.prev < r.at /\ (r.prev \in OwnOf(r) \/ \E q \in trail : q.at = r.prev /\ q.committed < r.at)
    BY DEF AuditInv, RowOK, LinkOK
  <2> QED BY <2>1 DEF OwnOf
<1> QED BY <1>1, AuditInvariant, PTL

\* Two links to one predecessor come only of two transactions that overlap: the
\* trigger would have found the earlier row if it had been committed, or its own.
THEOREM ForksAreAlwaysRaces == Spec => []ForksAreRaces
<1>1. AuditInv => ForksAreRaces
  <2> SUFFICES ASSUME AuditInv, NEW r \in trail, NEW q \in trail,
                      r.prev = q.prev, r.at < q.at
               PROVE  ~Together(r, q) /\ q.at < r.committed
    BY DEF ForksAreRaces
  <2>1. r.prev < r.at /\ LinkOK(q.at, q.prev, OwnOf(q))
    BY DEF AuditInv, RowOK
  <2>2. /\ r.prev \in Nat /\ r.at \in Nat /\ q.at \in Nat /\ r.committed \in Nat
    BY DEF AuditInv, TypeOK, AuditRow
  <2>3. ~(r.committed < q.at) /\ r.committed # q.at
    BY <2>1, <2>2 DEF LinkOK
  <2>4. Together(r, q) => r.at \in OwnOf(q)
    BY DEF OwnOf, Together
  <2>5. r.at \notin OwnOf(q)
    BY <2>1, <2>2 DEF LinkOK
  <2> QED BY <2>2, <2>3, <2>4, <2>5
<1> QED BY <1>1, AuditInvariant, PTL

\* Both together: what the hash chain shows of the order of the changes is true.
THEOREM LinksAreAlwaysTrue == Spec => []LinksAreTrue
<1>1. LinksLeadBack /\ ForksAreRaces => LinksAreTrue
  BY DEF LinksAreTrue
<1> QED BY <1>1, LinksAlwaysLeadBack, ForksAreAlwaysRaces, PTL
=============================================================================
