--------------------------- MODULE MonthEndProofs --------------------------
(***************************************************************************)
(* Proofs about the two jobs that book once per period, Payroll (first     *)
(* half) and Depreciation (second half).  The two share no state and no    *)
(* name; they share the lemmas on sums.  They hold for any number of       *)
(* sessions, employees, structures and runs, of assets and months, and any *)
(* bound on the postings.                                                  *)
(***************************************************************************)
EXTENDS Payroll, Depreciation, TotalsProofs

\* Where structures of an employee are in force one of them is the latest, and no
\* other begins after it (the findFirst of PayrollRunsService.create).
LEMMA LatestExists ==
  ASSUME TypeOK, NEW e \in Employees, NEW day \in Nat
  PROVE  /\ Latest(e, day) \subseteq structures
         /\ InForce(e, day) # {} => Latest(e, day) # {}
         /\ \A x \in Latest(e, day), y \in InForce(e, day) : Structure[y].from <= Structure[x].from
<1> DEFINE ages == {day - Structure[x].from : x \in InForce(e, day)}
<1>1. \A x \in InForce(e, day) : x \in structures /\ Structure[x].from \in Nat /\ Structure[x].from <= day
  BY PayrollAssumption DEF InForce, TypeOK
<1>2. ASSUME InForce(e, day) # {} PROVE Latest(e, day) # {}
  <2>1. ages \in SUBSET Nat /\ ages # {}
    BY <1>1, <1>2
  <2>2. PICK age \in ages : \A a \in ages : age <= a
    BY <2>1, LeastNatural
  <2>3. PICK x \in InForce(e, day) : age = day - Structure[x].from
    OBVIOUS
  <2>4. \A y \in InForce(e, day) : Structure[y].from <= Structure[x].from
    <3>1. TAKE y \in InForce(e, day)
    <3>2. age <= day - Structure[y].from
      BY <2>2
    <3> QED BY <1>1, <2>3, <3>2
  <2> QED BY <2>3, <2>4 DEF Latest
<1> QED BY <1>1, <1>2 DEF Latest

\* What begins empty is well typed.
LEMMA EmptyTypes ==
  /\ NoSlips \in Slips /\ NoTotals \in RunTotals /\ Nothing \in Beginning
  /\ NoRun \in Run /\ Idle \in Request
BY DEF NoSlips, NoTotals, Nothing, NoRun, Idle, Slips, RunTotals, Beginning, Run, Request

LEMMA PayrollInit == Init => PayrollInv
<1> SUFFICES ASSUME Init PROVE PayrollInv
  OBVIOUS
<1>1. TypeOK
  BY EmptyTypes DEF Init, TypeOK
<1>2. \A s \in Sessions : SlipsSoFar(s) /\ Undisturbed(s)
  BY PayrollAssumption DEF Init, Idle, SlipsSoFar, Undisturbed
<1>3. PayslipsUpToDate /\ BookedOncePerRun
  BY DEF Init, NoRun, PayslipsUpToDate, BookedOncePerRun
<1> QED BY <1>1, <1>2, <1>3 DEF PayrollInv

-----------------------------------------------------------------------------
(***************************************************************************)
(* What a step keeps that leaves the runs alone.                           *)
(***************************************************************************)
LEMMA RunsKept ==
  ASSUME PayrollInv, run' = run, began' = began, posted' = posted, raced \subseteq raced'
  PROVE  PayslipsUpToDate' /\ BookedOncePerRun'
BY DEF PayrollInv, PayslipsUpToDate, UpToDate, BookedOncePerRun

\* A session whose record and whose run are left alone, and whose run no other
\* session begins to work on, is as good as before.
LEMMA SessionKept ==
  ASSUME PayrollInv, TypeOK', NEW s \in Sessions, NEW u \in Sessions, u # s,
         sess' = [sess EXCEPT ![s] = sess'[s]], sess'[u] = sess[u],
         structures \subseteq structures', raced \subseteq raced',
         \A r \in Runs : run[r].status # "absent" => run'[r].status # "absent",
         sess[u].run \in Runs \ raced' =>
           sess'[s].run # sess[u].run /\ run'[sess[u].run] = run[sess[u].run]
  PROVE  SlipsSoFar(u)' /\ Undisturbed(u)'
<1>1. SlipsSoFar(u)'
  BY DEF PayrollInv, SlipsSoFar, UpToDate
<1>2. ASSUME sess[u].run \in Runs \ raced' PROVE WorkingOn(sess[u].run)' = {u}
  <2>1. WorkingOn(sess[u].run) = {u}
    BY <1>2 DEF PayrollInv, Undisturbed
  <2> QED BY <1>2, <2>1 DEF WorkingOn, PayrollInv, TypeOK
<1>3. Undisturbed(u)'
  <2>1. sess[u].op \in {"approve", "post"} => run'[sess[u].run].status # "absent"
    BY PayrollAssumption DEF PayrollInv, Undisturbed, TypeOK, Request
  <2> QED BY <1>2, <2>1 DEF PayrollInv, Undisturbed
<1> QED BY <1>1, <1>3

-----------------------------------------------------------------------------
(***************************************************************************)
(* One lemma per action, or per group that changes the same columns.       *)
(***************************************************************************)
\* Structures are only added and employees only change their status.
LEMMA MasterDataKeeps ==
  ASSUME PayrollInv,
         \/ \E x \in Structures : CreateStructure(x)
         \/ \E e \in Employees : SetActive(e)
  PROVE  PayrollInv'
<1>1. /\ UNCHANGED <<run, began, posted, undone, balance, manual, sess, raced>>
      /\ structures \subseteq structures'
      /\ TypeOK'
  BY DEF CreateStructure, SetActive, PayrollInv, TypeOK
<1>2. \A s \in Sessions : SlipsSoFar(s)' /\ Undisturbed(s)'
  BY <1>1 DEF PayrollInv, SlipsSoFar, Undisturbed, WorkingOn, UpToDate
<1> QED BY <1>1, <1>2, RunsKept DEF PayrollInv

LEMMA BeginCreateKeeps ==
  ASSUME PayrollInv, NEW s \in Sessions, NEW r \in Runs, NEW asked \in SUBSET Employees,
         BeginCreate(s, r, asked)
  PROVE  PayrollInv'
<1> DEFINE t == [Idle EXCEPT !.op = "create", !.run = r, !.todo = active \cap asked,
                   !.began = [employees |-> active \cap asked, structures |-> structures]]
<1>1. /\ sess' = [sess EXCEPT ![s] = t] /\ WorkingOn(r) = {} /\ run[r].status = "absent"
      /\ UNCHANGED <<active, structures, run, began, posted, undone, balance, manual, raced>>
  BY DEF BeginCreate, Become
<1>2. t \in Request
  BY EmptyTypes DEF PayrollInv, TypeOK, Request, Beginning
<1>3. /\ t.op = "create" /\ t.run = r /\ t.todo = active \cap asked
      /\ t.began = [employees |-> active \cap asked, structures |-> structures]
  BY DEF Idle
<1> HIDE DEF t
<1>4. TypeOK'
  BY <1>1, <1>2 DEF PayrollInv, TypeOK
<1>5. sess'[s] = t
  BY <1>1 DEF PayrollInv, TypeOK
<1>6. SlipsSoFar(s)'
  BY <1>1, <1>3, <1>5 DEF SlipsSoFar, UpToDate
<1>7. Undisturbed(s)'
  <2>1. WorkingOn(r)' = {s}
    BY <1>1, <1>3, <1>5 DEF WorkingOn, PayrollInv, TypeOK
  <2> QED BY <1>1, <1>3, <1>5, <2>1, PayrollAssumption DEF Undisturbed, StatusAwaited
<1>8. ASSUME NEW u \in Sessions, u # s PROVE SlipsSoFar(u)' /\ Undisturbed(u)'
  <2>1. sess'[u] = sess[u] /\ sess[u].run # r
    BY <1>1, <1>8 DEF WorkingOn
  <2> QED BY <1>1, <1>3, <1>4, <1>5, <1>8, <2>1, SessionKept
<1> QED BY <1>1, <1>4, <1>6, <1>7, <1>8, RunsKept DEF PayrollInv

LEMMA ReadStructureKeeps ==
  ASSUME PayrollInv, NEW s \in Sessions, ReadStructure(s)
  PROVE  PayrollInv'
<1> DEFINE t == sess[s]  u == sess'[s]
<1>0. t \in Request /\ t.run \in Runs /\ t.op = "create"
  BY DEF PayrollInv, TypeOK, SlipsSoFar, ReadStructure
<1>1. PICK e \in t.todo :
        \/ /\ Latest(e, PeriodEnd[t.run]) = {}
           /\ Become(s, [t EXCEPT !.todo = @ \ {e}])
        \/ \E x \in Latest(e, PeriodEnd[t.run]) :
             Become(s, [t EXCEPT !.todo = @ \ {e}, !.slips[e] = x, !.totals = Added(@, x)])
  BY DEF ReadStructure
<1>2. e \in Employees /\ PeriodEnd[t.run] \in Nat
  BY <1>0, PayrollAssumption DEF Request
<1>3. /\ UNCHANGED <<active, structures, run, began, posted, undone, balance, manual, raced>>
      /\ sess' = [sess EXCEPT ![s] = u]
  BY <1>1 DEF Become, PayrollInv, TypeOK
<1>4. /\ u \in Request /\ u.op = t.op /\ u.run = t.run /\ u.began = t.began
      /\ u.todo = t.todo \ {e}
      /\ \A d \in Employees \ {e} : u.slips[d] = t.slips[d]
  <2>1. CASE Become(s, [t EXCEPT !.todo = @ \ {e}])
    BY <1>0, <2>1 DEF Become, Request, PayrollInv, TypeOK
  <2>2. CASE \E x \in Latest(e, PeriodEnd[t.run]) :
               Become(s, [t EXCEPT !.todo = @ \ {e}, !.slips[e] = x, !.totals = Added(@, x)])
    <3>1. PICK x \in Latest(e, PeriodEnd[t.run]) :
            Become(s, [t EXCEPT !.todo = @ \ {e}, !.slips[e] = x, !.totals = Added(@, x)])
      BY <2>2
    <3>2. x \in Structures
      BY DEF Latest, InForce, PayrollInv, TypeOK
    <3>3. Added(t.totals, x) \in RunTotals
      BY <1>0, <3>2, PayrollAssumption DEF Added, RunTotals, Request
    <3>4. [t.slips EXCEPT ![e] = x] \in Slips
      BY <1>0, <3>2 DEF Slips, Request
    <3>5. u = [t EXCEPT !.todo = @ \ {e}, !.slips = [@ EXCEPT ![e] = x], !.totals = Added(@, x)]
      BY <3>1 DEF Become, PayrollInv, TypeOK
    <3>6. /\ u.op = t.op /\ u.run = t.run /\ u.began = t.began
          /\ u.todo = t.todo \ {e} /\ u.totals = Added(t.totals, x)
          /\ u.slips = [t.slips EXCEPT ![e] = x]
          /\ u = [op |-> u.op, run |-> u.run, todo |-> u.todo, slips |-> u.slips,
                  totals |-> u.totals, began |-> u.began]
      BY <1>0, <3>5 DEF Request
    <3>7. u \in Request
      <4>1. /\ t.op \in {"none", "create", "approve", "post"} /\ t.run \in Runs \cup {"none"}
            /\ t.todo \ {e} \subseteq Employees /\ t.began \in Beginning
        BY <1>0 DEF Request
      <4> QED BY <4>1, <3>3, <3>4, <3>6 DEF Request
    <3>8. \A d \in Employees \ {e} : u.slips[d] = t.slips[d]
      BY <1>0, <3>6 DEF Request, Slips
    <3> QED BY <3>6, <3>7, <3>8
  <2> QED BY <1>1, <2>1, <2>2
<1>5. \A x \in InForce(e, PeriodEnd[t.run]) :
        u.slips[e] # NoSlip /\ Structure[u.slips[e]].from >= Structure[x].from
  <2>1. CASE Latest(e, PeriodEnd[t.run]) = {}
    BY <1>2, <2>1, LatestExists DEF PayrollInv
  <2>2. CASE \E x \in Latest(e, PeriodEnd[t.run]) :
               Become(s, [t EXCEPT !.todo = @ \ {e}, !.slips[e] = x, !.totals = Added(@, x)])
    <3>1. PICK x \in Latest(e, PeriodEnd[t.run]) :
            Become(s, [t EXCEPT !.todo = @ \ {e}, !.slips[e] = x, !.totals = Added(@, x)])
      BY <2>2
    <3>2. u.slips[e] = x
      BY <1>0, <1>2, <3>1 DEF Become, Request, Slips, PayrollInv, TypeOK
    <3>3. x \in structures /\ \A y \in InForce(e, PeriodEnd[t.run]) : Structure[y].from <= Structure[x].from
      BY <1>2, LatestExists DEF PayrollInv
    <3>4. x # NoSlip /\ Structure[x].from \in Nat
      BY <3>3, PayrollAssumption DEF PayrollInv, TypeOK
    <3>5. \A y \in InForce(e, PeriodEnd[t.run]) : Structure[y].from \in Nat
      BY PayrollAssumption DEF InForce, PayrollInv, TypeOK
    <3> QED BY <3>2, <3>3, <3>4, <3>5
  <2> QED BY <1>1, <2>1, <2>2
<1> HIDE DEF u
<1>6. TypeOK'
  BY <1>3, <1>4 DEF PayrollInv, TypeOK
<1>7. sess'[s] = u
  BY <1>3 DEF PayrollInv, TypeOK
<1>8. SlipsSoFar(s)'
  <2>1. SlipsSoFar(s) /\ t.began \in Beginning
    BY <1>0 DEF PayrollInv, Request
  <2>2. ASSUME NEW d \in t.began.employees \ u.todo, NEW x \in t.began.structures,
               Structure[x].employee = d, Structure[x].from <= PeriodEnd[t.run]
        PROVE  u.slips[d] # NoSlip /\ Structure[u.slips[d]].from >= Structure[x].from
    <3>1. CASE d = e
      BY <1>0, <1>5, <2>1, <2>2, <3>1 DEF InForce, SlipsSoFar
    <3>2. CASE d # e
      BY <1>0, <1>4, <2>1, <2>2, <3>2 DEF SlipsSoFar, UpToDate, Beginning
    <3> QED BY <3>1, <3>2
  <2> QED BY <1>0, <1>3, <1>4, <1>7, <2>1, <2>2 DEF SlipsSoFar, UpToDate
<1>9. \A r : WorkingOn(r)' = WorkingOn(r)
  BY <1>3, <1>4 DEF WorkingOn, PayrollInv, TypeOK
<1>10. Undisturbed(s)'
  BY <1>3, <1>4, <1>7, <1>9 DEF PayrollInv, Undisturbed
<1>11. ASSUME NEW v \in Sessions, v # s PROVE SlipsSoFar(v)' /\ Undisturbed(v)'
  <2>1. sess'[v] = sess[v]
    BY <1>3, <1>11
  <2> QED BY <1>3, <1>9, <2>1 DEF PayrollInv, SlipsSoFar, Undisturbed
<1> QED BY <1>3, <1>6, <1>8, <1>10, <1>11, RunsKept DEF PayrollInv

\* A session that ends is idle, and the others go on as before, if it has changed
\* no run but its own.
LEMMA EndKeepsSessions ==
  ASSUME PayrollInv, TypeOK', NEW s \in Sessions, sess' = [sess EXCEPT ![s] = Idle],
         structures' = structures, raced' = raced,
         \A r \in Runs : run[r].status # "absent" => run'[r].status # "absent",
         \A r \in Runs : r # sess[s].run => run'[r] = run[r]
  PROVE  \A u \in Sessions : SlipsSoFar(u)' /\ Undisturbed(u)'
<1>1. sess'[s] = Idle
  BY DEF PayrollInv, TypeOK
<1>2. SlipsSoFar(s)' /\ Undisturbed(s)'
  BY <1>1, PayrollAssumption DEF SlipsSoFar, Undisturbed, Idle
<1>3. ASSUME NEW u \in Sessions, u # s PROVE SlipsSoFar(u)' /\ Undisturbed(u)'
  <2>1. ASSUME sess[u].run \in Runs \ raced' PROVE sess[s].run # sess[u].run
    BY <1>3, <2>1 DEF PayrollInv, Undisturbed, WorkingOn
  <2>2. sess'[s].run \notin Runs
    BY <1>1, PayrollAssumption DEF Idle
  <2>3. /\ sess' = [sess EXCEPT ![s] = sess'[s]] /\ sess'[u] = sess[u]
        /\ structures \subseteq structures' /\ raced \subseteq raced'
    BY <1>1, <1>3 DEF PayrollInv, TypeOK
  <2>4. sess[u].run \in Runs \ raced' =>
          sess'[s].run # sess[u].run /\ run'[sess[u].run] = run[sess[u].run]
    BY <2>1, <2>2
  <2> QED BY <1>3, <2>3, <2>4, SessionKept
<1> QED BY <1>2, <1>3

LEMMA AbortKeeps ==
  ASSUME PayrollInv, NEW s \in Sessions, Abort(s)
  PROVE  PayrollInv'
<1>1. /\ UNCHANGED <<active, structures, run, began, posted, undone, balance, manual, raced>>
      /\ sess' = [sess EXCEPT ![s] = Idle]
  BY DEF Abort, Become
<1>2. TypeOK'
  BY <1>1, EmptyTypes DEF PayrollInv, TypeOK
<1>3. \A u \in Sessions : SlipsSoFar(u)' /\ Undisturbed(u)'
  BY <1>1, <1>2, EndKeepsSessions
<1> QED BY <1>1, <1>2, <1>3, RunsKept DEF PayrollInv

LEMMA CommitCreateKeeps ==
  ASSUME PayrollInv, NEW s \in Sessions, CommitCreate(s)
  PROVE  PayrollInv'
<1> DEFINE t == sess[s]  r == t.run
<1>1. /\ t.op = "create" /\ t.todo = {} /\ t \in Request /\ r \in Runs
      /\ run' = [run EXCEPT ![r] = [status |-> "draft", slips |-> t.slips, totals |-> t.totals]]
      /\ began' = [began EXCEPT ![r] = t.began]
      /\ sess' = [sess EXCEPT ![s] = Idle]
      /\ UNCHANGED <<active, structures, posted, undone, balance, manual, raced>>
  BY DEF CommitCreate, PayrollInv, TypeOK, SlipsSoFar
<1>2. TypeOK'
  <2>1. [status |-> "draft", slips |-> t.slips, totals |-> t.totals] \in Run
    BY <1>1 DEF Run, Request
  <2>2. t.began \in Beginning
    BY <1>1 DEF Request
  <2> QED BY <1>1, <2>1, <2>2, EmptyTypes DEF PayrollInv, TypeOK
<1>3. \A u \in Sessions : SlipsSoFar(u)' /\ Undisturbed(u)'
  BY <1>1, <1>2, EndKeepsSessions DEF PayrollInv, TypeOK
<1>4. /\ run'[r] = [status |-> "draft", slips |-> t.slips, totals |-> t.totals]
      /\ began'[r] = t.began
      /\ \A q \in Runs \ {r} : run'[q] = run[q] /\ began'[q] = began[q]
  BY <1>1 DEF PayrollInv, TypeOK
<1>5. PayslipsUpToDate'
  <2>1. UpToDate(t.slips, t.began.employees, t.began.structures, PeriodEnd[r])
    BY <1>1 DEF PayrollInv, SlipsSoFar, UpToDate
  <2>2. UpToDate(run'[r].slips, began'[r].employees, began'[r].structures, PeriodEnd[r])
    BY <1>4, <2>1
  <2>3. \A q \in Runs \ {r} : run'[q].status # "absent" =>
          UpToDate(run'[q].slips, began'[q].employees, began'[q].structures, PeriodEnd[q])
    BY <1>4 DEF PayrollInv, PayslipsUpToDate
  <2> QED BY <2>2, <2>3 DEF PayslipsUpToDate, UpToDate
<1>6. BookedOncePerRun'
  <2>1. r \notin raced => run[r].status = "absent" /\ run'[r].status = "draft"
    BY <1>1, <1>4 DEF PayrollInv, Undisturbed, StatusAwaited
  <2> QED BY <1>1, <1>4, <2>1 DEF PayrollInv, BookedOncePerRun
<1> QED BY <1>2, <1>3, <1>5, <1>6 DEF PayrollInv

LEMMA TransitionKeeps ==
  ASSUME PayrollInv, NEW s \in Sessions, NEW r \in Runs, NEW op \in {"approve", "post"},
         sess[s] = Idle, run[r].status = StatusAwaited[op], Transition(s, op, r)
  PROVE  PayrollInv'
<1> DEFINE t == [Idle EXCEPT !.op = op, !.run = r]
<1>1. /\ sess' = [sess EXCEPT ![s] = t] /\ raced \subseteq raced'
      /\ raced' \subseteq raced \cup {r} /\ (WorkingOn(r) # {} => r \in raced')
      /\ UNCHANGED <<active, structures, run, began, posted, undone, balance, manual>>
  BY DEF Transition
<1>2. t \in Request /\ t.op = op /\ t.run = r
  BY EmptyTypes DEF Request, Idle
<1> HIDE DEF t
<1>3. TypeOK' /\ sess'[s] = t
  BY <1>1, <1>2 DEF PayrollInv, TypeOK
<1>4. SlipsSoFar(s)'
  BY <1>2, <1>3 DEF SlipsSoFar
<1>5. Undisturbed(s)'
  <2>1. r \notin raced' => WorkingOn(r)' = {s}
    BY <1>1, <1>2, <1>3 DEF WorkingOn, PayrollInv, TypeOK
  <2> QED BY <1>1, <1>2, <1>3, <2>1, PayrollAssumption DEF Undisturbed, StatusAwaited
<1>6. ASSUME NEW u \in Sessions, u # s PROVE SlipsSoFar(u)' /\ Undisturbed(u)'
  <2>1. sess[u].run \in Runs \ raced' => r # sess[u].run
    BY <1>1 DEF WorkingOn
  <2>2. /\ sess' = [sess EXCEPT ![s] = sess'[s]] /\ sess'[u] = sess[u] /\ run' = run
        /\ structures \subseteq structures' /\ raced \subseteq raced'
    BY <1>1, <1>3, <1>6 DEF PayrollInv, TypeOK
  <2> QED BY <1>2, <1>3, <1>6, <2>1, <2>2, SessionKept
<1> QED BY <1>1, <1>3, <1>4, <1>5, <1>6, RunsKept DEF PayrollInv

\* A run with another status.
Marked(x, status) == [status |-> status, slips |-> x.slips, totals |-> x.totals]
LEMMA StatusWritten ==
  ASSUME TypeOK, NEW r \in Runs, NEW status
  PROVE  [run EXCEPT ![r].status = status] = [run EXCEPT ![r] = Marked(run[r], status)]
<1>1. PICK x \in Run : x = run[r]
  BY DEF TypeOK
<1>2. [x EXCEPT !.status = status] = Marked(x, status)
  BY DEF Run, Marked
<1>3. [run EXCEPT ![r].status = status] = [run EXCEPT ![r] = [run[r] EXCEPT !.status = status]]
  OBVIOUS
<1> QED BY <1>1, <1>2, <1>3

LEMMA CommitApproveKeeps ==
  ASSUME PayrollInv, NEW s \in Sessions, CommitApprove(s)
  PROVE  PayrollInv'
<1> DEFINE r == sess[s].run
<1>1. /\ sess[s].op = "approve" /\ r \in Runs
      /\ run' = [run EXCEPT ![r] = Marked(run[r], "approved")]
      /\ sess' = [sess EXCEPT ![s] = Idle]
      /\ UNCHANGED <<active, structures, began, posted, undone, balance, manual, raced>>
  BY StatusWritten DEF CommitApprove, PayrollInv, TypeOK, Request, Undisturbed
<1>2. TypeOK'
  <2>1. Marked(run[r], "approved") \in Run
    BY <1>1 DEF PayrollInv, TypeOK, Run, Marked
  <2> QED BY <1>1, <2>1, EmptyTypes DEF PayrollInv, TypeOK
<1>3. /\ run'[r].slips = run[r].slips /\ run'[r].status = "approved"
      /\ \A q \in Runs : q # r => run'[q] = run[q]
  BY <1>1 DEF PayrollInv, TypeOK, Run, Marked
<1>4. \A u \in Sessions : SlipsSoFar(u)' /\ Undisturbed(u)'
  <2>1. \A q \in Runs : run[q].status # "absent" => run'[q].status # "absent"
    BY <1>3
  <2> QED BY <1>1, <1>2, <1>3, <2>1, EndKeepsSessions
<1>5. run[r].status # "absent"
  BY <1>1 DEF PayrollInv, Undisturbed
<1>6. PayslipsUpToDate'
  BY <1>1, <1>3, <1>5 DEF PayrollInv, PayslipsUpToDate, UpToDate
<1>7. BookedOncePerRun'
  <2>1. r \notin raced => run[r].status = "draft"
    BY <1>1 DEF PayrollInv, Undisturbed, StatusAwaited
  <2> QED BY <1>1, <1>3, <2>1 DEF PayrollInv, BookedOncePerRun
<1> QED BY <1>2, <1>4, <1>6, <1>7 DEF PayrollInv

\* What Book does to the accounts, and what it leaves them.
LEMMA BookIs ==
  ASSUME TypeOK, NEW t \in RunTotals, NEW n \in {1, -1}, Book(t, n)
  PROVE  /\ balance' \in [PayrollAccounts -> Int]
         /\ balance'["SALARY_EXPENSE"] = balance["SALARY_EXPENSE"] + n * t.gross
         /\ balance'["SALARY_PAYABLE"] = balance["SALARY_PAYABLE"] - n * t.net
         /\ balance'["STATUTORY_PAYABLE"] = balance["STATUTORY_PAYABLE"] - n * t.deductions
<1> DEFINE g == n * t.gross  m == n * t.net  d == n * t.deductions
<1>1. g \in Int /\ m \in Int /\ d \in Int
  BY DEF RunTotals
<1>2. balance' = [balance EXCEPT !["SALARY_EXPENSE"] = @ + g, !["SALARY_PAYABLE"] = @ - m,
                                 !["STATUTORY_PAYABLE"] = @ - d]
  BY DEF Book
<1> HIDE DEF g, m, d
<1>3. /\ balance' \in [PayrollAccounts -> Int]
      /\ balance'["SALARY_EXPENSE"] = balance["SALARY_EXPENSE"] + g
      /\ balance'["SALARY_PAYABLE"] = balance["SALARY_PAYABLE"] - m
      /\ balance'["STATUTORY_PAYABLE"] = balance["STATUTORY_PAYABLE"] - d
  BY <1>1, <1>2 DEF TypeOK, PayrollAccounts
<1> QED BY <1>3 DEF g, m, d

\* A reversal of a run's entry, n = -1, or of a reversal, n = 1, touches no run.
LEMMA ReversalKeeps ==
  ASSUME PayrollInv, NEW r \in Runs, NEW n \in {1, -1}, Book(run[r].totals, n),
         undone[r] - n \in 0..posted[r], undone' = [undone EXCEPT ![r] = @ - n],
         UNCHANGED <<active, structures, run, began, posted, manual, sess, raced>>
  PROVE  PayrollInv'
<1>1. TypeOK'
  <2>1. run[r].totals \in RunTotals
    BY DEF PayrollInv, TypeOK, Run
  <2>2. balance' \in [PayrollAccounts -> Int]
    BY <2>1, BookIs DEF PayrollInv
  <2>3. undone[r] - n \in Nat /\ undone[r] - n <= posted[r]
    BY DEF PayrollInv, TypeOK
  <2>4. undone' \in [Runs -> Nat] /\ \A q \in Runs : undone'[q] <= posted[q]
    BY <2>3 DEF PayrollInv, TypeOK
  <2> QED BY <2>2, <2>4 DEF PayrollInv, TypeOK
<1>2. \A s \in Sessions : SlipsSoFar(s)' /\ Undisturbed(s)'
  BY DEF PayrollInv, SlipsSoFar, Undisturbed, WorkingOn, UpToDate
<1> QED BY <1>1, <1>2, RunsKept DEF PayrollInv

\* The two as ReversalKeeps takes them.
LEMMA ReversalsAre ==
  ASSUME TypeOK, NEW r \in Runs, ReverseEntry(r) \/ ReverseReversal(r)
  PROVE  /\ UNCHANGED <<active, structures, run, began, posted, manual, sess, raced>>
         /\ \E n \in {1, -1} : /\ Book(run[r].totals, n) /\ undone[r] - n \in 0..posted[r]
                               /\ undone' = [undone EXCEPT ![r] = @ - n]
<1>1. undone[r] \in Nat /\ posted[r] \in Nat /\ undone[r] <= posted[r]
  BY DEF TypeOK
<1>2. CASE ReverseEntry(r)
  <2>1. undone[r] + 1 = undone[r] - (-1) /\ undone[r] - (-1) \in 0..posted[r]
    BY <1>1, <1>2 DEF ReverseEntry
  <2>2. undone' = [undone EXCEPT ![r] = undone[r] - (-1)]
    BY <1>2, <2>1 DEF ReverseEntry
  <2> QED BY <1>2, <2>1, <2>2 DEF ReverseEntry
<1>3. CASE ReverseReversal(r)
  BY <1>1, <1>3 DEF ReverseReversal
<1> QED BY <1>2, <1>3

LEMMA PostJournalKeeps ==
  ASSUME PayrollInv, NEW j \in Journals, NEW n \in {1, -1}, PostJournal(j, n)
  PROVE  /\ PayrollInv'
         /\ \A a \in PayrollAccounts : FromRuns(a)' = FromRuns(a)
<1>1. UNCHANGED <<active, structures, run, began, posted, undone, sess, raced>>
  BY DEF PostJournal
<1>2. \A a \in PayrollAccounts :
        /\ balance[a] \in Int /\ manual[a] \in Int /\ n * j[a] \in Int
        /\ balance'[a] = balance[a] + n * j[a] /\ manual'[a] = manual[a] + n * j[a]
  <2>1. \A a \in PayrollAccounts : balance[a] \in Int /\ manual[a] \in Int /\ j[a] \in Int
    BY PayrollAssumption DEF PayrollInv, TypeOK
  <2>2. \A a \in PayrollAccounts : n * j[a] \in Int
    BY <2>1
  <2> QED BY <2>1, <2>2 DEF PostJournal
<1>3. TypeOK'
  <2>1. balance' \in [PayrollAccounts -> Int] /\ manual' \in [PayrollAccounts -> Int]
    BY <1>2 DEF PostJournal
  <2> QED BY <1>1, <2>1 DEF PayrollInv, TypeOK
<1>4. \A s \in Sessions : SlipsSoFar(s)' /\ Undisturbed(s)'
  BY <1>1 DEF PayrollInv, SlipsSoFar, Undisturbed, WorkingOn, UpToDate
<1>5. \A a \in PayrollAccounts : FromRuns(a)' = FromRuns(a)
  BY <1>2 DEF FromRuns
<1> QED BY <1>1, <1>3, <1>4, <1>5, RunsKept DEF PayrollInv

LEMMA CommitPostKeeps ==
  ASSUME PayrollInv, NEW s \in Sessions, CommitPost(s)
  PROVE  PayrollInv'
<1> DEFINE r == sess[s].run  t == run[r].totals
<1>1. /\ sess[s].op = "post" /\ r \in Runs
      /\ run' = [run EXCEPT ![r] = Marked(run[r], "posted")]
      /\ posted' = [posted EXCEPT ![r] = posted[r] + 1]
      /\ Book(t, 1)
      /\ sess' = [sess EXCEPT ![s] = Idle]
      /\ UNCHANGED <<active, structures, began, undone, manual, raced>>
  BY StatusWritten DEF CommitPost, PayrollInv, TypeOK, Request, Undisturbed
<1>2. TypeOK'
  <2>1. Marked(run[r], "posted") \in Run /\ t \in RunTotals
    BY <1>1 DEF PayrollInv, TypeOK, Run, Marked
  <2>2. balance' \in [PayrollAccounts -> Int]
    BY <1>1, <2>1, BookIs DEF PayrollInv
  <2>3. posted' \in [Runs -> Nat] /\ \A q \in Runs : undone[q] <= posted'[q]
    BY <1>1 DEF PayrollInv, TypeOK
  <2> QED BY <1>1, <2>1, <2>2, <2>3, EmptyTypes DEF PayrollInv, TypeOK
<1>3. /\ run'[r].slips = run[r].slips /\ run'[r].status = "posted" /\ posted'[r] = posted[r] + 1
      /\ \A q \in Runs : q # r => run'[q] = run[q] /\ posted'[q] = posted[q]
  BY <1>1 DEF PayrollInv, TypeOK, Run, Marked
<1>4. \A u \in Sessions : SlipsSoFar(u)' /\ Undisturbed(u)'
  <2>1. \A q \in Runs : run[q].status # "absent" => run'[q].status # "absent"
    BY <1>3
  <2> QED BY <1>1, <1>2, <1>3, <2>1, EndKeepsSessions
<1>5. run[r].status # "absent"
  BY <1>1 DEF PayrollInv, Undisturbed
<1>6. PayslipsUpToDate'
  BY <1>1, <1>3, <1>5 DEF PayrollInv, PayslipsUpToDate, UpToDate
<1>7. BookedOncePerRun'
  <2>1. r \notin raced => run[r].status = "approved"
    BY <1>1 DEF PayrollInv, Undisturbed, StatusAwaited
  <2>2. r \notin raced => posted'[r] = 1
    BY <1>1, <1>3, <2>1 DEF PayrollInv, BookedOncePerRun
  <2> QED BY <1>1, <1>3, <2>2 DEF PayrollInv, BookedOncePerRun
<1> QED BY <1>2, <1>4, <1>6, <1>7 DEF PayrollInv

LEMMA PayrollStep == PayrollInv /\ [Next]_vars => PayrollInv'
<1> SUFFICES ASSUME PayrollInv, [Next]_vars PROVE PayrollInv'
  OBVIOUS
<1>1. CASE UNCHANGED vars
  BY <1>1 DEF vars, PayrollInv, TypeOK, SlipsSoFar, Undisturbed, WorkingOn, PayslipsUpToDate,
     UpToDate, BookedOncePerRun
<1>2. CASE \/ \E x \in Structures : CreateStructure(x)
           \/ \E e \in Employees : SetActive(e)
  BY <1>2, MasterDataKeeps
<1>6. ASSUME NEW r \in Runs, ReverseEntry(r) \/ ReverseReversal(r) PROVE PayrollInv'
  BY <1>6, ReversalsAre, ReversalKeeps DEF PayrollInv
<1>7. ASSUME NEW j \in Journals, NEW n \in {1, -1}, PostJournal(j, n) PROVE PayrollInv'
  BY <1>7, PostJournalKeeps
<1>3. ASSUME NEW s \in Sessions, NEW r \in Runs, NEW asked \in SUBSET Employees,
             BeginCreate(s, r, asked)
      PROVE  PayrollInv'
  BY <1>3, BeginCreateKeeps
<1>4. ASSUME NEW s \in Sessions, NEW r \in Runs, BeginApprove(s, r) \/ BeginPost(s, r)
      PROVE  PayrollInv'
  <2>1. CASE BeginApprove(s, r)
    BY <2>1, TransitionKeeps DEF BeginApprove, StatusAwaited
  <2>2. CASE BeginPost(s, r)
    BY <2>2, TransitionKeeps DEF BeginPost, Postable, StatusAwaited
  <2> QED BY <1>4, <2>1, <2>2
<1>5. ASSUME NEW s \in Sessions,
             ReadStructure(s) \/ CommitCreate(s) \/ CommitApprove(s) \/ CommitPost(s) \/ Abort(s)
      PROVE  PayrollInv'
  BY <1>5, ReadStructureKeeps, CommitCreateKeeps, CommitApproveKeeps, CommitPostKeeps, AbortKeeps
<1> QED BY <1>1, <1>2, <1>3, <1>4, <1>5, <1>6, <1>7 DEF Next

-----------------------------------------------------------------------------
(***************************************************************************)
(* The totals of a run and the ledger.                                     *)
(***************************************************************************)
Columns == {"gross", "deductions", "net"}

LEMMA PayIsInteger == \A slip \in Structures \cup {NoSlip}, c \in Columns : Pay(slip)[c] \in Int
BY PayrollAssumption DEF Pay, Columns, NoTotals

LEMMA SlipTotalIsInteger == \A slips \in Slips, c \in Columns : SlipTotal(slips, c) \in Int
<1> SUFFICES ASSUME NEW slips \in Slips, NEW c \in Columns PROVE SlipTotal(slips, c) \in Int
  OBVIOUS
<1> DEFINE f == [e \in Employees |-> Pay(slips[e])[c]]
<1>1. \A e \in Employees : f[e] \in Int
  BY PayIsInteger DEF Slips
<1> HIDE DEF f
<1>2. SumFunctionOnSet(f, Employees) \in Int
  BY <1>1, SumType, PayrollAssumption
<1> QED BY <1>2 DEF SlipTotal, f

\* No payslips come to nothing.
LEMMA NoSlipsAgree == TotalsAgree(NoTotals, NoSlips)
<1> SUFFICES ASSUME NEW c \in Columns PROVE NoTotals[c] = SlipTotal(NoSlips, c)
  BY DEF TotalsAgree, Columns
<1> DEFINE f == [e \in Employees |-> Pay(NoSlips[e])[c]]
<1>1. \A e \in Employees : f[e] = 0
  BY DEF Pay, NoSlips, NoTotals, Columns
<1> HIDE DEF f
<1>2. SumFunctionOnSet(f, Employees) = 0
  BY <1>1, SumZero, PayrollAssumption
<1> QED BY <1>2 DEF SlipTotal, f, NoTotals, Columns

\* One more payslip adds to the totals what it adds to the payslips.
LEMMA SlipAdded ==
  ASSUME NEW slips \in Slips, NEW totals \in RunTotals, TotalsAgree(totals, slips),
         NEW e \in Employees, slips[e] = NoSlip, NEW x \in Structures
  PROVE  TotalsAgree(Added(totals, x), [slips EXCEPT ![e] = x])
<1> SUFFICES ASSUME NEW c \in Columns
             PROVE  Added(totals, x)[c] = SlipTotal([slips EXCEPT ![e] = x], c)
  BY DEF TotalsAgree, Columns
<1> DEFINE more == [slips EXCEPT ![e] = x]
           f == [d \in Employees |-> Pay(slips[d])[c]]
           g == [d \in Employees |-> Pay(more[d])[c]]
<1>1. more \in Slips /\ more[e] = x /\ \A d \in Employees : d # e => more[d] = slips[d]
  BY DEF Slips
<1> HIDE DEF more
<1>2. \A d \in Employees : f[d] \in Int /\ g[d] \in Int
  BY <1>1, PayIsInteger DEF Slips
<1>3. /\ g[e] = Pay(x)[c] /\ f[e] = 0 /\ Pay(x)[c] \in Int
      /\ \A d \in Employees : d # e => g[d] = f[d]
  BY <1>1, PayIsInteger DEF Pay, NoTotals, Columns
<1> HIDE DEF f, g
<1>4. SumFunctionOnSet(g, Employees) = SumFunctionOnSet(f, Employees) + g[e] - f[e]
  <2>1. IsFiniteSet(Employees) /\ DiffersAt(e, f, g, Employees)
    BY <1>2, <1>3, PayrollAssumption DEF DiffersAt
  <2> QED BY <2>1, SumChange
<1>5. totals[c] = SumFunctionOnSet(f, Employees) /\ totals[c] \in Int
  BY DEF TotalsAgree, Columns, SlipTotal, f, RunTotals
<1>6. Added(totals, x)[c] = totals[c] + Pay(x)[c]
  BY PayrollAssumption DEF Added, Pay, Columns, RunTotals
<1> QED BY <1>3, <1>4, <1>5, <1>6 DEF SlipTotal, g, more

\* What the booked runs add up to changes only where a booking or a booked run's
\* payslips do.
LEMMA BookedTotalKept ==
  ASSUME TypeOK, TypeOK', posted' = posted, undone' = undone,
         \A r \in Runs : run'[r].slips = run[r].slips \/ posted[r] = 0
  PROVE  \A c \in Columns : BookedTotal(c)' = BookedTotal(c)
<1> TAKE c \in Columns
<1> DEFINE f == [r \in Runs |-> Live(r) * SlipTotal(run[r].slips, c)]
           g == [r \in Runs |-> Live(r) * SlipTotal(run'[r].slips, c)]
<1>1. \A r \in Runs : /\ Live(r) \in Int /\ (posted[r] = 0 => Live(r) = 0)
                      /\ SlipTotal(run[r].slips, c) \in Int /\ SlipTotal(run'[r].slips, c) \in Int
  BY SlipTotalIsInteger DEF TypeOK, Run, Live
<1>0. \A r : Live(r)' = Live(r)
  BY DEF Live
<1>2. \A n \in Int : 0 * n = 0
  OBVIOUS
<1>3. \A r \in Runs : f[r] = g[r]
  BY <1>1, <1>2
<1> HIDE DEF f, g
<1>4. SumFunctionOnSet(f, Runs) = SumFunctionOnSet(g, Runs)
  BY <1>3, SumSame, PayrollAssumption
<1> QED BY <1>0, <1>4 DEF BookedTotal, f, g

LEMMA LedgerKept ==
  ASSUME TypeOK, TypeOK', LedgerMatchesPayslips, posted' = posted, undone' = undone,
         \A a \in PayrollAccounts : FromRuns(a)' = FromRuns(a),
         \A r \in Runs : run'[r].slips = run[r].slips \/ posted[r] = 0
  PROVE  LedgerMatchesPayslips'
BY BookedTotalKept DEF LedgerMatchesPayslips, Columns, PayrollAccounts

LEMMA PayrollTotalsInit == Init => PayrollTotalsInv
<1> SUFFICES ASSUME Init PROVE PayrollTotalsInv
  OBVIOUS
<1>1. /\ \A r \in Runs : TotalsAgree(run[r].totals, run[r].slips) /\ posted[r] = 0
      /\ \A s \in Sessions : Creating(s)
  BY NoSlipsAgree DEF Init, NoRun, Idle, Creating
<1>2. ASSUME NEW c \in Columns PROVE BookedTotal(c) = 0
  <2> DEFINE f == [r \in Runs |-> Live(r) * SlipTotal(run[r].slips, c)]
  <2>1. \A r \in Runs : Live(r) = 0 /\ SlipTotal(run[r].slips, c) \in Int
    BY <1>1, EmptyTypes, SlipTotalIsInteger DEF Init, NoRun, Live
  <2>2. \A n \in Int : 0 * n = 0
    OBVIOUS
  <2>3. \A r \in Runs : f[r] = 0
    BY <2>1, <2>2
  <2> HIDE DEF f
  <2>4. SumFunctionOnSet(f, Runs) = 0
    BY <2>3, SumZero, PayrollAssumption
  <2> QED BY <2>4 DEF BookedTotal, f
<1>3. LedgerMatchesPayslips
  BY <1>2 DEF LedgerMatchesPayslips, Columns, Init, PayrollAccounts, FromRuns
<1> QED BY <1>1, <1>3 DEF PayrollTotalsInv

\* A create goes on as before, its run to itself, while another session works
\* on another run or leaves its own.
LEMMA CreatingKept ==
  ASSUME PayrollInv, PayrollInv', NEW s \in Sessions, NEW u \in Sessions, u # s, Creating(u),
         sess' = [sess EXCEPT ![s] = sess'[s]],
         sess[u].op = "create" =>
           sess'[s].run # sess[u].run /\ run'[sess[u].run].status = run[sess[u].run].status
  PROVE  Creating(u)'
<1>1. sess'[u] = sess[u]
  BY DEF PayrollInv, TypeOK
<1>2. sess[u].op = "create" => WorkingOn(sess[u].run)' = {u}
  BY <1>1 DEF WorkingOn, Creating, PayrollInv, TypeOK
<1> QED BY <1>1, <1>2 DEF Creating

\* The session that writes to a run that is there is not in the way of a create.
LEMMA EndKeepsCreating ==
  ASSUME PayrollInv, PayrollInv', NEW s \in Sessions, \A u \in Sessions : Creating(u),
         sess' = [sess EXCEPT ![s] = Idle],
         \A r \in Runs : r # sess[s].run => run'[r] = run[r]
  PROVE  \A u \in Sessions : Creating(u)'
<1>1. sess'[s] = Idle
  BY DEF PayrollInv, TypeOK
<1>2. Creating(s)'
  BY <1>1 DEF Creating, Idle
<1>3. ASSUME NEW u \in Sessions, u # s PROVE Creating(u)'
  <2>1. sess[u].op = "create" => sess[u].run # sess[s].run /\ sess[u].run \in Runs
    BY <1>3 DEF Creating, WorkingOn, PayrollInv, SlipsSoFar
  <2>2. sess[u].op = "create" => sess'[s].run # sess[u].run
    BY <1>1, <2>1, PayrollAssumption DEF Idle
  <2>3. sess' = [sess EXCEPT ![s] = sess'[s]]
    BY <1>1
  <2> QED BY <1>3, <2>1, <2>2, <2>3, CreatingKept
<1> QED BY <1>2, <1>3

LEMMA MasterDataKeepsTotals ==
  ASSUME PayrollInv, PayrollInv', PayrollTotalsInv,
         \/ \E x \in Structures : CreateStructure(x)
         \/ \E e \in Employees : SetActive(e)
  PROVE  PayrollTotalsInv'
<1>1. UNCHANGED <<run, posted, undone, balance, manual, sess>>
  BY DEF CreateStructure, SetActive
<1>2. LedgerMatchesPayslips'
  BY <1>1, LedgerKept DEF PayrollInv, PayrollTotalsInv, FromRuns
<1> QED BY <1>1, <1>2 DEF PayrollTotalsInv, Creating, WorkingOn

LEMMA BeginCreateKeepsTotals ==
  ASSUME PayrollInv, PayrollInv', PayrollTotalsInv, NEW s \in Sessions, NEW r \in Runs,
         NEW asked \in SUBSET Employees, BeginCreate(s, r, asked)
  PROVE  PayrollTotalsInv'
<1> DEFINE t == [Idle EXCEPT !.op = "create", !.run = r, !.todo = active \cap asked,
                   !.began = [employees |-> active \cap asked, structures |-> structures]]
<1>1. /\ sess' = [sess EXCEPT ![s] = t] /\ WorkingOn(r) = {} /\ run[r].status = "absent"
      /\ UNCHANGED <<run, posted, undone, balance, manual>>
  BY DEF BeginCreate, Become
<1>2. /\ t.op = "create" /\ t.run = r /\ t.todo = active \cap asked
      /\ t.slips = NoSlips /\ t.totals = NoTotals
  BY DEF Idle
<1> HIDE DEF t
<1>3. sess'[s] = t
  BY <1>1 DEF PayrollInv, TypeOK
<1>4. Creating(s)'
  <2>1. WorkingOn(r)' = {s}
    BY <1>1, <1>2, <1>3 DEF WorkingOn, PayrollInv, TypeOK
  <2>2. \A e \in t.todo : t.slips[e] = NoSlip
    BY <1>2 DEF NoSlips, PayrollInv, TypeOK
  <2> QED BY <1>1, <1>2, <1>3, <2>1, <2>2, NoSlipsAgree DEF Creating, TotalsAgree
<1>5. ASSUME NEW u \in Sessions, u # s PROVE Creating(u)'
  <2>1. sess[u].run # r /\ sess' = [sess EXCEPT ![s] = sess'[s]]
    BY <1>1, <1>3, <1>5 DEF WorkingOn
  <2> QED BY <1>1, <1>2, <1>3, <1>5, <2>1, CreatingKept DEF PayrollTotalsInv
<1>6. LedgerMatchesPayslips'
  BY <1>1, LedgerKept DEF PayrollInv, PayrollTotalsInv, FromRuns
<1> QED BY <1>1, <1>4, <1>5, <1>6 DEF PayrollTotalsInv

LEMMA ReadStructureKeepsTotals ==
  ASSUME PayrollInv, PayrollInv', PayrollTotalsInv, NEW s \in Sessions, ReadStructure(s)
  PROVE  PayrollTotalsInv'
<1> DEFINE t == sess[s]  u == sess'[s]
<1>0. /\ t \in Request /\ t.op = "create" /\ Creating(s)
      /\ t.slips \in Slips /\ t.totals \in RunTotals /\ t.todo \subseteq Employees
  BY DEF PayrollInv, PayrollTotalsInv, TypeOK, Request, ReadStructure
<1>1. PICK e \in t.todo :
        \/ /\ Latest(e, PeriodEnd[t.run]) = {}
           /\ Become(s, [t EXCEPT !.todo = @ \ {e}])
        \/ \E x \in Latest(e, PeriodEnd[t.run]) :
             Become(s, [t EXCEPT !.todo = @ \ {e}, !.slips[e] = x, !.totals = Added(@, x)])
  BY DEF ReadStructure
<1>2. sess' = [sess EXCEPT ![s] = u] /\ UNCHANGED <<run, posted, undone, balance, manual>>
  BY <1>1 DEF Become, PayrollInv, TypeOK
<1>3. /\ u.op = t.op /\ u.run = t.run /\ u.todo = t.todo \ {e}
      /\ \/ u.slips = t.slips /\ u.totals = t.totals
         \/ \E x \in Structures :
              u.slips = [t.slips EXCEPT ![e] = x] /\ u.totals = Added(t.totals, x)
  <2>1. CASE Become(s, [t EXCEPT !.todo = @ \ {e}])
    BY <1>0, <2>1 DEF Become, Request, PayrollInv, TypeOK
  <2>2. CASE \E x \in Latest(e, PeriodEnd[t.run]) :
               Become(s, [t EXCEPT !.todo = @ \ {e}, !.slips[e] = x, !.totals = Added(@, x)])
    <3>1. PICK x \in Latest(e, PeriodEnd[t.run]) :
            Become(s, [t EXCEPT !.todo = @ \ {e}, !.slips[e] = x, !.totals = Added(@, x)])
      BY <2>2
    <3>2. x \in Structures
      BY DEF Latest, InForce, PayrollInv, TypeOK
    <3>3. u = [t EXCEPT !.todo = @ \ {e}, !.slips = [@ EXCEPT ![e] = x], !.totals = Added(@, x)]
      BY <3>1 DEF Become, PayrollInv, TypeOK
    <3>4. /\ u.op = t.op /\ u.run = t.run /\ u.todo = t.todo \ {e}
          /\ u.slips = [t.slips EXCEPT ![e] = x] /\ u.totals = Added(t.totals, x)
      BY <1>0, <3>3 DEF Request
    <3> QED BY <3>2, <3>4
  <2> QED BY <1>1, <2>1, <2>2
<1>4. TotalsAgree(u.totals, u.slips)
  <2>1. TotalsAgree(t.totals, t.slips) /\ t.slips[e] = NoSlip
    BY <1>0 DEF Creating
  <2>2. CASE u.slips = t.slips /\ u.totals = t.totals
    BY <2>1, <2>2
  <2>3. ASSUME NEW x \in Structures, u.slips = [t.slips EXCEPT ![e] = x],
               u.totals = Added(t.totals, x)
        PROVE  TotalsAgree(u.totals, u.slips)
    <3>1. TotalsAgree(Added(t.totals, x), [t.slips EXCEPT ![e] = x])
      BY <1>0, <2>1, SlipAdded
    <3> QED BY <2>3, <3>1
  <2> QED BY <1>3, <2>2, <2>3
<1>5. \A d \in u.todo : u.slips[d] = NoSlip
  BY <1>0, <1>3 DEF Creating, Slips
<1>6. \A r : WorkingOn(r)' = WorkingOn(r)
  BY <1>2, <1>3 DEF WorkingOn, PayrollInv, TypeOK
<1>7. Creating(s)'
  BY <1>0, <1>2, <1>3, <1>4, <1>5, <1>6 DEF Creating, TotalsAgree
<1>8. ASSUME NEW v \in Sessions, v # s PROVE Creating(v)'
  <2>1. sess[v].op = "create" => u.run # sess[v].run
    BY <1>3, <1>8 DEF PayrollTotalsInv, Creating, WorkingOn
  <2> QED BY <1>2, <1>8, <2>1, CreatingKept DEF PayrollTotalsInv
<1>9. LedgerMatchesPayslips'
  BY <1>2, LedgerKept DEF PayrollInv, PayrollTotalsInv, FromRuns
<1> QED BY <1>2, <1>7, <1>8, <1>9 DEF PayrollTotalsInv

LEMMA TransitionKeepsTotals ==
  ASSUME PayrollInv, PayrollInv', PayrollTotalsInv, NEW s \in Sessions, NEW r \in Runs,
         NEW op \in {"approve", "post"}, run[r].status # "absent", Transition(s, op, r)
  PROVE  PayrollTotalsInv'
<1> DEFINE t == [Idle EXCEPT !.op = op, !.run = r]
<1>1. sess' = [sess EXCEPT ![s] = t] /\ UNCHANGED <<run, posted, undone, balance, manual>>
  BY DEF Transition
<1>2. t.op = op /\ t.run = r
  BY DEF Idle
<1> HIDE DEF t
<1>3. sess'[s] = t
  BY <1>1 DEF PayrollInv, TypeOK
<1>4. Creating(s)'
  BY <1>2, <1>3 DEF Creating
<1>5. ASSUME NEW u \in Sessions, u # s PROVE Creating(u)'
  <2>1. sess[u].op = "create" => r # sess[u].run
    BY DEF PayrollTotalsInv, Creating
  <2>2. sess' = [sess EXCEPT ![s] = sess'[s]]
    BY <1>1, <1>3
  <2> QED BY <1>1, <1>2, <1>3, <1>5, <2>1, <2>2, CreatingKept DEF PayrollTotalsInv
<1>6. LedgerMatchesPayslips'
  BY <1>1, LedgerKept DEF PayrollInv, PayrollTotalsInv, FromRuns
<1> QED BY <1>1, <1>4, <1>5, <1>6 DEF PayrollTotalsInv

LEMMA AbortKeepsTotals ==
  ASSUME PayrollInv, PayrollInv', PayrollTotalsInv, NEW s \in Sessions, Abort(s)
  PROVE  PayrollTotalsInv'
<1>1. sess' = [sess EXCEPT ![s] = Idle] /\ UNCHANGED <<run, posted, undone, balance, manual>>
  BY DEF Abort, Become
<1>2. \A u \in Sessions : Creating(u)'
  BY <1>1, EndKeepsCreating DEF PayrollTotalsInv
<1>3. LedgerMatchesPayslips'
  BY <1>1, LedgerKept DEF PayrollInv, PayrollTotalsInv, FromRuns
<1> QED BY <1>1, <1>2, <1>3 DEF PayrollTotalsInv

LEMMA CommitCreateKeepsTotals ==
  ASSUME PayrollInv, PayrollInv', PayrollTotalsInv, NEW s \in Sessions, CommitCreate(s)
  PROVE  PayrollTotalsInv'
<1> DEFINE t == sess[s]  r == t.run
<1>1. /\ t.op = "create" /\ r \in Runs /\ Creating(s)
      /\ run' = [run EXCEPT ![r] = [status |-> "draft", slips |-> t.slips, totals |-> t.totals]]
      /\ sess' = [sess EXCEPT ![s] = Idle]
      /\ UNCHANGED <<posted, undone, balance, manual>>
  BY DEF CommitCreate, PayrollInv, PayrollTotalsInv, SlipsSoFar
<1>2. /\ run'[r] = [status |-> "draft", slips |-> t.slips, totals |-> t.totals]
      /\ \A q \in Runs \ {r} : run'[q] = run[q]
  BY <1>1 DEF PayrollInv, TypeOK
<1>3. posted[r] = 0
  BY <1>1 DEF PayrollTotalsInv, Creating
<1>4. \A u \in Sessions : Creating(u)'
  BY <1>1, <1>2, EndKeepsCreating DEF PayrollTotalsInv
<1>5. LedgerMatchesPayslips'
  BY <1>1, <1>2, <1>3, LedgerKept DEF PayrollInv, PayrollTotalsInv, FromRuns
<1>6. \A q \in Runs : TotalsAgree(run'[q].totals, run'[q].slips)
  BY <1>1, <1>2 DEF PayrollTotalsInv, Creating
<1> QED BY <1>1, <1>2, <1>4, <1>5, <1>6 DEF PayrollTotalsInv, TotalsAgree

LEMMA CommitApproveKeepsTotals ==
  ASSUME PayrollInv, PayrollInv', PayrollTotalsInv, NEW s \in Sessions, CommitApprove(s)
  PROVE  PayrollTotalsInv'
<1> DEFINE r == sess[s].run
<1>0. TypeOK /\ sess[s] \in Request /\ Undisturbed(s)
  BY DEF PayrollInv, TypeOK
<1>1. /\ sess[s].op = "approve" /\ r \in Runs
      /\ run' = [run EXCEPT ![r] = Marked(run[r], "approved")]
      /\ sess' = [sess EXCEPT ![s] = Idle]
      /\ UNCHANGED <<posted, undone, balance, manual>>
  BY <1>0, StatusWritten DEF CommitApprove, Request, Undisturbed
<1>2. /\ run'[r].slips = run[r].slips /\ run'[r].totals = run[r].totals
      /\ run'[r].status = "approved" /\ \A q \in Runs : q # r => run'[q] = run[q]
  BY <1>1 DEF PayrollInv, TypeOK, Marked
<1>3. \A u \in Sessions : Creating(u)'
  BY <1>1, <1>2, EndKeepsCreating DEF PayrollTotalsInv
<1>4. LedgerMatchesPayslips'
  BY <1>1, <1>2, LedgerKept DEF PayrollInv, PayrollTotalsInv, FromRuns
<1> QED BY <1>1, <1>2, <1>3, <1>4 DEF PayrollTotalsInv, TotalsAgree

\* One more live booking of a run, or one less, and the accounts with it.
LEMMA BookCounts ==
  ASSUME PayrollInv, PayrollInv', PayrollTotalsInv, NEW r \in Runs, NEW n \in {1, -1},
         Book(run[r].totals, n), manual' = manual, Live(r)' = Live(r) + n,
         \A q \in Runs : run'[q].slips = run[q].slips /\ (q # r => Live(q)' = Live(q))
  PROVE  LedgerMatchesPayslips'
<1> DEFINE t == run[r].totals
<1>0. TypeOK /\ TypeOK'
  BY DEF PayrollInv
<1>t. t \in RunTotals
  BY <1>0 DEF TypeOK, Run
<1>4. ASSUME NEW c \in Columns
      PROVE  /\ BookedTotal(c)' = BookedTotal(c) + n * t[c]
             /\ BookedTotal(c) \in Int /\ n * t[c] \in Int
  <2> DEFINE f == [q \in Runs |-> Live(q) * SlipTotal(run[q].slips, c)]
             g == [q \in Runs |-> Live(q)' * SlipTotal(run'[q].slips, c)]
             m == SlipTotal(run[r].slips, c)
  <2>0. \A q \in Runs : Live(q) \in Int /\ Live(q)' \in Int
    <3>1. \A q \in Runs : Live(q) \in Int
      BY <1>0 DEF TypeOK, Live
    <3>2. \A q \in Runs : Live(q)' \in Int
      BY <1>0 DEF TypeOK, Live
    <3> QED BY <3>1, <3>2
  <2>1. \A q \in Runs : SlipTotal(run[q].slips, c) \in Int /\ SlipTotal(run'[q].slips, c) \in Int
    BY <1>0, SlipTotalIsInteger DEF TypeOK, Run
  <2>2. \A q \in Runs : f[q] \in Int /\ g[q] \in Int /\ (q # r => g[q] = f[q])
    BY <2>0, <2>1
  <2>3. t[c] = m /\ m \in Int
    BY <2>1 DEF PayrollTotalsInv, TotalsAgree, Columns
  <2>4. f[r] = Live(r) * m /\ g[r] = (Live(r) + n) * m
    OBVIOUS
  <2> HIDE DEF f, g, m, t
  <2>5. \A a, b \in Int : (a + n) * b = a * b + n * b /\ a * b \in Int /\ n * b \in Int
    <3>1. n \in Int
      OBVIOUS
    <3> QED BY <3>1
  <2>6. g[r] = f[r] + n * m /\ f[r] \in Int /\ n * m \in Int
    BY <2>0, <2>3, <2>4, <2>5
  <2>7. /\ SumFunctionOnSet(g, Runs) = SumFunctionOnSet(f, Runs) + g[r] - f[r]
        /\ SumFunctionOnSet(f, Runs) \in Int
    <3>1. IsFiniteSet(Runs)
      BY PayrollAssumption
    <3>2. DiffersAt(r, f, g, Runs)
      BY <2>2 DEF DiffersAt
    <3> QED BY <2>2, <3>1, <3>2, SumChange, SumType
  <2>8. SumFunctionOnSet(g, Runs) = SumFunctionOnSet(f, Runs) + n * m
    BY <2>6, <2>7
  <2> QED BY <2>3, <2>6, <2>7, <2>8 DEF BookedTotal, f, g
<1>5. /\ BookedTotal("gross")' = BookedTotal("gross") + n * t.gross
      /\ BookedTotal("net")' = BookedTotal("net") + n * t.net
      /\ BookedTotal("deductions")' = BookedTotal("deductions") + n * t.deductions
      /\ {BookedTotal("gross"), BookedTotal("net"), BookedTotal("deductions"),
          n * t.gross, n * t.net, n * t.deductions} \subseteq Int
  BY <1>4 DEF Columns
<1>6. /\ balance'["SALARY_EXPENSE"] = balance["SALARY_EXPENSE"] + n * t.gross
      /\ balance'["SALARY_PAYABLE"] = balance["SALARY_PAYABLE"] - n * t.net
      /\ balance'["STATUTORY_PAYABLE"] = balance["STATUTORY_PAYABLE"] - n * t.deductions
      /\ \A a \in PayrollAccounts : balance[a] \in Int /\ manual[a] \in Int
  BY <1>0, <1>t, BookIs DEF TypeOK
<1>7. /\ FromRuns("SALARY_EXPENSE") = BookedTotal("gross")
      /\ -FromRuns("SALARY_PAYABLE") = BookedTotal("net")
      /\ -FromRuns("STATUTORY_PAYABLE") = BookedTotal("deductions")
  BY DEF PayrollTotalsInv, LedgerMatchesPayslips
<1> DEFINE g == n * t.gross  m == n * t.net  d == n * t.deductions
<1>8. g \in Int /\ m \in Int /\ d \in Int
  BY <1>5
<1>9. /\ FromRuns("SALARY_EXPENSE")' = FromRuns("SALARY_EXPENSE") + g
      /\ FromRuns("SALARY_PAYABLE")' = FromRuns("SALARY_PAYABLE") - m
      /\ FromRuns("STATUTORY_PAYABLE")' = FromRuns("STATUTORY_PAYABLE") - d
      /\ \A a \in PayrollAccounts : FromRuns(a) \in Int
  <2> HIDE DEF g, m, d
  <2>1. /\ balance'["SALARY_EXPENSE"] = balance["SALARY_EXPENSE"] + g
        /\ balance'["SALARY_PAYABLE"] = balance["SALARY_PAYABLE"] - m
        /\ balance'["STATUTORY_PAYABLE"] = balance["STATUTORY_PAYABLE"] - d
    BY <1>6 DEF g, m, d
  <2> QED BY <1>6, <1>8, <2>1 DEF FromRuns, PayrollAccounts
<1>10. /\ BookedTotal("gross")' = BookedTotal("gross") + g
       /\ BookedTotal("net")' = BookedTotal("net") + m
       /\ BookedTotal("deductions")' = BookedTotal("deductions") + d
       /\ BookedTotal("gross") \in Int /\ BookedTotal("net") \in Int /\ BookedTotal("deductions") \in Int
  BY <1>5
<1>11. /\ FromRuns("SALARY_EXPENSE")' = BookedTotal("gross")'
       /\ -FromRuns("SALARY_PAYABLE")' = BookedTotal("net")'
       /\ -FromRuns("STATUTORY_PAYABLE")' = BookedTotal("deductions")'
  <2> HIDE DEF g, m, d
  <2> QED BY <1>7, <1>8, <1>9, <1>10 DEF PayrollAccounts
<1> QED BY <1>11 DEF LedgerMatchesPayslips

LEMMA CommitPostKeepsTotals ==
  ASSUME PayrollInv, PayrollInv', PayrollTotalsInv, NEW s \in Sessions, CommitPost(s)
  PROVE  PayrollTotalsInv'
<1> DEFINE r == sess[s].run  t == run[r].totals
<1>0. TypeOK /\ sess[s] \in Request /\ Undisturbed(s)
  BY DEF PayrollInv, TypeOK
<1>1. /\ sess[s].op = "post" /\ r \in Runs
      /\ run' = [run EXCEPT ![r] = Marked(run[r], "posted")]
      /\ posted' = [posted EXCEPT ![r] = posted[r] + 1]
      /\ Book(t, 1)
      /\ sess' = [sess EXCEPT ![s] = Idle] /\ manual' = manual /\ undone' = undone
  BY <1>0, StatusWritten DEF CommitPost, Request, Undisturbed
<1>2. /\ run'[r].slips = run[r].slips /\ run'[r].totals = t
      /\ run'[r].status = "posted" /\ posted'[r] = posted[r] + 1
      /\ \A q \in Runs : q # r => run'[q] = run[q] /\ posted'[q] = posted[q]
  BY <1>1 DEF PayrollInv, TypeOK, Marked
<1>3. \A u \in Sessions : Creating(u)'
  BY <1>1, <1>2, EndKeepsCreating DEF PayrollTotalsInv
<1>4. LedgerMatchesPayslips'
  <2>0. PICK x \in Runs : x = r
    BY <1>1
  <2>1. Live(x)' = Live(x) + 1 /\ \A q \in Runs : q # x => Live(q)' = Live(q)
    <3>1. posted[x] \in Nat /\ undone[x] \in Nat /\ posted'[x] = posted[x] + 1
      BY <1>0, <1>2, <2>0 DEF TypeOK
    <3>2. \A q : Live(q)' = posted'[q] - undone[q]
      BY <1>1 DEF Live
    <3>3. posted'[x] - undone[x] = (posted[x] - undone[x]) + 1
      BY <3>1
    <3> QED BY <1>2, <2>0, <3>2, <3>3 DEF Live
  <2>2. \A q \in Runs : run'[q].slips = run[q].slips
    BY <1>2
  <2>3. Book(run[x].totals, 1) /\ manual' = manual
    BY <1>1, <2>0
  <2> QED BY <2>1, <2>2, <2>3, BookCounts
<1>6. run[r].status # "absent"
  BY <1>1 DEF PayrollInv, Undisturbed
<1>7. \A q \in Runs : run'[q].status = "absent" => posted'[q] = 0
  BY <1>2 DEF PayrollTotalsInv
<1> QED BY <1>2, <1>3, <1>4, <1>7 DEF PayrollTotalsInv, TotalsAgree

\* Reversals and manual journals leave the runs as they are.
LEMMA AccountsKeepTotals ==
  ASSUME PayrollInv, PayrollInv', PayrollTotalsInv,
         \/ \E r \in Runs : ReverseEntry(r) \/ ReverseReversal(r)
         \/ \E j \in Journals, n \in {1, -1} : PostJournal(j, n)
  PROVE  PayrollTotalsInv'
<1>1. UNCHANGED <<run, posted, sess>>
  BY DEF ReverseEntry, ReverseReversal, PostJournal
<1>2. ASSUME NEW r \in Runs, ReverseEntry(r) \/ ReverseReversal(r) PROVE LedgerMatchesPayslips'
  <2>1. TypeOK
    BY DEF PayrollInv
  <2>4. manual' = manual
    BY <1>2, <2>1, ReversalsAre
  <2>2. PICK n \in {1, -1} : Book(run[r].totals, n) /\ undone' = [undone EXCEPT ![r] = @ - n]
    BY <1>2, <2>1, ReversalsAre
  <2>3. Live(r)' = Live(r) + n /\ \A q \in Runs : q # r => Live(q)' = Live(q)
    <3>1. \A q : Live(q)' = posted[q] - undone'[q]
      BY <1>1 DEF Live
    <3>2. posted[r] \in Nat /\ undone[r] \in Nat /\ n \in Int
      BY <2>1 DEF TypeOK
    <3>3. undone'[r] = undone[r] - n /\ \A q \in Runs : q # r => undone'[q] = undone[q]
      BY <2>1, <2>2 DEF TypeOK
    <3> QED BY <3>1, <3>2, <3>3 DEF Live
  <2> QED BY <1>1, <2>2, <2>3, <2>4, BookCounts
<1>3. ASSUME NEW j \in Journals, NEW n \in {1, -1}, PostJournal(j, n) PROVE LedgerMatchesPayslips'
  <2>1. (\A a \in PayrollAccounts : FromRuns(a)' = FromRuns(a)) /\ undone' = undone
    BY <1>3, PostJournalKeeps DEF PostJournal
  <2> QED BY <1>1, <2>1, LedgerKept DEF PayrollInv, PayrollTotalsInv
<1> QED BY <1>1, <1>2, <1>3 DEF PayrollTotalsInv, Creating, WorkingOn

LEMMA PayrollTotalsStep == PayrollInv /\ PayrollInv' /\ PayrollTotalsInv /\ [Next]_vars => PayrollTotalsInv'
<1> SUFFICES ASSUME PayrollInv, PayrollInv', PayrollTotalsInv, [Next]_vars PROVE PayrollTotalsInv'
  OBVIOUS
<1>1. CASE UNCHANGED vars
  <2>1. UNCHANGED <<run, posted, undone, balance, manual, sess>>
    BY <1>1 DEF vars
  <2>2. LedgerMatchesPayslips'
    BY <2>1, LedgerKept DEF PayrollInv, PayrollTotalsInv, FromRuns
  <2> QED BY <2>1, <2>2 DEF PayrollTotalsInv, Creating, WorkingOn
<1>2. CASE \/ \E x \in Structures : CreateStructure(x)
           \/ \E e \in Employees : SetActive(e)
  BY <1>2, MasterDataKeepsTotals
<1>6. ASSUME NEW r \in Runs, ReverseEntry(r) \/ ReverseReversal(r) PROVE PayrollTotalsInv'
  BY <1>6, AccountsKeepTotals
<1>7. ASSUME NEW j \in Journals, NEW n \in {1, -1}, PostJournal(j, n) PROVE PayrollTotalsInv'
  BY <1>7, AccountsKeepTotals
<1>3. ASSUME NEW s \in Sessions, NEW r \in Runs, NEW asked \in SUBSET Employees,
             BeginCreate(s, r, asked)
      PROVE  PayrollTotalsInv'
  BY <1>3, BeginCreateKeepsTotals
<1>4. ASSUME NEW s \in Sessions, NEW r \in Runs, BeginApprove(s, r) \/ BeginPost(s, r)
      PROVE  PayrollTotalsInv'
  <2>1. CASE BeginApprove(s, r)
    BY <2>1, TransitionKeepsTotals DEF BeginApprove
  <2>2. CASE BeginPost(s, r)
    BY <2>2, TransitionKeepsTotals DEF BeginPost, Postable
  <2> QED BY <1>4, <2>1, <2>2
<1>5. ASSUME NEW s \in Sessions,
             ReadStructure(s) \/ CommitCreate(s) \/ CommitApprove(s) \/ CommitPost(s) \/ Abort(s)
      PROVE  PayrollTotalsInv'
  BY <1>5, ReadStructureKeepsTotals, CommitCreateKeepsTotals, CommitApproveKeepsTotals,
     CommitPostKeepsTotals, AbortKeepsTotals
<1> QED BY <1>1, <1>2, <1>3, <1>4, <1>5, <1>6, <1>7 DEF Next

-----------------------------------------------------------------------------
\* What the handlers of payroll-runs.ts keep of payslips and runs.
THEOREM PayrollInvariant == Spec => []PayrollInv
BY PayrollInit, PayrollStep, PTL DEF Spec

\* No payslip is made from a structure that another one had superseded when the
\* creation of the run began, however many are entered while it goes on.
THEOREM PayslipsAlwaysUpToDate == Spec => []PayslipsUpToDate
<1>1. PayrollInv => PayslipsUpToDate
  BY DEF PayrollInv
<1> QED BY <1>1, PayrollInvariant, PTL

\* A run whose requests never overlapped is booked exactly when it is posted, and once.
THEOREM RunsAreBookedOnce == Spec => []BookedOncePerRun
<1>1. PayrollInv => BookedOncePerRun
  BY DEF PayrollInv
<1> QED BY <1>1, PayrollInvariant, PTL

\* Without the manual journals the payroll accounts hold what the payslips of the
\* booked runs add up to, also when two requests to post one run overlap and book it
\* twice, and when entries are reversed and put back.
THEOREM LedgerAlwaysMatchesPayslips == Spec => []LedgerMatchesPayslips
<1>1. PayrollTotalsInv => LedgerMatchesPayslips
  BY DEF PayrollTotalsInv
<1> QED BY <1>1, PayrollInvariant, PayrollTotalsInit, PayrollTotalsStep, PTL DEF Spec

-----------------------------------------------------------------------------
(***************************************************************************)
(* Depreciation.                                                           *)
(***************************************************************************)
-----------------------------------------------------------------------------
(***************************************************************************)
(* The schedule.                                                           *)
(***************************************************************************)
\* Monthly amounts are whole cents.
LEMMA InstallmentType ==
  ASSUME NEW amount \in Int, NEW life \in Nat \ {0}, NEW i \in Nat
  PROVE  Monthly(amount, life) \in Int /\ Installment(amount, life, i) \in Int
<1>1. Monthly(amount, life) \in Int
  BY DEF Monthly, Round
<1>2. (life - 1) * Monthly(amount, life) \in Int
  BY <1>1
<1> QED BY <1>1, <1>2 DEF Installment

\* What a schedule row may be, and what it charges.
LEMMA RowFacts ==
  /\ \A r \in Rows : /\ r[1] \in Assets /\ r[2] \in Months /\ r = <<r[1], r[2]>>
                     /\ AmountOf(r) \in Int /\ MonthOf(r) \in Int
  /\ \A a \in Assets : /\ Asset[a].amount \in Int /\ Asset[a].first \in Nat
                       /\ Asset[a].life \in Months
                       /\ \A i \in Months : <<a, i>> \in Rows <=> i <= Asset[a].life
<1>1. ASSUME NEW a \in Assets
      PROVE  /\ Asset[a].amount \in Int /\ Asset[a].first \in Nat
             /\ Asset[a].life \in Months /\ Asset[a].life \in Nat \ {0}
  BY DepreciationAssumption DEF Months
<1>2. \A r \in Rows : r[1] \in Assets /\ r[2] \in Months /\ r = <<r[1], r[2]>>
  BY DEF Rows
<1>3. ASSUME NEW r \in Rows PROVE AmountOf(r) \in Int /\ MonthOf(r) \in Int
  BY <1>1, <1>2, InstallmentType DEF AmountOf, MonthOf, Months
<1> QED BY <1>1, <1>2, <1>3 DEF Rows

LEMMA MonthsAreFinite == IsFiniteSet(Months)
BY DepreciationAssumption, FS_Interval DEF Months

\* The schedule of an asset charges its depreciable amount, to the cent.
LEMMA ScheduleTotal ==
  ASSUME NEW a \in Assets
  PROVE  SumFunctionOnSet([i \in Months |-> IF <<a, i>> \in Rows THEN AmountOf(<<a, i>>) ELSE 0],
               Months) = Asset[a].amount
<1> DEFINE amount == Asset[a].amount
           life == Asset[a].life
           month == Monthly(amount, life)
           c == [i \in Months |-> IF <<a, i>> \in Rows THEN AmountOf(<<a, i>>) ELSE 0]
           t == [i \in 0..LastMonth |-> IF i < life THEN i * month ELSE amount]
<1>1. amount \in Int /\ life \in Months /\ life \in Nat \ {0} /\ LastMonth \in Nat
  BY RowFacts, DepreciationAssumption DEF Months
<1>2. month \in Int
  BY <1>1, InstallmentType
<1>3. \A i \in Months : c[i] = IF i > life THEN 0 ELSE Installment(amount, life, i)
  BY RowFacts DEF AmountOf, Months
<1> HIDE DEF amount, life, month, c
<1>4. t \in [0..LastMonth -> Int]
  <2>1. \A i \in 0..LastMonth : i * month \in Int
    BY <1>2
  <2> QED BY <1>1, <2>1
<1>5. t[0] = 0
  <2>1. 0 * month = 0
    BY <1>2
  <2> QED BY <1>1, <2>1
<1>6. ASSUME NEW i \in 1..LastMonth PROVE t[i] = t[i - 1] + c[i]
  <2>1. i - 1 \in 0..LastMonth /\ i \in Months
    BY <1>1 DEF Months
  <2>2. i * month = (i - 1) * month + month /\ (i - 1) * month \in Int
    BY <1>2
  <2>3. Installment(amount, life, i) =
          IF i = life THEN amount - (life - 1) * month ELSE month
    BY DEF Installment, month
  <2>4. CASE i < life
    BY <1>1, <1>3, <2>1, <2>2, <2>3, <2>4
  <2>5. CASE i = life
    BY <1>1, <1>3, <2>1, <2>2, <2>3, <2>5
  <2>6. CASE i > life
    BY <1>1, <1>3, <2>1, <2>6
  <2> QED BY <1>1, <2>4, <2>5, <2>6
<1>7. \A i \in 1..LastMonth : c[i] \in Int
  BY <1>1, <1>2, <1>3, InstallmentType DEF Months
<1>8. SumFunctionOnSet(c, Months) = t[LastMonth]
  <2>1. SumFunctionOnSet(c, 1..LastMonth) = t[LastMonth]
    <3> HIDE DEF t
    <3> QED BY <1>1, <1>5, <1>6, <1>7, SumRunning
  <2> QED BY <2>1 DEF Months
<1> QED BY <1>1, <1>8 DEF c, amount, Months

\* What a run that is idle holds.
LEMMA IdleFacts ==
  /\ NoJob \in [pc : {"idle", "check", "book", "commit"},
               list : SUBSET Rows, done : SUBSET Rows, locked : BOOLEAN]
  /\ NoJob.list = {} /\ NoJob.done = {} /\ NoJob.pc = "idle"
BY DEF NoJob

-----------------------------------------------------------------------------
\* Before anything is entered nothing is pending, booked or read.
LEMMA DepreciationInit == InitDepreciation => DepreciationInv
<1> SUFFICES ASSUME InitDepreciation PROVE DepreciationInv
  OBVIOUS
<1>1. DepreciationTypeOK
  BY IdleFacts DEF InitDepreciation, DepreciationTypeOK
<1>2. RowsOK
  BY DEF InitDepreciation, RowsOK
<1>3. \A s \in DepreciationRuns : RunOK(s) /\ Read(s) = {}
  BY IdleFacts DEF InitDepreciation, RunOK, Read
<1>4. RepeatsOK
  <2>1. \A r \in Rows : Readers(r) = {}
    BY <1>3 DEF Readers
  <2>2. Cardinality(DepreciationRuns) \in Nat /\ Cardinality({}) = 0
    BY DepreciationAssumption, FS_EmptySet, FS_CardinalityType
  <2> QED BY <2>1, <2>2 DEF InitDepreciation, RepeatsOK
<1>5. ReserveOK
  <2> SUFFICES ASSUME NEW a \in Assets PROVE SumFunctionOnSet(Charges(a), Months) = 0
    BY DEF InitDepreciation, ReserveOK
  <2>1. \A i \in Months : Charges(a)[i] = 0
    BY RowFacts DEF InitDepreciation, Charges, Months
  <2> QED BY <2>1, MonthsAreFinite, SumZero
<1> QED BY <1>1, <1>2, <1>3, <1>4, <1>5 DEF DepreciationInv

-----------------------------------------------------------------------------
(***************************************************************************)
(* Steps of a run that write no table.                                     *)
(***************************************************************************)
\* A run that holds less than before, or what it held, keeps the invariant as
\* long as it commits a list it has gone through.
LEMMA RunStep ==
  ASSUME DepreciationInv, NEW s \in DepreciationRuns, DepreciationTypeOK',
         UNCHANGED <<entered, pending, booked, reserve>>,
         \A t \in DepreciationRuns \ {s} : job'[t] = job[t],
         Read(s)' = Read(s) \/ Read(s)' = {},
         job'[s].pc = "commit" => job'[s].list = {}
  PROVE  DepreciationInv'
<1>1. RowsOK'
  BY DEF DepreciationInv, RowsOK
<1>2. ASSUME NEW t \in DepreciationRuns PROVE RunOK(t)'
  <2>1. CASE t = s
    BY <2>1 DEF DepreciationInv, RunOK
  <2>2. CASE t # s
    BY <2>2 DEF DepreciationInv, RunOK, Read
  <2> QED BY <2>1, <2>2
<1>3. RepeatsOK'
  <2> SUFFICES ASSUME NEW r \in Rows
               PROVE  booked[r] + Cardinality(Readers(r)') <= Cardinality(DepreciationRuns)
    BY DEF RepeatsOK
  <2>1. Readers(r)' \subseteq Readers(r) /\ Readers(r) \subseteq DepreciationRuns
    BY DEF Readers, Read
  <2>2. IsFiniteSet(Readers(r)) /\ IsFiniteSet(Readers(r)')
    BY <2>1, DepreciationAssumption, FS_Subset
  <2>3. Cardinality(Readers(r)') <= Cardinality(Readers(r))
    BY <2>1, <2>2, FS_Subset
  <2>4. /\ Cardinality(Readers(r)) \in Nat /\ Cardinality(Readers(r)') \in Nat
        /\ Cardinality(DepreciationRuns) \in Nat
    BY <2>2, DepreciationAssumption, FS_CardinalityType
  <2> QED BY <2>3, <2>4 DEF DepreciationInv, RepeatsOK, DepreciationTypeOK
<1>4. ReserveOK'
  BY DEF DepreciationInv, ReserveOK, Charges
<1> QED BY <1>1, <1>2, <1>3, <1>4 DEF DepreciationInv

\* A run that ends without a trace keeps the invariant.
LEMMA IdleStep ==
  ASSUME DepreciationInv, NEW s \in DepreciationRuns, job' = [job EXCEPT ![s] = NoJob],
         UNCHANGED <<entered, pending, booked, reserve>>
  PROVE  DepreciationInv'
<1>1. DepreciationTypeOK' /\ job'[s] = NoJob /\ \A t \in DepreciationRuns \ {s} : job'[t] = job[t]
  BY IdleFacts DEF DepreciationInv, DepreciationTypeOK
<1>2. Read(s)' = {}
  BY <1>1, IdleFacts DEF Read
<1> QED BY <1>1, <1>2, IdleFacts, RunStep

\* Checking a row keeps the invariant: the row moves from the list to the work
\* of the run, or the run ends.
LEMMA CheckRowStep ==
  ASSUME DepreciationInv, NEW s \in DepreciationRuns, CheckRow(s)
  PROVE  DepreciationInv'
<1>1. PICK r \in job[s].list :
        job' = [job EXCEPT ![s] =
          IF MonthOf(r) \in closed THEN NoJob
          ELSE [job[s] EXCEPT !.pc = "book", !.list = @ \ {r}, !.done = @ \cup {r}]]
  BY DEF CheckRow
<1>2. UNCHANGED <<entered, pending, booked, reserve>>
  BY DEF CheckRow
<1>3. CASE MonthOf(r) \in closed
  BY <1>1, <1>2, <1>3, IdleStep
<1>4. CASE MonthOf(r) \notin closed
  <2> DEFINE after == [job[s] EXCEPT !.pc = "book", !.list = @ \ {r}, !.done = @ \cup {r}]
  <2>1. /\ job'[s] = after /\ \A t \in DepreciationRuns \ {s} : job'[t] = job[t]
        /\ job' = [t \in DepreciationRuns |-> job'[t]]
    <3>1. job'[s] = IF MonthOf(r) \in closed THEN NoJob ELSE after
      BY <1>1 DEF DepreciationInv, DepreciationTypeOK
    <3>2. \A t \in DepreciationRuns \ {s} : job'[t] = job[t]
      BY <1>1 DEF DepreciationInv, DepreciationTypeOK
    <3>3. job' = [t \in DepreciationRuns |-> job'[t]]
      BY <1>1 DEF DepreciationInv, DepreciationTypeOK
    <3> QED BY <1>4, <3>1, <3>2, <3>3
  <2>2. job[s] \in [pc : {"idle", "check", "book", "commit"}, list : SUBSET Rows,
                     done : SUBSET Rows, locked : BOOLEAN]
    BY DEF DepreciationInv, DepreciationTypeOK
  <2>3. /\ after.pc = "book" /\ after.list = job[s].list \ {r}
        /\ after.done = job[s].done \cup {r}
        /\ after \in [pc : {"idle", "check", "book", "commit"}, list : SUBSET Rows,
                      done : SUBSET Rows, locked : BOOLEAN]
    BY <1>1, <2>2
  <2> HIDE DEF after
  <2>4. DepreciationTypeOK'
    BY <1>2, <2>1, <2>3 DEF DepreciationInv, DepreciationTypeOK
  <2>5. Read(s)' = Read(s)
    BY <2>1, <2>3 DEF Read
  <2> QED BY <1>2, <2>1, <2>3, <2>4, <2>5, RunStep
<1> QED BY <1>3, <1>4

\* Taking or keeping the number sequence keeps the invariant.
LEMMA BookRowStep ==
  ASSUME DepreciationInv, NEW s \in DepreciationRuns, BookRow(s)
  PROVE  DepreciationInv'
<1>1. /\ job' = [job EXCEPT ![s].locked = TRUE,
                     ![s].pc = IF job[s].list = {} THEN "commit" ELSE "check"]
      /\ UNCHANGED <<entered, pending, booked, reserve>>
  BY DEF BookRow
<1>2. job \in [DepreciationRuns -> [pc : {"idle", "check", "book", "commit"}, list : SUBSET Rows,
                             done : SUBSET Rows, locked : BOOLEAN]]
  BY DEF DepreciationInv, DepreciationTypeOK
<1>3. /\ job'[s].list = job[s].list /\ job'[s].done = job[s].done
      /\ job'[s].pc = "commit" => job[s].list = {}
      /\ \A t \in DepreciationRuns \ {s} : job'[t] = job[t]
  BY <1>1, <1>2
<1>4. DepreciationTypeOK'
  <2>1. job'[s] \in [pc : {"idle", "check", "book", "commit"}, list : SUBSET Rows,
                      done : SUBSET Rows, locked : BOOLEAN]
    BY <1>1, <1>2
  <2>2. job' = [t \in DepreciationRuns |-> job'[t]]
    BY <1>1, <1>2
  <2> QED BY <1>1, <1>2, <1>3, <2>1, <2>2 DEF DepreciationInv, DepreciationTypeOK
<1>5. Read(s)' = Read(s)
  BY <1>3 DEF Read
<1> QED BY <1>1, <1>3, <1>4, <1>5, RunStep

-----------------------------------------------------------------------------
(***************************************************************************)
(* The other steps.                                                        *)
(***************************************************************************)
\* A run that reads its list keeps the invariant: nothing on the list has been
\* booked, and no earlier month that is pending is left out.
LEMMA BeginRunStep ==
  ASSUME DepreciationInv, NEW s \in DepreciationRuns, NEW cutoff \in Months, BeginRun(s, cutoff)
  PROVE  DepreciationInv'
<1> DEFINE due == {r \in pending : MonthOf(r) <= cutoff}
<1>1. /\ job' = [job EXCEPT ![s] = [NoJob EXCEPT !.pc = "check", !.list = due]]
      /\ UNCHANGED <<entered, pending, booked, reserve>>
  BY DEF BeginRun
<1>2. due \subseteq Rows /\ due \subseteq pending
  BY DEF DepreciationInv, DepreciationTypeOK
<1>3. \A r \in due, q \in Rows : Before(q, r) => q \in due \/ q \notin pending
  <2> TAKE r \in due, q \in Rows
  <2>1. r \in Rows /\ cutoff \in Int
    BY <1>2 DEF Months
  <2>2. Before(q, r) => MonthOf(q) <= MonthOf(r)
    BY <2>1, RowFacts DEF Before, MonthOf, Months
  <2> QED BY <2>1, <2>2, RowFacts
<1> HIDE DEF due
<1>4. /\ job'[s].list = due /\ job'[s].done = {} /\ job'[s].pc = "check"
      /\ \A t \in DepreciationRuns \ {s} : job'[t] = job[t]
  BY <1>1 DEF NoJob, DepreciationInv, DepreciationTypeOK
<1>5. DepreciationTypeOK'
  BY <1>1, <1>2 DEF NoJob, DepreciationInv, DepreciationTypeOK
<1>6. Read(s)' = due /\ \A t \in DepreciationRuns \ {s} : Read(t)' = Read(t)
  BY <1>4 DEF Read
<1>7. RowsOK' /\ ReserveOK'
  BY <1>1 DEF DepreciationInv, RowsOK, ReserveOK, Charges
<1>8. ASSUME NEW t \in DepreciationRuns PROVE RunOK(t)'
  <2>1. CASE t = s
    BY <1>1, <1>2, <1>3, <1>4, <1>6, <2>1 DEF DepreciationInv, RunOK, RowsOK
  <2>2. CASE t # s
    BY <1>1, <1>4, <1>6, <2>2 DEF DepreciationInv, RunOK
  <2> QED BY <2>1, <2>2
<1>9. RepeatsOK'
  <2> SUFFICES ASSUME NEW r \in Rows
               PROVE  booked[r] + Cardinality(Readers(r)') <= Cardinality(DepreciationRuns)
    BY <1>1 DEF RepeatsOK
  <2>1. Readers(r) \subseteq DepreciationRuns /\ Readers(r)' \subseteq DepreciationRuns
    BY DEF Readers
  <2>2. /\ Cardinality(Readers(r)') <= Cardinality(DepreciationRuns)
        /\ Cardinality(Readers(r)) \in Nat /\ Cardinality(Readers(r)') \in Nat
        /\ Cardinality(DepreciationRuns) \in Nat /\ booked[r] \in Nat
    BY <2>1, DepreciationAssumption, FS_Subset, FS_CardinalityType
       DEF DepreciationInv, DepreciationTypeOK
  <2>3. CASE r \in due
    <3>1. booked[r] = 0
      BY <1>2, <2>2, <2>3 DEF DepreciationInv, RowsOK
    <3> QED BY <2>2, <3>1
  <2>4. CASE r \notin due
    <3>1. Readers(r)' \subseteq Readers(r) /\ IsFiniteSet(Readers(r))
      BY <1>6, <2>1, <2>4, DepreciationAssumption, FS_Subset DEF Readers
    <3>2. Cardinality(Readers(r)') <= Cardinality(Readers(r))
      BY <3>1, FS_Subset
    <3> QED BY <2>2, <3>2 DEF DepreciationInv, RepeatsOK
  <2> QED BY <2>3, <2>4
<1> QED BY <1>5, <1>7, <1>8, <1>9 DEF DepreciationInv

\* Entering an asset keeps the invariant: no run knows it and nothing of it is
\* booked.
LEMMA EnterAssetStep ==
  ASSUME DepreciationInv, NEW a \in Assets, EnterAsset(a)
  PROVE  DepreciationInv'
<1>1. /\ a \notin entered /\ entered' = entered \cup {a}
      /\ pending' = pending \cup {r \in Rows : r[1] = a}
      /\ UNCHANGED <<booked, reserve, job>>
  BY DEF EnterAsset
<1>2. DepreciationTypeOK'
  BY <1>1 DEF DepreciationInv, DepreciationTypeOK
<1>3. \A r \in Rows : r[1] = a => booked[r] = 0
  BY <1>1 DEF DepreciationInv, RowsOK, DepreciationTypeOK
<1>4. RowsOK'
  BY <1>1, <1>3 DEF DepreciationInv, RowsOK, Before
<1>5. ASSUME NEW s \in DepreciationRuns PROVE RunOK(s)'
  <2>1. Read(s)' = Read(s) /\ job'[s] = job[s] /\ RunOK(s)
    BY <1>1 DEF Read, DepreciationInv
  <2> QED BY <1>1, <2>1 DEF RunOK, Before
<1>6. RepeatsOK' /\ ReserveOK'
  BY <1>1 DEF DepreciationInv, RepeatsOK, Readers, Read, ReserveOK, Charges
<1> QED BY <1>2, <1>4, <1>5, <1>6 DEF DepreciationInv

\* A commit keeps the invariant: it books the run's rows and no others, adds
\* what they charge to the reserve, and the run is one that may book no more.
LEMMA CommitStep ==
  ASSUME DepreciationInv, NEW s \in DepreciationRuns, Commit(s)
  PROVE  DepreciationInv'
<1> DEFINE done == job[s].done
<1>1. /\ pending' = pending \ done
      /\ booked' = [r \in Rows |-> booked[r] + IF r \in done THEN 1 ELSE 0]
      /\ reserve' = [a \in Assets |-> reserve[a] + SumFunctionOnSet(
           [i \in Months |-> IF <<a, i>> \in done THEN AmountOf(<<a, i>>) ELSE 0],
           Months)]
      /\ job' = [job EXCEPT ![s] = NoJob]
      /\ entered' = entered
  BY DEF Commit
<1>2. /\ done \subseteq Rows /\ Read(s) = done /\ RunOK(s)
      /\ booked \in [Rows -> Nat] /\ reserve \in [Assets -> Int]
  BY DEF Commit, DepreciationInv, DepreciationTypeOK, RunOK, Read
<1>3. /\ \A r \in done : r[1] \in entered
      /\ \A r \in done, q \in Rows : Before(q, r) => q \in done \/ q \notin pending
  BY <1>2 DEF RunOK
<1>4. /\ Read(s)' = {} /\ job'[s] = NoJob
      /\ \A t \in DepreciationRuns \ {s} : job'[t] = job[t] /\ Read(t)' = Read(t)
  BY <1>1, IdleFacts DEF Read, DepreciationInv, DepreciationTypeOK
<1> HIDE DEF done
<1>5. \A a \in Assets, i \in Months :
        LET c == [j \in Months |-> IF <<a, j>> \in done THEN AmountOf(<<a, j>>) ELSE 0] IN
        /\ c[i] \in Int /\ Charges(a)[i] \in Int
        /\ Charges(a)'[i] = Charges(a)[i] + c[i]
  <2> TAKE a \in Assets, i \in Months
  <2>1. CASE <<a, i>> \in Rows
    <3>1. AmountOf(<<a, i>>) \in Int /\ booked[<<a, i>>] \in Nat
      BY <1>2, <2>1, RowFacts
    <3>2. booked[<<a, i>>] * AmountOf(<<a, i>>) \in Int
      BY <3>1
    <3>3. (booked[<<a, i>>] + 1) * AmountOf(<<a, i>>) =
            booked[<<a, i>>] * AmountOf(<<a, i>>) + AmountOf(<<a, i>>)
      BY <3>1
    <3>4. booked'[<<a, i>>] = booked[<<a, i>>] + IF <<a, i>> \in done THEN 1 ELSE 0
      BY <1>1, <2>1
    <3>5. Charges(a)[i] = booked[<<a, i>>] * AmountOf(<<a, i>>)
          /\ Charges(a)'[i] = booked'[<<a, i>>] * AmountOf(<<a, i>>)
      BY <2>1 DEF Charges, Months
    <3>6. CASE <<a, i>> \in done
      BY <3>1, <3>2, <3>3, <3>4, <3>5, <3>6 DEF Months
    <3>7. CASE <<a, i>> \notin done
      BY <3>1, <3>2, <3>4, <3>5, <3>7 DEF Months
    <3> QED BY <3>6, <3>7
  <2>2. CASE <<a, i>> \notin Rows
    BY <1>2, <2>2 DEF Charges, Months
  <2> QED BY <2>1, <2>2
<1>6. ReserveOK'
  <2> SUFFICES ASSUME NEW a \in Assets
               PROVE  reserve'[a] = SumFunctionOnSet(Charges(a)', Months)
    BY DEF ReserveOK
  <2> DEFINE c == [j \in Months |-> IF <<a, j>> \in done THEN AmountOf(<<a, j>>) ELSE 0]
  <2>1. \A i \in Months : /\ Charges(a)[i] \in Int /\ c[i] \in Int
                                /\ Charges(a)'[i] = Charges(a)[i] + c[i]
    BY <1>5
  <2>2. reserve'[a] = reserve[a] + SumFunctionOnSet(c, Months)
    BY <1>1
  <2>3. reserve[a] = SumFunctionOnSet(Charges(a), Months)
    BY DEF DepreciationInv, ReserveOK
  <2> HIDE DEF c
  <2>4. SumFunctionOnSet(Charges(a)', Months) = SumFunctionOnSet(Charges(a), Months) + SumFunctionOnSet(c, Months)
    BY <2>1, MonthsAreFinite, SumAdd
  <2> QED BY <2>2, <2>3, <2>4
<1>7. DepreciationTypeOK'
  <2>1. \A a \in Assets : reserve'[a] \in Int
    <3> TAKE a \in Assets
    <3> DEFINE c == [j \in Months |-> IF <<a, j>> \in done THEN AmountOf(<<a, j>>) ELSE 0]
    <3>1. \A i \in Months : c[i] \in Int
      BY <1>5
    <3>2. reserve'[a] = reserve[a] + SumFunctionOnSet(c, Months)
      BY <1>1
    <3> HIDE DEF c
    <3>3. SumFunctionOnSet(c, Months) \in Int
      BY <3>1, MonthsAreFinite, SumType
    <3> QED BY <1>2, <3>2, <3>3
  <2>2. reserve' \in [Assets -> Int]
    BY <1>1, <2>1
  <2>3. booked' \in [Rows -> Nat]
    BY <1>1, <1>2
  <2>4. job' \in [DepreciationRuns -> [pc : {"idle", "check", "book", "commit"},
                     list : SUBSET Rows, done : SUBSET Rows, locked : BOOLEAN]]
    BY <1>1, IdleFacts DEF DepreciationInv, DepreciationTypeOK
  <2> QED BY <1>1, <2>2, <2>3, <2>4 DEF DepreciationInv, DepreciationTypeOK
<1>8. RowsOK'
  <2>1. \A r \in Rows : booked'[r] > 0 <=> booked[r] > 0 \/ r \in done
    BY <1>1, <1>2
  <2> QED BY <1>1, <1>3, <2>1 DEF DepreciationInv, RowsOK, Before
<1>9. ASSUME NEW t \in DepreciationRuns PROVE RunOK(t)'
  <2>1. CASE t = s
    BY <1>4, <2>1, IdleFacts DEF RunOK
  <2>2. CASE t # s
    BY <1>1, <1>4, <2>2 DEF DepreciationInv, RunOK
  <2> QED BY <2>1, <2>2
<1>10. RepeatsOK'
  <2> SUFFICES ASSUME NEW r \in Rows
               PROVE  booked'[r] + Cardinality(Readers(r)') <= Cardinality(DepreciationRuns)
    BY DEF RepeatsOK
  <2>1. Readers(r)' = Readers(r) \ {s}
    BY <1>4 DEF Readers
  <2>2. IsFiniteSet(Readers(r))
    BY DepreciationAssumption, FS_Subset DEF Readers
  <2>3. /\ Cardinality(Readers(r)) \in Nat /\ Cardinality(DepreciationRuns) \in Nat
        /\ booked[r] \in Nat
        /\ booked[r] + Cardinality(Readers(r)) <= Cardinality(DepreciationRuns)
    BY <1>2, <2>2, DepreciationAssumption, FS_CardinalityType DEF DepreciationInv, RepeatsOK
  <2>4. Cardinality(Readers(r)') =
          IF s \in Readers(r) THEN Cardinality(Readers(r)) - 1 ELSE Cardinality(Readers(r))
    BY <2>1, <2>2, FS_RemoveElement
  <2>5. r \in done <=> s \in Readers(r)
    BY <1>2 DEF Readers
  <2>6. booked'[r] = booked[r] + IF r \in done THEN 1 ELSE 0
    BY <1>1
  <2> QED BY <2>3, <2>4, <2>5, <2>6
<1> QED BY <1>6, <1>7, <1>8, <1>9, <1>10 DEF DepreciationInv

-----------------------------------------------------------------------------
\* The invariant is inductive.
LEMMA DepreciationStep == DepreciationInv /\ [NextDepreciation]_depreciationVars => DepreciationInv'
<1> SUFFICES ASSUME DepreciationInv, [NextDepreciation]_depreciationVars PROVE DepreciationInv'
  OBVIOUS
<1>1. ASSUME NEW m \in Closing, SetPeriod(m) PROVE DepreciationInv'
  BY <1>1 DEF SetPeriod, DepreciationInv, DepreciationTypeOK, RowsOK, RepeatsOK, Readers, Read,
              ReserveOK, Charges, RunOK
<1>2. CASE UNCHANGED depreciationVars
  BY <1>2 DEF depreciationVars, DepreciationInv, DepreciationTypeOK, RowsOK, RepeatsOK, Readers, Read,
              ReserveOK, Charges, RunOK
<1>3. ASSUME NEW s \in DepreciationRuns, AbortJob(s) PROVE DepreciationInv'
  BY <1>3, IdleStep DEF AbortJob
<1> QED BY <1>1, <1>2, <1>3, EnterAssetStep, BeginRunStep, CheckRowStep, BookRowStep,
           CommitStep DEF NextDepreciation

\* Schedules, runs and the reserve stay consistent with each other in every
\* reachable state.
THEOREM DepreciationInvariant == DepreciationSpec => []DepreciationInv
<1>1. InitDepreciation => DepreciationInv
  BY DepreciationInit
<1>2. DepreciationInv /\ [NextDepreciation]_depreciationVars => DepreciationInv'
  BY DepreciationStep
<1> QED BY <1>1, <1>2, PTL DEF DepreciationSpec

\* No month is skipped: the booked months of an asset are its first ones, and
\* those that are no longer pending.
THEOREM SchedulesAreBookedInOrder == DepreciationSpec => []BookedWithoutGaps
<1>1. DepreciationInv => BookedWithoutGaps
  <2> SUFFICES ASSUME DepreciationInv, NEW a \in entered, NEW i \in 1..Asset[a].life
               PROVE  /\ i \in BookedMonths(a) <=> <<a, i>> \notin pending
                      /\ i \in BookedMonths(a) => \A j \in 1..Asset[a].life : j < i => j \in BookedMonths(a)
    BY DEF BookedWithoutGaps, BookedMonths
  <2>1. a \in Assets
    BY DEF DepreciationInv, DepreciationTypeOK
  <2>2. \A j \in 1..Asset[a].life : <<a, j>> \in Rows
    <3>1. Asset[a].life \in 1..LastMonth /\ LastMonth \in Nat
      BY <2>1, RowFacts, DepreciationAssumption DEF Months
    <3> QED BY <2>1, <3>1, RowFacts DEF Months
  <2>3. \A j \in 1..Asset[a].life : j \in BookedMonths(a) <=> <<a, j>> \notin pending
    BY <2>2 DEF BookedMonths, DepreciationInv, RowsOK
  <2>4. \A j \in 1..Asset[a].life :
          j < i /\ <<a, i>> \notin pending => <<a, j>> \notin pending
    BY <2>2 DEF DepreciationInv, RowsOK, Before
  <2> QED BY <2>3, <2>4
<1> QED BY <1>1, DepreciationInvariant, PTL

\* A schedule row is booked at most once for each run that may be under way.
THEOREM RepeatsAreBounded == DepreciationSpec => []RepeatsAreRaces
<1>1. DepreciationInv => RepeatsAreRaces
  <2> SUFFICES ASSUME DepreciationInv, NEW r \in Rows
               PROVE  booked[r] <= Cardinality(DepreciationRuns)
    BY DEF RepeatsAreRaces
  <2>1. IsFiniteSet(Readers(r))
    BY DepreciationAssumption, FS_Subset DEF Readers
  <2>2. /\ Cardinality(Readers(r)) \in Nat /\ Cardinality(DepreciationRuns) \in Nat
        /\ booked[r] \in Nat
    BY <2>1, DepreciationAssumption, FS_CardinalityType DEF DepreciationInv, DepreciationTypeOK
  <2> QED BY <2>2 DEF DepreciationInv, RepeatsOK
<1> QED BY <1>1, DepreciationInvariant, PTL

\* A used-up schedule has charged the depreciable amount to the cent, and once
\* more what was booked twice.
THEOREM AssetsAreFullyDepreciated == DepreciationSpec => []FullyDepreciated
<1>1. DepreciationInv => FullyDepreciated
  <2> SUFFICES ASSUME DepreciationInv, NEW a \in entered
               PROVE  reserve[a] = Asset[a].amount
                        + SumFunctionOnSet([i \in Months |-> IF <<a, i>> \in Rows
                                  THEN (booked[<<a, i>>] - 1) * AmountOf(<<a, i>>) ELSE 0],
                                Months)
    BY DEF FullyDepreciated
  <2> DEFINE once == [i \in Months |-> IF <<a, i>> \in Rows THEN AmountOf(<<a, i>>) ELSE 0]
             again == [i \in Months |-> IF <<a, i>> \in Rows
                         THEN (booked[<<a, i>>] - 1) * AmountOf(<<a, i>>) ELSE 0]
  <2>1. a \in Assets /\ booked \in [Rows -> Nat]
    BY DEF DepreciationInv, DepreciationTypeOK
  <2>2. ASSUME NEW i \in Months
        PROVE  /\ once[i] \in Int /\ again[i] \in Int
               /\ Charges(a)[i] = once[i] + again[i]
    <3>1. CASE <<a, i>> \in Rows
      <4>1. AmountOf(<<a, i>>) \in Int /\ booked[<<a, i>>] \in Nat
        BY <2>1, <3>1, RowFacts
      <4>2. /\ (booked[<<a, i>>] - 1) * AmountOf(<<a, i>>) \in Int
            /\ booked[<<a, i>>] * AmountOf(<<a, i>>) =
                 AmountOf(<<a, i>>) + (booked[<<a, i>>] - 1) * AmountOf(<<a, i>>)
        BY <4>1
      <4> QED BY <3>1, <4>1, <4>2 DEF Charges, Months
    <3>2. CASE <<a, i>> \notin Rows
      BY <3>2 DEF Charges, Months
    <3> QED BY <3>1, <3>2
  <2>3. SumFunctionOnSet(once, Months) = Asset[a].amount
    BY <2>1, ScheduleTotal
  <2> HIDE DEF once, again
  <2>4. SumFunctionOnSet(Charges(a), Months) = SumFunctionOnSet(once, Months) + SumFunctionOnSet(again, Months)
    BY <2>2, MonthsAreFinite, SumAdd
  <2>5. reserve[a] = SumFunctionOnSet(Charges(a), Months)
    BY <2>1 DEF DepreciationInv, ReserveOK
  <2> QED BY <2>3, <2>4, <2>5 DEF again
<1> QED BY <1>1, DepreciationInvariant, PTL
=============================================================================
