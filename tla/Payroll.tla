------------------------------ MODULE Payroll -------------------------------
(***************************************************************************)
(* Payroll: effective-dated salary structures, the runs that turn them     *)
(* into payslips, and the one journal entry a run books.                   *)
(*                                                                         *)
(* create is one READ COMMITTED transaction that reads the active          *)
(* employees and then, employee by employee, the structure in force at the *)
(* period's end, while structures go on being entered.  approve and post   *)
(* check the status they read and write the next one later, unconditioned. *)
(* Structures are only ever inserted, so a payslip is the structure its    *)
(* amounts were taken from.  Numbering and periods are module Ledger's.    *)
(***************************************************************************)
EXTENDS Integers, FiniteSets, FiniteSetsExt

CONSTANTS
  Sessions,    \* payroll requests that may run at the same time
  Employees,   \* employees of the company
  Structures,  \* salary structures the users may enter
  Structure,   \* their employee, first day in force, gross pay and deductions
  Runs,        \* payroll runs the users may create
  PeriodEnd,   \* the last day of their periods
  Journals,    \* what manual journals do to the payroll accounts
  MaxPostings, \* bound: requests to post one run that are tried
  MaxUndone,   \* bound: entries of one run that are reversed at a time
  MaxManual    \* bound: what manual journals add to an account, either way

NoSlip == "none"
PayrollAccounts == {"SALARY_EXPENSE", "SALARY_PAYABLE", "STATUTORY_PAYABLE"}

ASSUME PayrollAssumption ==
  /\ IsFiniteSet(Employees) /\ IsFiniteSet(Structures) /\ IsFiniteSet(Runs)
  /\ IsFiniteSet(Sessions) /\ {MaxPostings, MaxUndone, MaxManual} \subseteq Nat
  /\ Journals \subseteq [PayrollAccounts -> Int]
  /\ Structure \in [Structures -> [employee : Employees, from : Nat,
                                   gross : Nat, deductions : Nat]]
  /\ PeriodEnd \in [Runs -> Nat]
  /\ NoSlip \notin Structures /\ "none" \notin Runs

VARIABLES
  active,      \* employees with status active
  structures,  \* salary_structures
  run,         \* payroll_runs with their payslips and totals
  began,       \* history: employees asked for and structures there at create
  posted,      \* journal entries booked for each run
  undone,      \* number of these that are reversed
  balance,     \* debit - credit of the three accounts of PAYROLL_RUN_POSTED
  manual,      \* the part of it that manual journals have added
  sess,        \* the transaction of each session
  raced        \* history: runs whose approve and post requests have overlapped

vars == <<active, structures, run, began, posted, undone, balance, manual, sess, raced>>

NoSlips == [e \in Employees |-> NoSlip]
NoTotals == [gross |-> 0, deductions |-> 0, net |-> 0]
NoRun == [status |-> "absent", slips |-> NoSlips, totals |-> NoTotals]
Nothing == [employees |-> {}, structures |-> {}]
Idle == [op |-> "none", run |-> "none", todo |-> {}, slips |-> NoSlips,
         totals |-> NoTotals, began |-> Nothing]

-----------------------------------------------------------------------------
(***************************************************************************)
(* The structure of an employee in force on a day: the latest one, any of  *)
(* them when two start on the same day.                                    *)
(***************************************************************************)
InForce(e, day) ==
  {x \in structures : Structure[x].employee = e /\ Structure[x].from <= day}

\* Mutant of Latest: the first structure instead of the last one.
MutantFirst(e, day) ==
  {x \in InForce(e, day) : \A y \in InForce(e, day) : Structure[x].from <= Structure[y].from}

Latest(e, day) ==
  {x \in InForce(e, day) : \A y \in InForce(e, day) : Structure[y].from <= Structure[x].from}

\* Mutant of Added: the net total takes no account of the deductions.
MutantGrossOnly(t, x) ==
  [gross |-> t.gross + Structure[x].gross,
   deductions |-> t.deductions + Structure[x].deductions,
   net |-> t.net + Structure[x].gross]

\* The run's totals with one more payslip.
Added(t, x) ==
  [gross |-> t.gross + Structure[x].gross,
   deductions |-> t.deductions + Structure[x].deductions,
   net |-> t.net + Structure[x].gross - Structure[x].deductions]

-----------------------------------------------------------------------------
Init ==
  /\ active = Employees
  /\ structures = {}
  /\ run = [r \in Runs |-> NoRun]
  /\ began = [r \in Runs |-> Nothing]
  /\ posted = [r \in Runs |-> 0]
  /\ undone = [r \in Runs |-> 0]
  /\ balance = [a \in PayrollAccounts |-> 0]
  /\ manual = [a \in PayrollAccounts |-> 0]
  /\ sess = [s \in Sessions |-> Idle]
  /\ raced = {}

\* SalaryStructuresService.create
CreateStructure(x) ==
  /\ x \notin structures
  /\ structures' = structures \cup {x}
  /\ UNCHANGED <<active, run, began, posted, undone, balance, manual, sess, raced>>

\* EmployeesService.update of the status
SetActive(e) ==
  /\ active' = IF e \in active THEN active \ {e} ELSE active \cup {e}
  /\ UNCHANGED <<structures, run, began, posted, undone, balance, manual, sess, raced>>

Become(s, t) == /\ sess' = [sess EXCEPT ![s] = t]
                /\ UNCHANGED <<active, structures, run, began, posted, undone, balance, manual, raced>>

WorkingOn(r) == {s \in Sessions : sess[s].run = r}

\* A request that checks the status of a run and will write it later
Transition(s, op, r) ==
  /\ sess' = [sess EXCEPT ![s] = [Idle EXCEPT !.op = op, !.run = r]]
  /\ raced' = IF WorkingOn(r) # {} THEN raced \cup {r} ELSE raced
  /\ UNCHANGED <<active, structures, run, began, posted, undone, balance, manual>>

\* PayrollRunsService.create: the active ones of the employees asked for (all
\* of them when the request names none)
BeginCreate(s, r, asked) ==
  /\ sess[s] = Idle
  /\ run[r].status = "absent" /\ WorkingOn(r) = {}
  /\ active \cap asked # {}
  /\ Become(s, [Idle EXCEPT !.op = "create", !.run = r, !.todo = active \cap asked,
                  !.began = [employees |-> active \cap asked, structures |-> structures]])

\* The next employee's structure; who has none yet gets no payslip.
ReadStructure(s) ==
  /\ sess[s].op = "create"
  /\ \E e \in sess[s].todo :
       LET found == Latest(e, PeriodEnd[sess[s].run]) IN
       \/ /\ found = {}
          /\ Become(s, [sess[s] EXCEPT !.todo = @ \ {e}])
       \/ \E x \in found :
            Become(s, [sess[s] EXCEPT !.todo = @ \ {e}, !.slips[e] = x,
                                      !.totals = Added(@, x)])

CommitCreate(s) ==
  /\ sess[s].op = "create" /\ sess[s].todo = {}
  /\ sess[s].slips # NoSlips
  /\ run' = [run EXCEPT ![sess[s].run] =
       [status |-> "draft", slips |-> sess[s].slips, totals |-> sess[s].totals]]
  /\ began' = [began EXCEPT ![sess[s].run] = sess[s].began]
  /\ sess' = [sess EXCEPT ![s] = Idle]
  /\ UNCHANGED <<active, structures, posted, undone, balance, manual, raced>>

\* approve and post: the read that checks the status
BeginApprove(s, r) ==
  /\ sess[s] = Idle
  /\ run[r].status = "draft"
  /\ Transition(s, "approve", r)

\* Mutant of Postable: a run that is posted may be posted again.
MutantPosted(status) == status \in {"approved", "posted"}
Postable(status) == status = "approved"

BeginPost(s, r) ==
  /\ sess[s] = Idle
  /\ Postable(run[r].status)
  /\ posted[r] + Cardinality(WorkingOn(r)) < MaxPostings
  /\ Transition(s, "post", r)

CommitApprove(s) ==
  /\ sess[s].op = "approve"
  /\ run' = [run EXCEPT ![sess[s].run].status = "approved"]
  /\ sess' = [sess EXCEPT ![s] = Idle]
  /\ UNCHANGED <<active, structures, began, posted, undone, balance, manual, raced>>

\* The engine's entry by PAYROLL_RUN_POSTED, for the run's totals, or, n = -1,
\* its reversal
Book(t, n) ==
  balance' = [balance EXCEPT !["SALARY_EXPENSE"] = @ + n * t.gross,
                             !["SALARY_PAYABLE"] = @ - n * t.net,
                             !["STATUTORY_PAYABLE"] = @ - n * t.deductions]

CommitPost(s) ==
  /\ sess[s].op = "post"
  /\ Book(run[sess[s].run].totals, 1)
  /\ posted' = [posted EXCEPT ![sess[s].run] = @ + 1]
  /\ run' = [run EXCEPT ![sess[s].run].status = "posted"]
  /\ sess' = [sess EXCEPT ![s] = Idle]
  /\ UNCHANGED <<active, structures, began, undone, manual, raced>>

\* JournalEntriesService.reverse takes a payroll entry like any other, and the
\* reversing entry is posted and can be reversed too; the run stays posted.
ReverseEntry(r) ==
  /\ undone[r] < posted[r] /\ undone[r] < MaxUndone
  /\ Book(run[r].totals, -1)
  /\ undone' = [undone EXCEPT ![r] = @ + 1]
  /\ UNCHANGED <<active, structures, run, began, posted, manual, sess, raced>>

ReverseReversal(r) ==
  /\ undone[r] > 0
  /\ Book(run[r].totals, 1)
  /\ undone' = [undone EXCEPT ![r] = @ - 1]
  /\ UNCHANGED <<active, structures, run, began, posted, manual, sess, raced>>

\* A journal written by hand, which is also the only way to pay off what is owed
\* to the employees; n = -1 reverses one.
PostJournal(j, n) ==
  /\ \A a \in PayrollAccounts : manual[a] + n * j[a] \in -MaxManual..MaxManual
  /\ manual' = [a \in PayrollAccounts |-> manual[a] + n * j[a]]
  /\ balance' = [a \in PayrollAccounts |-> balance[a] + n * j[a]]
  /\ UNCHANGED <<active, structures, run, began, posted, undone, sess, raced>>

\* A run without payslips, a refusal of the engine, a rollback
Abort(s) ==
  /\ sess[s] # Idle
  /\ Become(s, Idle)

Next ==
  \/ \E x \in Structures : CreateStructure(x)
  \/ \E e \in Employees : SetActive(e)
  \/ \E r \in Runs : ReverseEntry(r) \/ ReverseReversal(r)
  \/ \E j \in Journals, n \in {1, -1} : PostJournal(j, n)
  \/ \E s \in Sessions :
       \/ \E r \in Runs, asked \in SUBSET Employees : BeginCreate(s, r, asked)
       \/ \E r \in Runs : BeginApprove(s, r) \/ BeginPost(s, r)
       \/ ReadStructure(s)
       \/ CommitCreate(s)
       \/ CommitApprove(s)
       \/ CommitPost(s)
       \/ Abort(s)

Spec == Init /\ [][Next]_vars

-----------------------------------------------------------------------------
(***************************************************************************)
(* Properties.                                                             *)
(***************************************************************************)
\* Structures entered while a run is being created may or may not count, but
\* none that was there before is missed: whoever was active and asked for and had
\* a structure in force when create began has a payslip, and no structure of then supersedes
\* the one the payslip was made from.
UpToDate(slips, employees, known, day) ==
  \A e \in employees, x \in known :
    (Structure[x].employee = e /\ Structure[x].from <= day) =>
      slips[e] # NoSlip /\ Structure[slips[e]].from >= Structure[x].from
PayslipsUpToDate ==
  \A r \in Runs : run[r].status # "absent" =>
    UpToDate(run[r].slips, began[r].employees, began[r].structures, PeriodEnd[r])

\* What the payslips add up to in a column of a run's totals, one payslip per
\* employee, and what the booked runs add up to, once per booking that is not
\* reversed.
Pay(slip) ==
  IF slip = NoSlip THEN NoTotals
  ELSE [gross |-> Structure[slip].gross, deductions |-> Structure[slip].deductions,
        net |-> Structure[slip].gross - Structure[slip].deductions]
SlipTotal(slips, column) ==
  SumFunctionOnSet([e \in Employees |-> Pay(slips[e])[column]], Employees)
Live(r) == posted[r] - undone[r]
BookedTotal(column) ==
  SumFunctionOnSet([r \in Runs |-> Live(r) * SlipTotal(run[r].slips, column)], Runs)

\* Without the manual journals the three payroll accounts always hold what the
\* payslips of the booked runs add up to, once per booking that is not reversed.
FromRuns(a) == balance[a] - manual[a]
LedgerMatchesPayslips ==
  /\ FromRuns("SALARY_EXPENSE") = BookedTotal("gross")
  /\ -FromRuns("SALARY_PAYABLE") = BookedTotal("net")
  /\ -FromRuns("STATUTORY_PAYABLE") = BookedTotal("deductions")

\* Nothing keeps two runs from covering one employee and period, and nothing locks a
\* run between the check of its status and the write.  Still a run is booked once,
\* and only when it says so, whatever is done to other runs at the time, unless two
\* requests to approve or post it overlapped.
BookedOncePerRun ==
  \A r \in Runs \ raced : posted[r] = IF run[r].status = "posted" THEN 1 ELSE 0

-----------------------------------------------------------------------------
(***************************************************************************)
(* The inductive invariant behind the first and the last of them.          *)
(***************************************************************************)
Slips == [Employees -> Structures \cup {NoSlip}]
RunTotals == [gross : Int, deductions : Int, net : Int]
Beginning == [employees : SUBSET Employees, structures : SUBSET Structures]
Run == [status : {"absent", "draft", "approved", "posted"}, slips : Slips, totals : RunTotals]
Request == [op : {"none", "create", "approve", "post"}, run : Runs \cup {"none"},
            todo : SUBSET Employees, slips : Slips, totals : RunTotals, began : Beginning]

\* Every column holds what its type allows.
TypeOK ==
  /\ active \subseteq Employees /\ structures \subseteq Structures /\ raced \subseteq Runs
  /\ run \in [Runs -> Run] /\ began \in [Runs -> Beginning]
  /\ posted \in [Runs -> Nat] /\ undone \in [Runs -> Nat]
  /\ \A r \in Runs : undone[r] <= posted[r]
  /\ balance \in [PayrollAccounts -> Int] /\ manual \in [PayrollAccounts -> Int]
  /\ sess \in [Sessions -> Request]

\* A create that is under way has payslips that are up to date for everyone it is
\* done with.
SlipsSoFar(s) ==
  sess[s].op = "create" =>
    /\ sess[s].run \in Runs /\ sess[s].began.structures \subseteq structures
    /\ UpToDate(sess[s].slips, sess[s].began.employees \ sess[s].todo,
                sess[s].began.structures, PeriodEnd[sess[s].run])

\* A run that is approved or posted is there, and the only request for a run finds
\* it as it was when the request began.
StatusAwaited == [create |-> "absent", approve |-> "draft", post |-> "approved"]
Undisturbed(s) ==
  /\ sess[s].op = "none" <=> sess[s].run = "none"
  /\ sess[s].op \in {"approve", "post"} => run[sess[s].run].status # "absent"
  /\ sess[s].run \in Runs \ raced =>
       /\ WorkingOn(sess[s].run) = {s}
       /\ run[sess[s].run].status = StatusAwaited[sess[s].op]

PayrollInv ==
  /\ TypeOK
  /\ \A s \in Sessions : SlipsSoFar(s) /\ Undisturbed(s)
  /\ PayslipsUpToDate
  /\ BookedOncePerRun

(***************************************************************************)
(* The inductive invariant behind LedgerMatchesPayslips: totals are kept   *)
(* beside the payslips and never recomputed, so they have to agree from    *)
(* the first payslip of a create on, which has its run to itself whatever  *)
(* else races.                                                             *)
(***************************************************************************)
TotalsAgree(totals, slips) == \A c \in {"gross", "deductions", "net"} : totals[c] = SlipTotal(slips, c)
Creating(s) ==
  sess[s].op = "create" =>
    /\ TotalsAgree(sess[s].totals, sess[s].slips)
    /\ \A e \in sess[s].todo : sess[s].slips[e] = NoSlip
    /\ run[sess[s].run].status = "absent" /\ WorkingOn(sess[s].run) = {s}

PayrollTotalsInv ==
  /\ \A r \in Runs : TotalsAgree(run[r].totals, run[r].slips)
  /\ \A r \in Runs : run[r].status = "absent" => posted[r] = 0
  /\ \A s \in Sessions : Creating(s)
  /\ LedgerMatchesPayslips
=============================================================================
