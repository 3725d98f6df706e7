----------------------------- MODULE MCPayroll ------------------------------
(* Two runs for the same period and two employees, of whom one gets a rise     *)
(* within the period and the other has no salary yet.                         *)
EXTENDS Payroll, TLC

Rate(employee, from, gross, deductions) ==
  [employee |-> employee, from |-> from, gross |-> gross, deductions |-> deductions]
MCStructure == [a1 |-> Rate("ann", 1, 5, 1), a2 |-> Rate("ann", 2, 7, 2)]
MCStructures == DOMAIN MCStructure
\* Salaries of 3 are paid out.
MCJournals == {[a \in PayrollAccounts |-> IF a = "SALARY_PAYABLE" THEN 3 ELSE 0]}
MCPeriodEnd == [r \in Runs |-> 2]
Alike == Permutations(Sessions) \cup Permutations(Runs)
=============================================================================
