------------------------------ MODULE MCTenancy ------------------------------
(* One slug that two sign-ups ask for, an owner and a second user, one role of  *)
(* the tenant's own that may get the right to open years, and one company.      *)
EXTENDS Tenancy, TLC

\* Whatever only the Owner may do is one code.
MCRequires == [route \in Routes |-> IF route = "years" THEN "years" ELSE "kernel"]
Alike == Permutations(Sessions) \cup Permutations(Emails)
=============================================================================
