---------------------------- MODULE MCAuditTrail ----------------------------
(* The user that signs up, whose row updates of either of two fields can change, *)
(* two tax codes that want one code, and a grant that can be revoked.            *)
EXTENDS AuditTrail, TLC

CONSTANTS user, grant, code1, code2

MCEntities == {user, grant, code1, code2}
MCKind == [e \in Entities |-> CASE e = user -> "user"
                                [] e = grant -> "companyAccess"
                                [] OTHER -> "taxCode"]
MCKey == [e \in Entities |-> "key"]
MCRequests == {[f \in {g} |-> 1] : g \in Fields}
Alike == Permutations(Sessions) \cup Permutations({code1, code2}) \cup Permutations(Fields)
=============================================================================
