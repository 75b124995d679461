------------------------------- MODULE MCAccess -------------------------------
(* Instances of Access for TLC.                                           *)
EXTENDS Access, TLC

CONSTANTS ada, bob, cyd, hr, r1, r2

MCUsers == {ada, bob, cyd}

Account(role) == [role |-> role, active |-> TRUE]

\* An installation with no accounts; and one with two administrators, one of
\* them an editor of the department, and a member who owns it.
MCStartStates ==
  { [users |-> [u \in MCUsers |-> NoRow],
     depts |-> [d \in {hr} |-> "absent"],
     level |-> [u \in MCUsers |-> [d \in {hr} |-> "none"]]],
    [users |-> (ada :> Account("admin") @@ bob :> Account("admin")
                  @@ cyd :> Account("member")),
     depts |-> [d \in {hr} |-> "active"],
     level |-> (ada :> [d \in {hr} |-> "none"] @@ bob :> [d \in {hr} |-> "editor"]
                  @@ cyd :> [d \in {hr} |-> "owner"])] }

Symmetry == Permutations({r1, r2})
=============================================================================
