------------------------------- MODULE MCSite -------------------------------
(* A site with two administrators, who are the admins of its organization,  *)
(* and a repository of each kind; failed sign-ins have locked one name.      *)
EXTENDS Site, TLC

CONSTANTS a, b, d, e, org, x, Local, weights, s1, s2, h1, h2

MCNames == {a, b, d, e, org}
Row(name, made) == [name |-> name, role |-> "admin", disabled |-> FALSE, password |-> 1,
                    subject |-> Local, made |-> made]
MCUsers == <<Row(a, "setup"), Row(b, "admin")>>
MCOrgs == <<org>>
MCMembers == <<1, 1>> :> "admin" @@ <<1, 2>> :> "admin"
MCRepos == {[ns |-> org, slug |-> weights, owner |-> 2, org |-> 1],
            [ns |-> a, slug |-> weights, owner |-> 1, org |-> NoOrg]}
MCFailures == [n \in MCNames |-> IF n = b THEN MaxFailures ELSE 0]
MCSymmetry == Permutations(Handlers)
=============================================================================
