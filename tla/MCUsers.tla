------------------------------- MODULE MCUsers -------------------------------
(***************************************************************************)
(* Small instances of Users: who may do what at the same time, and the     *)
(* users tables that the server finds.                                     *)
(***************************************************************************)
EXTENDS Users

CONSTANTS ann, bob,     \* users
          p1, p2,       \* requests
          old, young    \* passwords

Both == {p1, p2}
AdminAccount == [password |-> old, role |-> "admin"]
Reader == [password |-> old, role |-> "read-only"]

EmptyTable == [n \in Names |-> None]
AnnAdmin == [EmptyTable EXCEPT ![ann] = AdminAccount]
AnnAdminBobReader == [AnnAdmin EXCEPT ![bob] = Reader]
TwoAdmins == [AnnAdmin EXCEPT ![bob] = AdminAccount]

Fresh == {EmptyTable}
Used == {EmptyTable, AnnAdmin, AnnAdminBobReader, TwoAdmins}
Admins2 == {TwoAdmins}
WithReader == {AnnAdminBobReader}

SeedAnn == {[name |-> ann, password |-> old]}

\* One request at a time.
Everything == [p \in Procs |-> AllOps]
\* Deletes come one after the other; all the other requests come at the same
\* time as they do and as each other.
OneDeleter == [p \in Procs |-> IF p = p1 THEN AllOps
                                         ELSE AllOps \ {"delete"}]
Deletes == [p \in Procs |-> {"delete", "login"}]
Passwords2 == [p \in Procs |-> IF p = p1 THEN {"reset", "login"}
                                         ELSE {"change", "login"}]
ResetDelete == [p \in Procs |-> IF p = p1 THEN {"reset", "login"}
                                          ELSE {"delete", "login"}]

=============================================================================
