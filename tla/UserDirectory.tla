--------------------------- MODULE UserDirectory ---------------------------
(***************************************************************************)
(* What the user table promises to the rest of the system: a set of rows   *)
(* that only grows, one row at a time, and never holds two rows that clash *)
(* on a unique key.  models.User declares two such keys: the username, and *)
(* the pair (role, department).  The second one is named                   *)
(* uq_one_hod_per_department but binds every role.                         *)
(*                                                                         *)
(* Registration implements this specification; FileTransfer uses it for    *)
(* the rows its routing reads.                                             *)
(***************************************************************************)
CONSTANTS
    Names,      \* usernames as stored (stripped, lower case)
    Roles,      \* members of UserRole
    Depts,      \* departments as stored (stripped, upper case)
    HOD         \* the role UserRole.HOD

VARIABLE users  \* the committed rows of the table "users"

(***************************************************************************)
(* A row.  The password hash and the key pair of the row play no part in   *)
(* any property here.                                                      *)
(***************************************************************************)
User == [name : Names, role : Roles, dept : Depts]

NameTaken(n) == \E u \in users : u.name = n

RoleTaken(r, d) == \E u \in users : u.role = r /\ u.dept = d

\* The violation that makes an INSERT raise IntegrityError.
Clash(row) == NameTaken(row.name) \/ RoleTaken(row.role, row.dept)

DirectoryInit == users = {}

Add(row) ==
    /\ ~ Clash(row)
    /\ users' = users \cup {row}

DirectoryNext == \E row \in User : Add(row)

DirectorySpec == DirectoryInit /\ [][DirectoryNext]_users

-----------------------------------------------------------------------------

\* What the second constraint is named for (models.py:136): a department has
\* at most one Head of Department.
OneHodPerDepartment ==
    \A u, v \in users : u.role = HOD /\ v.role = HOD /\ u.dept = v.dept => u = v

=============================================================================
