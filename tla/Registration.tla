---------------------------- MODULE Registration ----------------------------
(***************************************************************************)
(* POST /auth/register (routers/auth.py, register_user).                   *)
(*                                                                         *)
(* The handler is a plain "def", so FastAPI runs every request in a thread *)
(* of its pool and the requests interleave between any two statements that *)
(* touch the database: the check for the username, the check for an        *)
(* existing HOD, the (slow) hashing and key generation, the INSERT with    *)
(* its COMMIT, and the refresh after it.  Each statement sees the rows     *)
(* committed so far.  Only the unique constraints of models.User keep two  *)
(* requests that passed the same checks from both inserting.               *)
(***************************************************************************)
CONSTANTS
    Requests,   \* the threads that can be serving a registration
    Names, Roles, Depts, HOD,
    RawNames,   \* usernames as typed
    RawDepts,   \* departments as typed
    NormName,   \* UserCreate.normalize_username, on RawNames
    NormDept,   \* UserCreate.normalize_department, on RawDepts
    NoRow       \* no row: the thread has not served a request yet

ASSUME NormalisersMapIntoStoredForms ==
    /\ NormName \in [RawNames -> Names]
    /\ NormDept \in [RawDepts -> Depts]

VARIABLES
    users,      \* committed rows of the table "users"
    pc,         \* where the thread of each request stands
    payload,    \* the row each request would insert
    response    \* the status each request answered with

vars == <<users, pc, payload, response>>

Directory == INSTANCE UserDirectory

-----------------------------------------------------------------------------

\* The forms a client can post.
Form == [name : RawNames, role : Roles, dept : RawDepts]

\* Slip: the validators of UserCreate are gone.
NormalisedNot(f) == f

\* The validators of UserCreate: the model the handler receives is normalised.
Normalised(f) ==
    [name |-> NormName[f.name], role |-> f.role, dept |-> NormDept[f.dept]]

Stages == {"idle", "check_username", "check_hod", "generate_keys",
           "insert", "refresh", "answered"}

\* "201" created, "409" username already registered, "400" the department has
\* an HOD, "500" key generation failed or an exception no handler expects.
Statuses == {"none", "201", "400", "409", "500"}

Init ==
    /\ users = {}
    /\ pc = [r \in Requests |-> "idle"]
    /\ payload = [r \in Requests |-> NoRow]
    /\ response = [r \in Requests |-> "none"]

Goto(r, stage) == pc' = [pc EXCEPT ![r] = stage]

Answer(r, status) ==
    /\ Goto(r, "answered")
    /\ response' = [response EXCEPT ![r] = status]

-----------------------------------------------------------------------------

\* A request reaches the handler with a form that passed validation.
Submit(r) ==
    /\ pc[r] \in {"idle", "answered"}
    /\ \E f \in Form : payload' = [payload EXCEPT ![r] = Normalised(f)]
    /\ response' = [response EXCEPT ![r] = "none"]
    /\ Goto(r, "check_username")
    /\ UNCHANGED users

CheckUsername(r) ==
    /\ pc[r] = "check_username"
    /\ \/ /\ Directory!NameTaken(payload[r].name)
          /\ Answer(r, "409")
       \/ /\ ~ Directory!NameTaken(payload[r].name)
          /\ Goto(r, IF payload[r].role = HOD THEN "check_hod" ELSE "generate_keys")
          /\ UNCHANGED response
    /\ UNCHANGED <<users, payload>>

\* Slip: any HOD will do, whatever his department.
CheckHodAnywhere(r) ==
    /\ pc[r] = "check_hod"
    /\ \/ /\ \E u \in users : u.role = HOD
          /\ Answer(r, "400")
       \/ /\ ~ \E u \in users : u.role = HOD
          /\ Goto(r, "generate_keys")
          /\ UNCHANGED response
    /\ UNCHANGED <<users, payload>>

CheckHod(r) ==
    /\ pc[r] = "check_hod"
    /\ \/ /\ Directory!RoleTaken(HOD, payload[r].dept)
          /\ Answer(r, "400")
       \/ /\ ~ Directory!RoleTaken(HOD, payload[r].dept)
          /\ Goto(r, "generate_keys")
          /\ UNCHANGED response
    /\ UNCHANGED <<users, payload>>

\* hash_password, then generate_rsa_keys, which can raise.
GenerateKeys(r) ==
    /\ pc[r] = "generate_keys"
    /\ \/ Goto(r, "insert") /\ UNCHANGED response
       \/ Answer(r, "500")
    /\ UNCHANGED <<users, payload>>

\* Slip: the table lost its second unique constraint.
InsertUnconstrained(r) ==
    /\ pc[r] = "insert"
    /\ \/ /\ Directory!NameTaken(payload[r].name)
          /\ Answer(r, "409")
          /\ UNCHANGED users
       \/ /\ ~ Directory!NameTaken(payload[r].name)
          /\ users' = users \cup {payload[r]}
          /\ Goto(r, "refresh")
          /\ UNCHANGED response
    /\ UNCHANGED payload

\* Slip: db.merge, which overwrites the row of the same name.
InsertMerging(r) ==
    /\ pc[r] = "insert"
    /\ users' = {u \in users : u.name # payload[r].name} \cup {payload[r]}
    /\ Goto(r, "refresh")
    /\ UNCHANGED <<payload, response>>

\* Slip: the IntegrityError is caught and forgotten.
InsertForgiving(r) ==
    /\ pc[r] = "insert"
    /\ \/ Directory!Clash(payload[r]) /\ UNCHANGED users
       \/ Directory!Add(payload[r])
    /\ Goto(r, "refresh")
    /\ UNCHANGED <<payload, response>>

\* Slip: the INSERT is retried until it succeeds.
InsertRetrying(r) ==
    /\ pc[r] = "insert"
    /\ Directory!Add(payload[r])
    /\ Goto(r, "refresh")
    /\ UNCHANGED <<payload, response>>

\* db.add and db.commit.  A clash on either unique key is an IntegrityError and
\* answers 409; any other database error is not caught here, the session is
\* closed without a commit and the request answers 500.
Insert(r) ==
    /\ pc[r] = "insert"
    /\ \/ /\ Directory!Clash(payload[r])
          /\ Answer(r, "409")
          /\ UNCHANGED users
       \/ /\ Directory!Add(payload[r])
          /\ Goto(r, "refresh")
          /\ UNCHANGED response
       \/ /\ Answer(r, "500")
          /\ UNCHANGED users
    /\ UNCHANGED payload

\* db.refresh re-reads a row that is already committed; when it raises, the
\* request answers 500 and the user exists.
Refresh(r) ==
    /\ pc[r] = "refresh"
    /\ \/ Answer(r, "201")
       \/ Answer(r, "500")
    /\ UNCHANGED <<users, payload>>

\* The server process stops and starts again: its threads are gone, the
\* committed rows are not.
Restart ==
    /\ pc' = [r \in Requests |-> "idle"]
    /\ payload' = [r \in Requests |-> NoRow]
    /\ response' = [r \in Requests |-> "none"]
    /\ UNCHANGED users

Step(r) ==
    \/ CheckUsername(r)
    \/ CheckHod(r)
    \/ GenerateKeys(r)
    \/ Insert(r)
    \/ Refresh(r)

Next ==
    \/ \E r \in Requests : Submit(r) \/ Step(r)
    \/ Restart

Spec == Init /\ [][Next]_vars

\* A pool thread that has started a handler keeps running it.
FairSpec == Spec /\ \A r \in Requests : WF_vars(Step(r))

-----------------------------------------------------------------------------

\* Types of the variables.
TypeOK ==
    /\ users \subseteq Directory!User
    /\ pc \in [Requests -> Stages]
    /\ payload \in [Requests -> Directory!User \cup {NoRow}]
    /\ response \in [Requests -> Statuses]
    /\ \A r \in Requests : pc[r] # "idle" => payload[r] \in Directory!User

\* Whatever two registrations race past check_hod, the table never holds two
\* HODs of one department (auth.py:91-103 backed by models.py:136).
OneHodPerDepartment == Directory!OneHodPerDepartment

\* A 201 is the truth about the caller's own form, and no two requests are both
\* told they created the same account (auth.py:125-133).
CreatedRequests == {r \in Requests : response[r] = "201"}

CreatedMeansStored ==
    /\ \A r \in CreatedRequests : payload[r] \in users
    /\ \A r, s \in CreatedRequests : payload[r].name = payload[s].name => r = s

\* A refusal is the truth as well: behind every 409 and every 400 there is a
\* committed row that the caller's row clashes with (auth.py:88-103, 134-137).
RefusalHasCause ==
    \A r \in Requests :
        /\ response[r] = "409" => Directory!Clash(payload[r])
        /\ response[r] = "400" =>
               payload[r].role = HOD /\ Directory!RoleTaken(HOD, payload[r].dept)

\* The table implements the directory: concurrent registrations look to every
\* reader like rows added one at a time, none changed or removed.
ImplementsDirectory == Directory!DirectorySpec

\* Every registration is answered, or lost to a restart.
EveryRequestEnds ==
    \A r \in Requests : pc[r] = "check_username" ~> pc[r] \in {"answered", "idle"}

=============================================================================
