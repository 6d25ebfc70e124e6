------------------------- MODULE RegistrationProofs -------------------------
(***************************************************************************)
(* Registration, for every set of requests, names, roles and departments:  *)
(* the table implements UserDirectory, which keeps its unique keys, and    *)
(* every answer is the truth about the table.                              *)
(***************************************************************************)
EXTENDS Registration, TLAPS

-----------------------------------------------------------------------------
(* Types                                                                   *)

LEMMA TypeInit == Init => TypeOK
  BY DEF Init, TypeOK, Stages, Statuses

LEMMA TypeStep == TypeOK /\ [Next]_vars => TypeOK'
  <1> SUFFICES ASSUME TypeOK, [Next]_vars PROVE TypeOK'
    OBVIOUS
  <1> USE NormalisersMapIntoStoredForms DEF TypeOK, Stages, Statuses, Goto, Answer
  <1>1. ASSUME NEW r \in Requests, Submit(r) PROVE TypeOK'
    <2>1. PICK f \in Form : payload' = [payload EXCEPT ![r] = Normalised(f)]
      BY <1>1 DEF Submit
    <2>2. Normalised(f) \in Directory!User
      BY DEF Normalised, Form, Directory!User
    <2> QED
      BY <1>1, <2>1, <2>2 DEF Submit
  <1>2. ASSUME NEW r \in Requests, CheckUsername(r) PROVE TypeOK'
    BY <1>2 DEF CheckUsername
  <1>3. ASSUME NEW r \in Requests, CheckHod(r) PROVE TypeOK'
    BY <1>3 DEF CheckHod
  <1>4. ASSUME NEW r \in Requests, GenerateKeys(r) PROVE TypeOK'
    BY <1>4 DEF GenerateKeys
  <1>5. ASSUME NEW r \in Requests, Insert(r) PROVE TypeOK'
    BY <1>5 DEF Insert, Directory!Add
  <1>6. ASSUME NEW r \in Requests, Refresh(r) PROVE TypeOK'
    BY <1>6 DEF Refresh
  <1>7. CASE Restart
    BY <1>7 DEF Restart
  <1>8. CASE UNCHANGED vars
    BY <1>8 DEF vars
  <1> QED
    BY <1>1, <1>2, <1>3, <1>4, <1>5, <1>6, <1>7, <1>8 DEF Next, Step

\* The variables keep their types (auth.py, register_user).
THEOREM TypeCorrect == Spec => []TypeOK
  <1>1. Init => TypeOK
    BY TypeInit
  <1>2. TypeOK /\ [Next]_vars => TypeOK'
    BY TypeStep
  <1> QED
    BY <1>1, <1>2, PTL DEF Spec

-----------------------------------------------------------------------------
(* The table                                                               *)

\* Only Insert changes the table, and it adds the caller's row.
LEMMA TableStep ==
    ASSUME TypeOK, [Next]_vars
    PROVE  \/ UNCHANGED users
           \/ \E r \in Requests :
                 /\ pc[r] = "insert" /\ payload[r] \in Directory!User
                 /\ Insert(r) /\ Directory!Add(payload[r])
  <1>1. ASSUME NEW r \in Requests, Insert(r)
        PROVE  UNCHANGED users \/ (pc[r] = "insert" /\ payload[r] \in Directory!User
                                   /\ Insert(r) /\ Directory!Add(payload[r]))
    BY <1>1 DEF Insert, TypeOK
  <1>2. ASSUME NEW r \in Requests,
               Submit(r) \/ CheckUsername(r) \/ CheckHod(r) \/ GenerateKeys(r)
                   \/ Refresh(r)
        PROVE  UNCHANGED users
    BY <1>2 DEF Submit, CheckUsername, CheckHod, GenerateKeys, Refresh
  <1>3. Restart \/ UNCHANGED vars => UNCHANGED users
    BY DEF Restart, vars
  <1> QED
    BY <1>1, <1>2, <1>3 DEF Next, Step

\* The table implements the directory: concurrent registrations look like rows
\* added one at a time, none changed or removed (auth.py:115-137).
THEOREM RegistrationImplementsDirectory == Spec => ImplementsDirectory
  <1>1. Init => Directory!DirectoryInit
    BY DEF Init, Directory!DirectoryInit
  <1>2. TypeOK /\ [Next]_vars => [Directory!DirectoryNext]_users
    BY TableStep DEF Directory!DirectoryNext
  <1> QED
    BY <1>1, <1>2, TypeCorrect, PTL
    DEF Spec, ImplementsDirectory, Directory!DirectorySpec

\* Both unique keys of models.User.
KeysAreUnique ==
    \A u, v \in users :
        u.name = v.name \/ (u.role = v.role /\ u.dept = v.dept) => u = v

LEMMA KeysInit == Directory!DirectoryInit => KeysAreUnique
  BY DEF Directory!DirectoryInit, KeysAreUnique

LEMMA KeysStep == KeysAreUnique /\ [Directory!DirectoryNext]_users => KeysAreUnique'
  BY DEF KeysAreUnique, Directory!DirectoryNext, Directory!Add, Directory!Clash,
         Directory!NameTaken, Directory!RoleTaken

\* However requests race past the check for an HOD, a department never has two
\* (auth.py:91-103, models.py:136).
THEOREM DepartmentsHaveOneHod == Spec => []OneHodPerDepartment
  <1>1. KeysAreUnique => OneHodPerDepartment
    BY DEF KeysAreUnique, OneHodPerDepartment, Directory!OneHodPerDepartment
  <1> QED
    BY <1>1, KeysInit, KeysStep, RegistrationImplementsDirectory, PTL
    DEF ImplementsDirectory, Directory!DirectorySpec

-----------------------------------------------------------------------------
(* The answers                                                             *)

\* A request that has inserted its row.
Inserted(r) == pc[r] = "refresh" \/ response[r] = "201"

OwnRows ==
    /\ \A r \in Requests : Inserted(r) => payload[r] \in users
    /\ \A r, s \in Requests :
          Inserted(r) /\ Inserted(s) /\ payload[r].name = payload[s].name => r = s

LEMMA OwnRowsInit == Init => OwnRows
  BY DEF Init, OwnRows, Inserted

LEMMA OwnRowsStep == TypeOK /\ OwnRows /\ [Next]_vars => OwnRows'
  <1> SUFFICES ASSUME TypeOK, OwnRows, [Next]_vars PROVE OwnRows'
    OBVIOUS
  <1> USE DEF OwnRows, Inserted, TypeOK
  <1>1. ASSUME NEW r \in Requests, Submit(r) PROVE OwnRows'
    <2>1. /\ \A s \in Requests : Inserted(s)' => s # r /\ Inserted(s)
          /\ \A s \in Requests \ {r} : payload'[s] = payload[s]
          /\ UNCHANGED users
      BY <1>1 DEF Submit, Goto
    <2> QED
      BY <2>1
  <1>2. ASSUME NEW r \in Requests,
               CheckUsername(r) \/ CheckHod(r) \/ GenerateKeys(r) \/ Refresh(r)
        PROVE  OwnRows'
    <2>1. /\ \A s \in Requests : Inserted(s)' => Inserted(s)
          /\ UNCHANGED <<users, payload>>
      BY <1>2 DEF CheckUsername, CheckHod, GenerateKeys, Refresh, Goto, Answer
    <2> QED
      BY <2>1
  <1>3. ASSUME NEW r \in Requests, Insert(r) PROVE OwnRows'
    <2>1. CASE UNCHANGED users
      <3>1. \A s \in Requests : Inserted(s)' => Inserted(s)
        BY <1>3, <2>1 DEF Insert, Goto, Answer, Directory!Add, Directory!Clash,
                          Directory!NameTaken
      <3> QED
        BY <1>3, <2>1, <3>1 DEF Insert
    <2>2. CASE Directory!Add(payload[r])
      <3>1. /\ \A s \in Requests \ {r} : Inserted(s)' => Inserted(s)
            /\ UNCHANGED payload
        BY <1>3 DEF Insert, Goto, Answer
      <3>2. \A s \in Requests : Inserted(s) => payload[s].name # payload[r].name
        BY <2>2 DEF Directory!Add, Directory!Clash, Directory!NameTaken
      <3> QED
        BY <2>2, <3>1, <3>2 DEF Directory!Add
    <2> QED
      BY <1>3, <2>1, <2>2 DEF Insert
  <1>4. CASE Restart
    BY <1>4 DEF Restart
  <1>5. CASE UNCHANGED vars
    BY <1>5 DEF vars
  <1> QED
    BY <1>1, <1>2, <1>3, <1>4, <1>5 DEF Next, Step

\* A 201 is the truth about the caller's row, and nobody else was told the same
\* of a row of that name (auth.py:125-133).
THEOREM CreatedIsTrue == Spec => []CreatedMeansStored
  <1>1. OwnRows => CreatedMeansStored
    BY DEF OwnRows, Inserted, CreatedMeansStored, CreatedRequests
  <1> QED
    BY <1>1, OwnRowsInit, OwnRowsStep, TypeCorrect, PTL DEF Spec

\* The second check is made for an HOD alone.
OnlyHodsAreChecked == \A r \in Requests : pc[r] = "check_hod" => payload[r].role = HOD

LEMMA OnlyHodsInit == Init => OnlyHodsAreChecked
  BY DEF Init, OnlyHodsAreChecked

LEMMA OnlyHodsStep == TypeOK /\ OnlyHodsAreChecked /\ [Next]_vars => OnlyHodsAreChecked'
  BY DEF TypeOK, OnlyHodsAreChecked, Next, Step, vars, Submit, CheckUsername, CheckHod,
         GenerateKeys, Insert, Refresh, Restart, Goto, Answer

\* Behind every 409 and 400 there is a committed row the caller's row clashes
\* with (auth.py:88-103, 134-137).
THEOREM RefusalIsTrue == Spec => []RefusalHasCause
  <1>1. Init => RefusalHasCause
    BY DEF Init, RefusalHasCause
  <1>2. TypeOK /\ OnlyHodsAreChecked /\ RefusalHasCause /\ [Next]_vars => RefusalHasCause'
    <2> SUFFICES ASSUME TypeOK, OnlyHodsAreChecked, RefusalHasCause, [Next]_vars
                 PROVE  RefusalHasCause'
      OBVIOUS
    <2>1. users \subseteq users'
      BY TableStep DEF Directory!Add
    <2>2. \A row : Directory!Clash(row) => Directory!Clash(row)'
      BY <2>1 DEF Directory!Clash, Directory!NameTaken, Directory!RoleTaken
    <2>3. \A d : Directory!RoleTaken(HOD, d) => Directory!RoleTaken(HOD, d)'
      BY <2>1 DEF Directory!RoleTaken
    <2> DEFINE Honest(r, status) ==
                 /\ status = "409" => Directory!Clash(payload[r])
                 /\ status = "400" =>
                       payload[r].role = HOD /\ Directory!RoleTaken(HOD, payload[r].dept)
    <2>4. ASSUME UNCHANGED payload, \A r \in Requests : Honest(r, response'[r])
          PROVE  RefusalHasCause'
      BY <2>2, <2>3, <2>4 DEF RefusalHasCause
    <2>5. ASSUME NEW s \in Requests, Submit(s) PROVE RefusalHasCause'
      <3>1. /\ response'[s] = "none" /\ UNCHANGED users
            /\ \A r \in Requests \ {s} :
                  response'[r] = response[r] /\ payload'[r] = payload[r]
        BY <2>5 DEF Submit, Goto, TypeOK
      <3> QED
        BY <2>2, <2>3, <3>1 DEF RefusalHasCause
    <2>6. ASSUME NEW s \in Requests, Step(s) PROVE RefusalHasCause'
      <3> USE DEF RefusalHasCause, TypeOK, Goto, Answer
      <3>1. ASSUME CheckUsername(s), NEW r \in Requests PROVE Honest(r, response'[r])
        BY <3>1 DEF CheckUsername, Directory!Clash
      <3>2. ASSUME CheckHod(s), NEW r \in Requests PROVE Honest(r, response'[r])
        <4>1. payload[s].role = HOD
          BY <3>2 DEF CheckHod, OnlyHodsAreChecked
        <4> QED
          BY <3>2, <4>1 DEF CheckHod
      <3>3. ASSUME Insert(s), NEW r \in Requests PROVE Honest(r, response'[r])
        BY <3>3 DEF Insert
      <3>4. ASSUME GenerateKeys(s) \/ Refresh(s), NEW r \in Requests
            PROVE  Honest(r, response'[r])
        BY <3>4 DEF GenerateKeys, Refresh
      <3>5. UNCHANGED payload
        BY <2>6 DEF Step, CheckUsername, CheckHod, GenerateKeys, Insert, Refresh
      <3> QED
        BY <2>4, <2>6, <3>1, <3>2, <3>3, <3>4, <3>5 DEF Step
    <2>7. CASE Restart
      BY <2>7 DEF Restart, RefusalHasCause
    <2>8. CASE UNCHANGED vars
      BY <2>8, <2>2, <2>3 DEF vars, RefusalHasCause
    <2> QED
      BY <2>5, <2>6, <2>7, <2>8 DEF Next
  <1> QED
    BY <1>1, <1>2, TypeCorrect, OnlyHodsInit, OnlyHodsStep, PTL DEF Spec

=============================================================================
