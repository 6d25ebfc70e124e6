------------------------------- MODULE Login -------------------------------
(***************************************************************************)
(* POST /auth/login (routers/auth.py, login_user) for one client address.  *)
(*                                                                         *)
(* Failed attempts are kept as a list of timestamps in the memory of the   *)
(* server process.  Every attempt filters that list into a new one, puts   *)
(* the new one in its place, looks at its length, verifies the password    *)
(* (slow by design) and, on a failure, appends the time at which it began. *)
(* The handler is a plain "def": attempts interleave between these steps   *)
(* and no lock is taken.                                                   *)
(*                                                                         *)
(* The code filters the list, appends to it and takes its length, so its   *)
(* order plays no part: it is modelled as a set of entries, each with the  *)
(* number of the 401 it was appended for, which keeps equal times apart.   *)
(***************************************************************************)
EXTENDS Integers, FiniteSets

CONSTANTS
    Threads,        \* pool threads of one process
    RawNames,       \* usernames as typed
    NormName,       \* UserCreate.normalize_username, on RawNames
    MaxFailed,      \* MAX_FAILED_ATTEMPTS
    Window,         \* LOCKOUT_WINDOW_SECONDS
    MaxTime,        \* bound: the last reading of the clock
    MaxRejected     \* bound: attempts answered 401

ASSUME NamesNormalise == RawNames # {} /\ DOMAIN NormName = RawNames
ASSUME LimitsArePositive == MaxFailed \in Nat \ {0} /\ Window \in Nat \ {0}
ASSUME BoundsAreNat == MaxTime \in Nat /\ MaxRejected \in Nat

VARIABLES
    accounts,   \* the usernames of all users, as each of them typed his
    now,        \* time.time()
    failed,     \* _failed_logins[client_ip]
    pc,         \* where each thread stands
    attempt,    \* the attempt each thread serves
    answer,     \* the status each attempt was answered with
    rejected,   \* history: the attempts answered 401, as entries
    restarted,  \* history: the process was restarted
    overlapped  \* history: an attempt arrived before another was answered

vars == <<accounts, now, failed, pc, attempt, answer, rejected, restarted,
          overlapped>>

-----------------------------------------------------------------------------

Times == 0 .. MaxTime
Stages == {"idle", "snapshot", "rebind", "check", "verify", "record"}
Statuses == {"none", "200", "401", "429"}

Entry == [nr : 1 .. MaxRejected, at : Times]

\* "kept" is the filtered list; "known" says that the name was announced as an
\* account's when the attempt began.
Attempt == [name : RawNames, correct : BOOLEAN, known : BOOLEAN,
            at : Times, kept : SUBSET Entry]

NoAttempt == [name |-> CHOOSE n \in RawNames : TRUE, correct |-> FALSE,
              known |-> FALSE, at |-> 0, kept |-> {}]

\* What the table "users" holds of the names.
StoredNames == {NormName[n] : n \in accounts}

Init ==
    /\ accounts = {}
    /\ now = 0
    /\ failed = {}
    /\ pc = [t \in Threads |-> "idle"]
    /\ attempt = [t \in Threads |-> NoAttempt]
    /\ answer = [t \in Threads |-> "none"]
    /\ rejected = {}
    /\ restarted = FALSE
    /\ overlapped = FALSE

Goto(t, stage) ==
    /\ pc' = [pc EXCEPT ![t] = stage]
    /\ UNCHANGED answer

Answer(t, status) ==
    /\ pc' = [pc EXCEPT ![t] = "idle"]
    /\ answer' = [answer EXCEPT ![t] = status]

\* A registration commits (module Registration).
Register(n) ==
    /\ NormName[n] \notin StoredNames
    /\ accounts' = accounts \cup {n}
    /\ UNCHANGED <<now, failed, pc, attempt, answer, rejected, restarted,
                   overlapped>>

-----------------------------------------------------------------------------

\* current_time = time.time()
Arrive(t) ==
    /\ pc[t] = "idle"
    /\ \E n \in RawNames, ok \in BOOLEAN :
          attempt' = [attempt EXCEPT ![t] =
              [name |-> n, correct |-> ok, known |-> n \in accounts,
               at |-> now, kept |-> {}]]
    /\ pc' = [pc EXCEPT ![t] = "snapshot"]
    /\ answer' = [answer EXCEPT ![t] = "none"]
    /\ overlapped' = (overlapped \/ \E s \in Threads : pc[s] # "idle")
    /\ UNCHANGED <<accounts, now, failed, rejected, restarted>>

\* Slip: nothing is filtered out.
SnapshotOfAll(t) ==
    /\ pc[t] = "snapshot"
    /\ attempt' = [attempt EXCEPT ![t].kept = failed]
    /\ Goto(t, "rebind")
    /\ UNCHANGED <<accounts, now, failed, rejected, restarted, overlapped>>

\* The list comprehension.
Snapshot(t) ==
    /\ pc[t] = "snapshot"
    /\ attempt' = [attempt EXCEPT ![t].kept =
          {e \in failed : attempt[t].at < e.at + Window}]
    /\ Goto(t, "rebind")
    /\ UNCHANGED <<accounts, now, failed, rejected, restarted, overlapped>>

\* _failed_logins[client_ip] = ...
Rebind(t) ==
    /\ pc[t] = "rebind"
    /\ failed' = attempt[t].kept
    /\ attempt' = [attempt EXCEPT ![t].kept = {}]
    /\ Goto(t, "check")
    /\ UNCHANGED <<accounts, now, rejected, restarted, overlapped>>

\* Slip: one attempt too many.
CheckOffByOne(t) ==
    /\ pc[t] = "check"
    /\ IF Cardinality(failed) > MaxFailed THEN Answer(t, "429") ELSE Goto(t, "verify")
    /\ UNCHANGED <<accounts, now, failed, attempt, rejected, restarted, overlapped>>

Check(t) ==
    /\ pc[t] = "check"
    /\ IF Cardinality(failed) >= MaxFailed THEN Answer(t, "429") ELSE Goto(t, "verify")
    /\ UNCHANGED <<accounts, now, failed, attempt, rejected, restarted, overlapped>>

\* The query takes the name as typed, the dummy hash stands in for a user who
\* does not exist.
Verify(t) ==
    /\ pc[t] = "verify"
    /\ IF attempt[t].name \in StoredNames /\ attempt[t].correct
       THEN Answer(t, "200") ELSE Goto(t, "record")
    /\ UNCHANGED <<accounts, now, failed, attempt, rejected, restarted, overlapped>>

\* The time at which the attempt began, under the number of its 401.
NewEntry(t) == [nr |-> Cardinality(rejected) + 1, at |-> attempt[t].at]

\* Slip: the attempt is put on the list twice, here and in the caller.
RecordTwice(t) ==
    /\ pc[t] = "record"
    /\ Cardinality(rejected) < MaxRejected
    /\ failed' = failed \cup {NewEntry(t), [NewEntry(t) EXCEPT !.nr = @ + 1]}
    /\ rejected' = rejected \cup {NewEntry(t)}
    /\ Answer(t, "401")
    /\ UNCHANGED <<accounts, now, attempt, restarted, overlapped>>

\* Slip: the end of the lockout is put on the list, not the time of the failure.
RecordExpiry(t) ==
    /\ pc[t] = "record"
    /\ Cardinality(rejected) < MaxRejected
    /\ failed' = failed \cup {[NewEntry(t) EXCEPT !.at = @ + Window]}
    /\ rejected' = rejected \cup {NewEntry(t)}
    /\ Answer(t, "401")
    /\ UNCHANGED <<accounts, now, attempt, restarted, overlapped>>

Record(t) ==
    /\ pc[t] = "record"
    /\ Cardinality(rejected) < MaxRejected
    /\ failed' = failed \cup {NewEntry(t)}
    /\ rejected' = rejected \cup {NewEntry(t)}
    /\ Answer(t, "401")
    /\ UNCHANGED <<accounts, now, attempt, restarted, overlapped>>

-----------------------------------------------------------------------------

Tick ==
    /\ now < MaxTime
    /\ now' = now + 1
    /\ UNCHANGED <<accounts, failed, pc, attempt, answer, rejected, restarted,
                   overlapped>>

\* The process is restarted; the list was in its memory.
Restart ==
    /\ restarted' = TRUE
    /\ failed' = {}
    /\ pc' = [t \in Threads |-> "idle"]
    /\ attempt' = [t \in Threads |-> NoAttempt]
    /\ answer' = [t \in Threads |-> "none"]
    /\ UNCHANGED <<accounts, now, rejected, overlapped>>

Next ==
    \/ \E n \in RawNames : Register(n)
    \/ \E t \in Threads :
          Arrive(t) \/ Snapshot(t) \/ Rebind(t) \/ Check(t) \/ Verify(t) \/ Record(t)
    \/ Tick
    \/ Restart

Spec == Init /\ [][Next]_vars

-----------------------------------------------------------------------------

\* Types of the variables.
TypeOK ==
    /\ accounts \subseteq RawNames
    /\ now \in Times
    /\ failed \subseteq Entry
    /\ pc \in [Threads -> Stages]
    /\ attempt \in [Threads -> Attempt]
    /\ answer \in [Threads -> Statuses]
    /\ rejected \subseteq Entry
    /\ restarted \in BOOLEAN
    /\ overlapped \in BOOLEAN

Within(s, first, last) == Cardinality({e \in s : first <= e.at /\ e.at <= last})

\* The limiter limits: no more than MaxFailed attempts that began within one
\* window are answered 401, as long as attempts come one after the other and the
\* process is not restarted (auth.py:145-154, 163-167).
FailuresAreLimited ==
    ~ restarted /\ ~ overlapped =>
        \A first \in Times : Within(rejected, first, first + Window - 1) <= MaxFailed

\* Nobody is locked out for nothing: behind a 429 there are MaxFailed failures of
\* the window before that attempt, restarts or not (auth.py:145-154).
LockoutIsEarned ==
    \A t \in Threads : answer[t] = "429" /\ ~ overlapped =>
        Within(rejected, attempt[t].at - (Window - 1), attempt[t].at) >= MaxFailed

\* However snapshots and appends overtake each other, the list holds no failure
\* that did not happen and none twice (auth.py:145-149, 165).
FailuresAreReal == failed \subseteq rejected

\* frontend.py:619-620 announces the account under the name as typed and says
\* "Switch to the Login tab to sign in": that name and password log in.
AnnouncedNameLogsIn ==
    \A t \in Threads : attempt[t].known /\ attempt[t].correct => answer[t] # "401"

=============================================================================
