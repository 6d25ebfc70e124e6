---------------------------- MODULE LoginProofs ----------------------------
(***************************************************************************)
(* The login limiter, for every set of threads and names, every limit and  *)
(* every window: what is on the list happened, and as long as attempts do  *)
(* not overlap the limit holds over every window and a lockout is earned.  *)
(***************************************************************************)
EXTENDS Login, FiniteSetTheorems, TLAPS

-----------------------------------------------------------------------------
(* Types                                                                   *)

LEMMA Constants ==
    /\ RawNames # {}
    /\ MaxFailed \in Nat /\ MaxFailed > 0
    /\ Window \in Nat /\ Window > 0
    /\ MaxTime \in Nat /\ MaxRejected \in Nat
  BY NamesNormalise, LimitsArePositive, BoundsAreNat

\* The attempts answered 401 are finitely many, numbered from 1.
Numbered ==
    /\ IsFiniteSet(rejected)
    /\ \A e \in rejected : e.nr <= Cardinality(rejected)
    /\ \A e, f \in rejected : e.nr = f.nr => e = f

LEMMA InitTypes == Init => TypeOK /\ Numbered
  <1> SUFFICES ASSUME Init PROVE TypeOK /\ Numbered
    OBVIOUS
  <1>1. NoAttempt \in Attempt
    BY Constants DEF NoAttempt, Attempt, Times
  <1>2. /\ accounts \subseteq RawNames /\ failed \subseteq Entry /\ rejected \subseteq Entry
        /\ now \in Times
    BY Constants DEF Init, Times
  <1>3. restarted \in BOOLEAN /\ overlapped \in BOOLEAN
    BY DEF Init
  <1>4. /\ pc \in [Threads -> Stages] /\ answer \in [Threads -> Statuses]
        /\ attempt \in [Threads -> Attempt]
    BY <1>1 DEF Init, Stages, Statuses
  <1>5. Numbered
    BY FS_EmptySet DEF Init, Numbered
  <1> QED
    BY <1>2, <1>3, <1>4, <1>5 DEF TypeOK

\* The attempt that is answered 401 gets a number of its own.
LEMMA NewEntryIsNew ==
    ASSUME TypeOK, Numbered, NEW t \in Threads, Cardinality(rejected) < MaxRejected
    PROVE  /\ NewEntry(t) \in Entry /\ NewEntry(t).at = attempt[t].at
           /\ NewEntry(t) \notin rejected
           /\ \A e \in rejected : e.nr < NewEntry(t).nr
           /\ IsFiniteSet(rejected \cup {NewEntry(t)})
           /\ Cardinality(rejected \cup {NewEntry(t)}) = NewEntry(t).nr
  <1>1. Cardinality(rejected) \in Nat
    BY FS_CardinalityType DEF Numbered
  <1>2. attempt[t].at \in Times
    BY DEF TypeOK, Attempt
  <1>3. NewEntry(t) \in Entry /\ NewEntry(t).at = attempt[t].at
    BY <1>1, <1>2, Constants DEF NewEntry, Entry
  <1>4. \A e \in rejected : e.nr < NewEntry(t).nr
    BY <1>1 DEF NewEntry, Numbered, TypeOK, Entry
  <1>5. NewEntry(t) \notin rejected
    BY <1>3, <1>4 DEF Entry
  <1> QED
    BY <1>1, <1>3, <1>4, <1>5, FS_AddElement DEF Numbered, NewEntry

LEMMA StepTypes == TypeOK /\ Numbered /\ [Next]_vars => TypeOK' /\ Numbered'
  <1> SUFFICES ASSUME TypeOK, Numbered, [Next]_vars PROVE TypeOK' /\ Numbered'
    OBVIOUS
  <1> USE DEF TypeOK, Stages, Statuses, Goto, Answer
  <1>1. ASSUME UNCHANGED rejected PROVE Numbered'
    BY <1>1 DEF Numbered
  <1>2. ASSUME NEW n \in RawNames, Register(n) PROVE TypeOK' /\ Numbered'
    BY <1>1, <1>2 DEF Register
  <1>3. ASSUME NEW t \in Threads, Arrive(t) PROVE TypeOK' /\ Numbered'
    <2>1. PICK n \in RawNames, ok \in BOOLEAN :
            attempt' = [attempt EXCEPT ![t] =
                [name |-> n, correct |-> ok, known |-> n \in accounts,
                 at |-> now, kept |-> {}]]
      BY <1>3 DEF Arrive
    <2>2. attempt' \in [Threads -> Attempt]
      BY <2>1 DEF Attempt
    <2> QED
      BY <1>1, <1>3, <2>2 DEF Arrive
  <1>4. ASSUME NEW t \in Threads, Snapshot(t) PROVE TypeOK' /\ Numbered'
    <2>1. attempt' \in [Threads -> Attempt]
      BY <1>4 DEF Snapshot, Attempt
    <2> QED
      BY <1>1, <1>4, <2>1 DEF Snapshot
  <1>5. ASSUME NEW t \in Threads, Rebind(t) PROVE TypeOK' /\ Numbered'
    <2>1. attempt[t].kept \subseteq Entry /\ attempt' \in [Threads -> Attempt]
      BY <1>5 DEF Rebind, Attempt
    <2> QED
      BY <1>1, <1>5, <2>1 DEF Rebind
  <1>6. ASSUME NEW t \in Threads, Check(t) PROVE TypeOK' /\ Numbered'
    BY <1>1, <1>6 DEF Check
  <1>7. ASSUME NEW t \in Threads, Verify(t) PROVE TypeOK' /\ Numbered'
    BY <1>1, <1>7 DEF Verify
  <1>8. ASSUME NEW t \in Threads, Record(t) PROVE TypeOK' /\ Numbered'
    <2>1. /\ NewEntry(t) \in Entry
          /\ \A e \in rejected : e.nr < NewEntry(t).nr
          /\ IsFiniteSet(rejected \cup {NewEntry(t)})
          /\ Cardinality(rejected \cup {NewEntry(t)}) = NewEntry(t).nr
      BY <1>8, NewEntryIsNew DEF Record
    <2>2. Numbered'
      <3> DEFINE new == NewEntry(t)
      <3>1. new \in Entry /\ rejected \subseteq Entry /\ rejected' = rejected \cup {new}
        BY <1>8, <2>1 DEF Record
      <3>2. IsFiniteSet(rejected') /\ Cardinality(rejected') = new.nr
        BY <2>1, <3>1
      <3>3. \A e \in rejected : e.nr < new.nr
        BY <2>1
      <3> HIDE DEF new
      <3> QED
        BY <3>1, <3>2, <3>3 DEF Numbered, Entry
    <2> QED
      BY <1>8, <2>1, <2>2 DEF Record
  <1>9. CASE Tick
    BY <1>1, <1>9, Constants DEF Tick, Times
  <1>10. CASE Restart
    <2>1. NoAttempt \in Attempt
      BY Constants DEF NoAttempt, Attempt, Times
    <2> QED
      BY <1>1, <1>10, <2>1 DEF Restart
  <1>11. CASE UNCHANGED vars
    BY <1>1, <1>11 DEF vars
  <1> QED
    BY <1>2, <1>3, <1>4, <1>5, <1>6, <1>7, <1>8, <1>9, <1>10, <1>11 DEF Next

LEMMA TypesHold == Spec => [](TypeOK /\ Numbered)
  BY InitTypes, StepTypes, PTL DEF Spec

\* The variables keep their types; the list holds times of the clock
\* (auth.py:139-173).
THEOREM LoginTypes == Spec => []TypeOK
  BY TypesHold, PTL

-----------------------------------------------------------------------------
(* The list                                                                *)

\* Filtered copies of the list are made of it.
CopiesAreReal == \A t \in Threads : attempt[t].kept \subseteq rejected

LEMMA ListStep ==
    ASSUME TypeOK, FailuresAreReal, CopiesAreReal, [Next]_vars
    PROVE  FailuresAreReal' /\ CopiesAreReal'
  <1> USE DEF FailuresAreReal, CopiesAreReal, TypeOK
  <1>1. ASSUME NEW n \in RawNames, Register(n) PROVE FailuresAreReal' /\ CopiesAreReal'
    BY <1>1 DEF Register
  <1>2. ASSUME NEW t \in Threads, Arrive(t) PROVE FailuresAreReal' /\ CopiesAreReal'
    BY <1>2 DEF Arrive
  <1>3. ASSUME NEW t \in Threads, Snapshot(t) PROVE FailuresAreReal' /\ CopiesAreReal'
    BY <1>3 DEF Snapshot, Attempt
  <1>4. ASSUME NEW t \in Threads, Rebind(t) PROVE FailuresAreReal' /\ CopiesAreReal'
    BY <1>4 DEF Rebind, Attempt
  <1>5. ASSUME NEW t \in Threads, Check(t) \/ Verify(t) \/ Record(t)
        PROVE  FailuresAreReal' /\ CopiesAreReal'
    BY <1>5 DEF Check, Verify, Record
  <1>6. CASE Tick
    BY <1>6 DEF Tick
  <1>7. CASE Restart
    BY <1>7 DEF Restart, NoAttempt
  <1>8. CASE UNCHANGED vars
    BY <1>8 DEF vars
  <1> QED
    BY <1>1, <1>2, <1>3, <1>4, <1>5, <1>6, <1>7, <1>8 DEF Next

LEMMA ListHolds == Spec => [](FailuresAreReal /\ CopiesAreReal)
  <1>1. Init => FailuresAreReal /\ CopiesAreReal
    BY DEF Init, FailuresAreReal, CopiesAreReal, NoAttempt
  <1> QED
    BY <1>1, ListStep, TypesHold, PTL DEF Spec

\* However snapshots and appends overtake each other, the list holds no failure
\* that did not happen and none twice (auth.py:145-149, 165).
THEOREM ListHoldsFailures == Spec => [](FailuresAreReal /\ Numbered)
  BY TypesHold, ListHolds, PTL

-----------------------------------------------------------------------------
(* Attempts that come one after the other                                  *)

Busy(t) == pc[t] # "idle"

\* No attempt begins in the future, none overlaps another.
OneAtATime ==
    /\ \A e \in rejected : e.at <= now
    /\ \A t \in Threads : attempt[t].at <= now
    /\ ~ overlapped => \A s, t \in Threads : Busy(s) /\ Busy(t) => s = t

\* What is recorded began before the attempt that is being served, and what is not
\* on the list any more has left the window.
InOrder ==
    ~ overlapped =>
        /\ \A t \in Threads : Busy(t) => \A e \in rejected : e.at <= attempt[t].at
        /\ ~ restarted => \A e \in rejected \ failed :
              /\ e.at + Window <= now
              /\ \A t \in Threads : Busy(t) => e.at + Window <= attempt[t].at

\* What the attempt that is being served knows of the list.
Filtered ==
    ~ overlapped => \A t \in Threads :
        /\ pc[t] = "rebind" =>
              attempt[t].kept = {e \in failed : attempt[t].at < e.at + Window}
        /\ pc[t] \in {"check", "verify", "record"} =>
              \A e \in failed : attempt[t].at < e.at + Window
        /\ pc[t] \in {"verify", "record"} => Cardinality(failed) < MaxFailed

SerialInv == OneAtATime /\ InOrder /\ Filtered

\* What the steps of the next lemma may use.
SerialContext == TypeOK /\ Numbered /\ FailuresAreReal /\ CopiesAreReal /\ SerialInv

LEMMA SerialInit == Init => SerialInv
  BY Constants
  DEF Init, SerialInv, OneAtATime, InOrder, Filtered, NoAttempt, Busy

LEMMA ArriveSerial ==
    ASSUME SerialContext, NEW t \in Threads, Arrive(t) PROVE SerialInv'
  <1> USE DEF SerialContext, TypeOK, Times
  <1>1. /\ attempt'[t].at = now /\ attempt'[t].kept = {}
        /\ \A s \in Threads \ {t} : attempt'[s] = attempt[s] /\ pc'[s] = pc[s]
        /\ pc'[t] = "snapshot"
    BY DEF Arrive, Stages
  <1>2. UNCHANGED <<now, failed, rejected, restarted>>
    BY DEF Arrive
  <1>3. ~ overlapped' => ~ overlapped /\ \A s \in Threads : pc[s] = "idle"
    BY DEF Arrive
  <1>4. OneAtATime'
    BY <1>1, <1>2, <1>3 DEF SerialInv, OneAtATime, Busy
  <1>5. InOrder'
    BY <1>1, <1>2, <1>3 DEF SerialInv, OneAtATime, InOrder, Busy
  <1>6. Filtered'
    BY <1>1, <1>2, <1>3 DEF SerialInv, Filtered
  <1> QED
    BY <1>4, <1>5, <1>6 DEF SerialInv

LEMMA SnapshotSerial ==
    ASSUME SerialContext, NEW t \in Threads, Snapshot(t) PROVE SerialInv'
  <1> USE DEF SerialContext, TypeOK, Goto
  <1>1. /\ pc[t] = "snapshot" /\ pc'[t] = "rebind"
        /\ attempt'[t].kept = {e \in failed : attempt[t].at < e.at + Window}
        /\ \A s \in Threads : attempt'[s].at = attempt[s].at
        /\ \A s \in Threads \ {t} : attempt'[s] = attempt[s] /\ pc'[s] = pc[s]
        /\ UNCHANGED <<now, failed, rejected, restarted, overlapped>>
    BY DEF Snapshot, Attempt, Stages
  <1>2. \A s \in Threads : Busy(s)' => Busy(s)
    BY <1>1 DEF Busy
  <1>3. OneAtATime' /\ InOrder'
    BY <1>1, <1>2 DEF SerialInv, OneAtATime, InOrder
  <1>4. Filtered'
    BY <1>1 DEF SerialInv, Filtered
  <1> QED
    BY <1>3, <1>4 DEF SerialInv

LEMMA RebindSerial ==
    ASSUME SerialContext, NEW t \in Threads, Rebind(t) PROVE SerialInv'
  <1> USE DEF SerialContext, TypeOK, Goto, Times
  <1>1. /\ pc[t] = "rebind" /\ pc'[t] = "check" /\ failed' = attempt[t].kept
        /\ \A s \in Threads : attempt'[s].at = attempt[s].at
        /\ \A s \in Threads \ {t} : attempt'[s] = attempt[s] /\ pc'[s] = pc[s]
        /\ UNCHANGED <<now, rejected, restarted, overlapped>>
    BY DEF Rebind, Attempt, Stages
  <1>2. \A s \in Threads : Busy(s)' => Busy(s)
    BY <1>1 DEF Busy
  <1>3. OneAtATime'
    BY <1>1, <1>2 DEF SerialInv, OneAtATime
  <1>4. ~ overlapped =>
           /\ failed' = {e \in failed : attempt[t].at < e.at + Window}
           /\ \A s \in Threads : Busy(s) <=> s = t
    BY <1>1 DEF SerialInv, OneAtATime, Filtered, Busy
  <1>5. InOrder'
    <2> SUFFICES ASSUME ~ overlapped PROVE InOrder'
      BY <1>1 DEF InOrder
    <2>1. \A s \in Threads : Busy(s)' => s = t
      BY <1>2, <1>4
    <2>2. \A e \in rejected : e.at <= attempt[t].at
      BY <1>4 DEF SerialInv, InOrder
    <2>3. ASSUME ~ restarted, NEW e \in rejected \ failed'
          PROVE  e.at + Window <= attempt[t].at /\ e.at + Window <= now
      <3>1. e.at \in Nat /\ attempt[t].at \in Nat /\ now \in Nat
        BY <2>3 DEF Entry, Attempt
      <3>2. e.at + Window <= attempt[t].at
        <4>1. CASE e \in failed
          BY <1>4, <2>3, <3>1, <4>1, Constants
        <4>2. CASE e \notin failed
          BY <1>4, <2>3, <4>2 DEF SerialInv, InOrder
        <4> QED
          BY <4>1, <4>2
      <3> QED
        BY <3>1, <3>2, Constants DEF SerialInv, OneAtATime
    <2> QED
      BY <1>1, <2>1, <2>2, <2>3 DEF InOrder
  <1>6. Filtered'
    BY <1>1, <1>4 DEF SerialInv, Filtered, Busy
  <1> QED
    BY <1>3, <1>5, <1>6 DEF SerialInv

LEMMA CheckSerial ==
    ASSUME SerialContext, NEW t \in Threads, Check(t) \/ Verify(t) PROVE SerialInv'
  <1> USE DEF SerialContext, TypeOK, Goto, Answer
  <1>1. /\ pc[t] \in {"check", "verify"}
        /\ \A s \in Threads \ {t} : pc'[s] = pc[s]
        /\ pc'[t] \in {"idle", "verify", "record"}
        /\ UNCHANGED <<now, failed, attempt, rejected, restarted, overlapped>>
    BY DEF Check, Verify, Stages
  <1>2. pc'[t] # "idle" => pc[t] = "verify" \/ Cardinality(failed) < MaxFailed
    <2>1. IsFiniteSet(failed)
      BY FS_Subset DEF Numbered, FailuresAreReal
    <2>2. Cardinality(failed) \in Nat
      BY <2>1, FS_CardinalityType
    <2> QED
      BY <2>2, Constants DEF Check, Verify
  <1>3. \A s \in Threads : Busy(s)' => Busy(s)
    BY <1>1 DEF Busy
  <1>4. OneAtATime' /\ InOrder'
    BY <1>1, <1>3 DEF SerialInv, OneAtATime, InOrder
  <1>5. Filtered'
    BY <1>1, <1>2 DEF SerialInv, Filtered
  <1> QED
    BY <1>4, <1>5 DEF SerialInv

LEMMA RecordSerial ==
    ASSUME SerialContext, NEW t \in Threads, Record(t) PROVE SerialInv'
  <1> USE DEF SerialContext, TypeOK, Answer, Times
  <1> DEFINE new == NewEntry(t)
  <1>1. /\ pc[t] = "record" /\ pc'[t] = "idle"
        /\ \A s \in Threads \ {t} : pc'[s] = pc[s]
        /\ failed' = failed \cup {new} /\ rejected' = rejected \cup {new}
        /\ UNCHANGED <<now, attempt, restarted, overlapped>>
    BY DEF Record, Stages
  <1>2. new.at = attempt[t].at
    BY NewEntryIsNew DEF Record
  <1> HIDE DEF new
  <1>3. ~ overlapped => \A s \in Threads : ~ Busy(s)'
    BY <1>1 DEF SerialInv, OneAtATime, Busy
  <1>4. OneAtATime'
    BY <1>1, <1>2, <1>3 DEF SerialInv, OneAtATime
  <1>5. InOrder'
    BY <1>1, <1>3 DEF SerialInv, InOrder
  <1>6. Filtered'
    BY <1>1, <1>3 DEF Filtered, Busy
  <1> QED
    BY <1>4, <1>5, <1>6 DEF SerialInv

LEMMA SerialStep ==
    ASSUME SerialContext, [Next]_vars PROVE SerialInv'
  <1>1. CASE (\E n \in RawNames : Register(n)) \/ UNCHANGED vars
    BY <1>1
    DEF Register, vars, SerialContext, SerialInv, OneAtATime, InOrder, Filtered, Busy
  <1>2. CASE Tick
    <2>1. /\ now' = now + 1 /\ now \in Nat
          /\ UNCHANGED <<failed, pc, attempt, rejected, restarted, overlapped>>
      BY <1>2, Constants DEF Tick, SerialContext, TypeOK, Times
    <2>2. /\ \A e \in rejected : e.at \in Nat
          /\ \A s \in Threads : attempt[s].at \in Nat
      BY Constants DEF SerialContext, TypeOK, Entry, Attempt, Times
    <2>3. OneAtATime'
      BY <2>1, <2>2 DEF SerialContext, SerialInv, OneAtATime, Busy
    <2>4. InOrder'
      BY <2>1, <2>2, Constants DEF SerialContext, SerialInv, InOrder, Busy
    <2>5. Filtered'
      BY <2>1 DEF SerialContext, SerialInv, Filtered
    <2> QED
      BY <2>3, <2>4, <2>5 DEF SerialInv
  <1>3. CASE Restart
    <2>1. /\ \A s \in Threads : pc'[s] = "idle" /\ attempt'[s].at = 0
          /\ restarted' /\ UNCHANGED <<now, rejected, overlapped>> /\ now >= 0
      BY <1>3, Constants DEF Restart, NoAttempt, SerialContext, TypeOK, Times
    <2> QED
      BY <2>1 DEF SerialContext, SerialInv, OneAtATime, InOrder, Filtered, Busy
  <1> QED
    BY <1>1, <1>2, <1>3, ArriveSerial, SnapshotSerial, RebindSerial, CheckSerial,
       RecordSerial
    DEF Next

LEMMA SerialHolds == Spec => []SerialContext
  <1>1. Init /\ TypeOK /\ Numbered /\ FailuresAreReal /\ CopiesAreReal => SerialContext
    BY SerialInit DEF SerialContext
  <1>2. SerialContext /\ [Next]_vars
            /\ (TypeOK /\ Numbered)' /\ (FailuresAreReal /\ CopiesAreReal)'
        => SerialContext'
    BY SerialStep DEF SerialContext
  <1> QED
    BY <1>1, <1>2, TypesHold, ListHolds, PTL DEF Spec

-----------------------------------------------------------------------------
(* The limit and the lockout                                               *)

\* Entries of a finite list within a window are no more than the list has, and a
\* larger list has no fewer of them.
LEMMA WithinSubset ==
    ASSUME NEW R, IsFiniteSet(R), NEW S \in SUBSET R, NEW a, NEW b
    PROVE  /\ Within(S, a, b) \in Nat /\ Within(R, a, b) \in Nat
           /\ Within(S, a, b) <= Within(R, a, b)
  <1> DEFINE w(T) == {e \in T : a <= e.at /\ e.at <= b}
  <1>1. IsFiniteSet(w(R)) /\ Cardinality(w(R)) \in Nat
    BY FS_Subset, FS_CardinalityType
  <1>2. w(S) \in SUBSET w(R)
    OBVIOUS
  <1>3. IsFiniteSet(w(S)) /\ Cardinality(w(S)) <= Cardinality(w(R))
    BY <1>1, <1>2, FS_Subset
  <1>4. Cardinality(w(S)) \in Nat
    BY <1>3, FS_CardinalityType
  <1> QED
    BY <1>1, <1>3, <1>4 DEF Within

\* Only Record extends the history.
LEMMA HistoryStep ==
    ASSUME [Next]_vars
    PROVE  \/ UNCHANGED rejected
           \/ \E t \in Threads : Record(t)
  BY DEF Next, vars, Register, Arrive, Snapshot, Rebind, Check, Verify, Tick, Restart

\* An attempt that is answered 401 joins fewer than MaxFailed of its window: all of
\* them are on the list.
LEMMA RecordIsLimited ==
    ASSUME SerialContext, ~ restarted, ~ overlapped, FailuresAreLimited,
           NEW t \in Threads, Record(t), NEW first \in Times
    PROVE  Within(rejected', first, first + Window - 1) <= MaxFailed
  <1> USE DEF SerialContext, TypeOK
  <1> DEFINE new == NewEntry(t)
             w(T) == {e \in T : first <= e.at /\ e.at <= first + Window - 1}
  <1>1. pc[t] = "record" /\ rejected' = rejected \cup {new}
    BY DEF Record
  <1>2. new.at = attempt[t].at /\ attempt[t].at \in Nat /\ first \in Nat
    <2>1. new.at = attempt[t].at
      BY NewEntryIsNew DEF Record
    <2>2. attempt[t].at \in Times
      BY DEF Attempt
    <2> QED
      BY <2>1, <2>2, Constants DEF Times
  <1>3. CASE new.at \notin first .. first + Window - 1
    <2>1. w(rejected') = w(rejected)
      BY <1>1, <1>2, <1>3, Constants
    <2>2. Cardinality(w(rejected)) <= MaxFailed
      BY DEF FailuresAreLimited, Within
    <2> QED
      BY <2>1, <2>2 DEF Within
  <1>4. CASE new.at \in first .. first + Window - 1
    <2>1. ASSUME NEW e \in w(rejected) PROVE e \in failed
      <3>1. e.at \in Nat
        BY DEF Entry, Times
      <3>2. e \notin failed => e.at + Window <= attempt[t].at
        BY <1>1 DEF SerialInv, InOrder, Busy
      <3> QED
        BY <1>2, <1>4, <3>1, <3>2, Constants
    <2>2. w(rejected') \in SUBSET (failed \cup {new})
      <3> HIDE DEF new
      <3> QED
        BY <1>1, <2>1
    <2>3. IsFiniteSet(failed) /\ Cardinality(failed) \in Nat
      BY FS_Subset, FS_CardinalityType DEF Numbered, FailuresAreReal
    <2>4. /\ IsFiniteSet(failed \cup {new})
          /\ Cardinality(failed \cup {new}) <= Cardinality(failed) + 1
      <3> HIDE DEF new
      <3>1. /\ IsFiniteSet(failed \cup {new})
            /\ Cardinality(failed \cup {new})
                 = IF new \in failed THEN Cardinality(failed) ELSE Cardinality(failed) + 1
        BY ONLY <2>3, FS_AddElement
      <3> QED
        BY ONLY <2>3, <3>1
    <2>5. Cardinality(failed) < MaxFailed
      BY <1>1 DEF SerialInv, Filtered
    <2>6. /\ Cardinality(w(rejected')) <= Cardinality(failed \cup {new})
          /\ Cardinality(w(rejected')) \in Nat
          /\ Cardinality(failed \cup {new}) \in Nat
      <3> HIDE DEF new, w
      <3>1. IsFiniteSet(w(rejected'))
        BY <2>2, <2>4, FS_Subset
      <3> QED
        BY <2>2, <2>4, <3>1, FS_Subset, FS_CardinalityType
    <2>7. Cardinality(w(rejected')) <= MaxFailed
      <3> HIDE DEF new, w
      <3> QED
        BY <2>3, <2>4, <2>5, <2>6, Constants
    <2> QED
      BY <2>7 DEF Within
  <1> QED
    BY <1>3, <1>4

LEMMA LimitStep ==
    ASSUME SerialContext, FailuresAreLimited, [Next]_vars PROVE FailuresAreLimited'
  <1>1. (~ restarted' => ~ restarted) /\ (~ overlapped' => ~ overlapped)
    <2>1. ASSUME NEW t \in Threads, Arrive(t)
          PROVE  (overlapped => overlapped') /\ UNCHANGED restarted
      BY <2>1 DEF Arrive
    <2>2. CASE Restart
      BY <2>2 DEF Restart
    <2>3. CASE \/ \E t \in Threads : Arrive(t)
               \/ Restart
               \/ UNCHANGED <<restarted, overlapped>>
      BY <2>1, <2>2, <2>3
    <2> QED
      BY <2>3
      DEF Next, vars, Register, Snapshot, Rebind, Check, Verify, Record, Tick
  <1>2. CASE UNCHANGED rejected
    BY <1>1, <1>2 DEF FailuresAreLimited, Within
  <1>3. ASSUME NEW t \in Threads, Record(t) PROVE FailuresAreLimited'
    <2> SUFFICES ASSUME ~ restarted', ~ overlapped', NEW first \in Times
                 PROVE  Within(rejected', first, first + Window - 1) <= MaxFailed
      BY DEF FailuresAreLimited, Within
    <2> QED
      BY <1>1, <1>3, RecordIsLimited
  <1> QED
    BY <1>2, <1>3, HistoryStep

\* The limiter limits: no more than MaxFailed attempts that began within one
\* window are answered 401, as long as attempts come one after the other and the
\* process is not restarted (auth.py:145-154, 163-167).
THEOREM LimiterLimits == Spec => []FailuresAreLimited
  <1>1. Init => FailuresAreLimited
    <2> SUFFICES ASSUME Init, NEW first \in Times
                 PROVE  Within(rejected, first, first + Window - 1) <= MaxFailed
      BY DEF FailuresAreLimited
    <2>1. {e \in rejected : first <= e.at /\ e.at <= first + Window - 1} = {}
      BY DEF Init
    <2>2. Within(rejected, first, first + Window - 1) = 0
      BY <2>1, FS_EmptySet DEF Within
    <2> QED
      BY <2>2, Constants
  <1> QED
    BY <1>1, LimitStep, SerialHolds, PTL DEF Spec

-----------------------------------------------------------------------------

\* An attempt that finds the list full has the list behind it.
LEMMA CheckIsEarned ==
    ASSUME SerialContext, ~ overlapped, NEW t \in Threads, Check(t),
           answer[t] = "none", answer'[t] = "429"
    PROVE  Within(rejected, attempt[t].at - (Window - 1), attempt[t].at) >= MaxFailed
  <1> USE DEF SerialContext, TypeOK
  <1> DEFINE a == attempt[t].at - (Window - 1)
             b == attempt[t].at
  <1>1. pc[t] = "check"
    BY DEF Check
  <1>2. IsFiniteSet(rejected) /\ failed \in SUBSET rejected
    BY DEF Numbered, FailuresAreReal
  <1>3. ASSUME NEW e \in failed PROVE a <= e.at /\ e.at <= b
    <2>1. e.at \in Nat /\ attempt[t].at \in Nat
      BY Constants DEF Entry, Attempt, Times
    <2>2. attempt[t].at < e.at + Window /\ e.at <= attempt[t].at
      BY <1>1, <1>2 DEF SerialInv, Filtered, InOrder, Busy
    <2> QED
      BY <2>1, <2>2, Constants
  <1>4. {e \in failed : a <= e.at /\ e.at <= b} = failed
    BY <1>3
  <1>5. Within(failed, a, b) = Cardinality(failed)
    BY <1>4 DEF Within
  <1>6. Cardinality(failed) >= MaxFailed
    BY DEF Check, Goto
  <1> HIDE DEF a, b
  <1>7. /\ Within(failed, a, b) \in Nat /\ Within(rejected, a, b) \in Nat
        /\ Within(failed, a, b) <= Within(rejected, a, b)
    BY <1>2, WithinSubset
  <1> QED
    BY <1>5, <1>6, <1>7, Constants DEF a, b

\* An attempt that is being served has not been answered.
AnswersAreNew == \A t \in Threads : Busy(t) => answer[t] = "none"

LockoutInv == AnswersAreNew /\ LockoutIsEarned

LEMMA AnswersStep == TypeOK /\ AnswersAreNew /\ [Next]_vars => AnswersAreNew'
  <1> SUFFICES ASSUME TypeOK, AnswersAreNew, [Next]_vars PROVE AnswersAreNew'
    OBVIOUS
  <1> USE DEF TypeOK, AnswersAreNew, Busy, Goto, Answer
  <1>1. ASSUME NEW t \in Threads, Arrive(t) PROVE AnswersAreNew'
    BY <1>1 DEF Arrive
  <1>2. ASSUME NEW t \in Threads, Snapshot(t) \/ Rebind(t) \/ Check(t) \/ Verify(t)
                   \/ Record(t)
        PROVE  AnswersAreNew'
    BY <1>2 DEF Snapshot, Rebind, Check, Verify, Record
  <1>3. Restart \/ Tick \/ (\E n \in RawNames : Register(n)) \/ UNCHANGED vars
          => AnswersAreNew'
    BY DEF Restart, Tick, Register, vars
  <1> QED
    BY <1>1, <1>2, <1>3 DEF Next

\* A 429 that was given stays earned: its attempt keeps its time and the history
\* only grows.
LEMMA EarnedStays ==
    ASSUME SerialContext, [Next]_vars, ~ overlapped', LockoutIsEarned,
           NEW t \in Threads, answer'[t] = "429", answer[t] = "429"
    PROVE  Within(rejected', attempt'[t].at - (Window - 1), attempt'[t].at) >= MaxFailed
  <1> USE DEF SerialContext, TypeOK
  <1>1. attempt'[t].at = attempt[t].at
    <2>1. ASSUME NEW s \in Threads, Arrive(s) PROVE s # t /\ attempt'[t] = attempt[t]
      BY <2>1 DEF Arrive
    <2>2. ASSUME NEW s \in Threads, Snapshot(s) \/ Rebind(s)
          PROVE  attempt'[t].at = attempt[t].at
      BY <2>2 DEF Snapshot, Rebind, Attempt
    <2>3. ~ Restart
      BY DEF Restart
    <2> QED
      BY <2>1, <2>2, <2>3 DEF Next, vars, Register, Check, Verify, Record, Tick
  <1>2. ~ overlapped
    BY DEF Next, vars, Register, Arrive, Snapshot, Rebind, Check, Verify, Record,
           Tick, Restart
  <1>3. rejected \subseteq rejected' /\ IsFiniteSet(rejected')
    <2>1. ASSUME NEW s \in Threads, Record(s)
          PROVE  rejected \subseteq rejected' /\ IsFiniteSet(rejected')
      BY <2>1, FS_AddElement DEF Record, Numbered
    <2> QED
      BY <2>1, HistoryStep DEF Numbered
  <1> DEFINE a == attempt[t].at - (Window - 1)
             b == attempt[t].at
  <1>4. Within(rejected, a, b) >= MaxFailed
    BY <1>2 DEF LockoutIsEarned
  <1>5. Within(rejected', a, b) >= MaxFailed
    <2> HIDE DEF a, b
    <2>1. /\ Within(rejected, a, b) \in Nat /\ Within(rejected', a, b) \in Nat
          /\ Within(rejected, a, b) <= Within(rejected', a, b)
      BY <1>3, WithinSubset
    <2> QED
      BY <1>4, <2>1, Constants
  <1> QED
    BY <1>1, <1>5

LEMMA LockoutStep ==
    ASSUME SerialContext, LockoutInv, [Next]_vars PROVE LockoutIsEarned'
  <1> SUFFICES ASSUME NEW t \in Threads, answer'[t] = "429", ~ overlapped'
               PROVE  Within(rejected', attempt'[t].at - (Window - 1), attempt'[t].at)
                        >= MaxFailed
    BY DEF LockoutIsEarned, Within
  <1>1. CASE answer[t] = "429"
    BY <1>1, EarnedStays DEF LockoutInv
  <1>2. CASE answer[t] # "429"
    <2>1. Check(t)
      <3>1. ASSUME NEW s \in Threads, Arrive(s) \/ Verify(s) \/ Record(s) PROVE FALSE
        BY <1>2, <3>1 DEF Arrive, Verify, Record, Goto, Answer, SerialContext, TypeOK
      <3>2. ASSUME NEW s \in Threads, Check(s) PROVE s = t
        BY <1>2, <3>2 DEF Check, Goto, Answer, SerialContext, TypeOK
      <3>3. ~ Restart
        BY DEF Restart
      <3> QED
        BY <1>2, <3>1, <3>2, <3>3 DEF Next, vars, Register, Snapshot, Rebind, Tick, Goto
    <2>2. answer[t] = "none"
      BY <2>1 DEF LockoutInv, AnswersAreNew, Busy, Check
    <2>3. ~ overlapped /\ UNCHANGED <<attempt, rejected>>
      BY <2>1 DEF Check
    <2> QED
      BY <2>1, <2>2, <2>3, CheckIsEarned
  <1> QED
    BY <1>1, <1>2

\* Nobody is locked out for nothing: behind a 429 there are MaxFailed failures of
\* the window before that attempt, restarts or not (auth.py:145-154).
THEOREM LockoutsAreEarned == Spec => []LockoutIsEarned
  <1>1. Init => LockoutInv
    BY DEF Init, LockoutInv, AnswersAreNew, LockoutIsEarned, Busy
  <1>2. SerialContext /\ LockoutInv /\ [Next]_vars => LockoutInv'
    BY AnswersStep, LockoutStep DEF LockoutInv, SerialContext
  <1>3. LockoutInv => LockoutIsEarned
    BY DEF LockoutInv
  <1> QED
    BY <1>1, <1>2, <1>3, SerialHolds, PTL DEF Spec

=============================================================================
