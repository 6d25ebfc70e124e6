-------------------------- MODULE MessagingProofs --------------------------
(***************************************************************************)
(* The message service, for every set of threads, users and messages and   *)
(* every choice of failures: it implements Mailbox, a deleted message      *)
(* stays unread, the receiver can open what is intact, and the inbox, the  *)
(* audit log and the answers to senders are the truth.                     *)
(***************************************************************************)
EXTENDS Messaging, FiniteSetTheorems, TLAPS

-----------------------------------------------------------------------------
(* What each thread knows about the message it works on                    *)

Sending == {"encrypt", "store", "refresh"}
Looking == {"find", "find_to_delete"}
Reading == {"decrypt", "opened", "failed", "corrupted"}

\* SQLite's ids leave no gap, because no row is ever removed.
Numbered == \E n \in 0 .. MaxId : Stored = 1 .. n

\* A request is complete, and past its lookup it may do what it is about to do.
GroundedAt(t) ==
    /\ pc[t] \in Sending =>
          req[t].user \in users /\ req[t].to \in users \ {req[t].user}
    /\ pc[t] = "refresh" => req[t].msg \in Stored
    /\ pc[t] \in Looking => req[t].user \in users /\ req[t].msg \in RowIds
    /\ pc[t] \in Reading \cup {"denied", "delete"} =>
          req[t].user \in users /\ req[t].msg \in Stored
    /\ pc[t] \in Reading => box[req[t].msg].receiver = req[t].user
    /\ pc[t] = "denied" => box[req[t].msg].receiver # req[t].user
    /\ pc[t] = "delete" => MayDelete(req[t].user, req[t].msg)

Grounded == \A t \in Threads : GroundedAt(t)

\* The users a row names have registered.
RowsNameUsers ==
    \A m \in Stored : box[m].sender \in users /\ box[m].receiver \in users

Base == TypeOK /\ Numbered /\ Grounded /\ RowsNameUsers

LEMMA BaseInit == Init => Base
  <1> SUFFICES ASSUME Init PROVE Base
    OBVIOUS
  <1>1. TypeOK
    BY DEF Init, TypeOK, Stages, Statuses, Request, NoRequest
  <1>2. Stored = 1 .. 0
    BY DEF Init, Stored
  <1>3. Numbered
    BY <1>2, BoundIsNat DEF Numbered
  <1> QED
    BY <1>1, <1>2, <1>3
    DEF Base, Init, Grounded, GroundedAt, RowsNameUsers, Sending, Looking, Reading

\* The id of a new row is one no row has had.
LEMMA NextIdIsNew ==
    ASSUME Numbered, Stored # RowIds
    PROVE  /\ Cardinality(Stored) + 1 \in RowIds \ Stored
           /\ Stored \cup {Cardinality(Stored) + 1} = 1 .. (Cardinality(Stored) + 1)
  <1>1. PICK n \in 0 .. MaxId : Stored = 1 .. n
    BY DEF Numbered
  <1>2. n \in Nat /\ n < MaxId
    BY <1>1, BoundIsNat DEF RowIds
  <1>3. Cardinality(1 .. n) = n
    BY <1>2, FS_Interval
  <1> QED
    BY <1>1, <1>2, <1>3, BoundIsNat DEF RowIds

-----------------------------------------------------------------------------
(* What a step does to the table                                           *)

\* The row thread t inserts becomes row id.
Inserts(t, id) ==
    /\ pc[t] = "store" /\ id \in RowIds \ Stored
    /\ box' = [box EXCEPT ![id] = NewRow(t)]
    /\ Stored' = Stored \cup {id}

\* Thread t sets the flag of its message.
Flags(t) ==
    /\ pc[t] = "delete"
    /\ box' = [box EXCEPT ![req[t].msg].deleted = TRUE]
    /\ Stored' = Stored

\* The content of row m goes bad.
Spoils(m) ==
    /\ "damage" \in faults' /\ m \in Stored
    /\ \E damage \in Damages : box' = [box EXCEPT ![m].content = damage]
    /\ Stored' = Stored

LEMMA StoreInserts ==
    ASSUME Base, NEW t \in Threads, Store(t)
    PROVE  \/ /\ Inserts(t, Cardinality(Stored) + 1)
              /\ pc' = [pc EXCEPT ![t] = "refresh"]
              /\ req' = [req EXCEPT ![t].msg = Cardinality(Stored) + 1]
              /\ UNCHANGED answer
              /\ Numbered'
           \/ UNCHANGED <<box, req>> /\ Answer(t, "500") /\ Stored' = Stored
  <1>1. CASE UNCHANGED <<box, req>> /\ Answer(t, "500")
    BY <1>1 DEF Stored
  <1>2. CASE /\ pc[t] = "store" /\ Stored # RowIds
             /\ box' = [box EXCEPT ![Cardinality(Stored) + 1] = NewRow(t)]
             /\ req' = [req EXCEPT ![t].msg = Cardinality(Stored) + 1]
             /\ Goto(t, "refresh")
    <2> DEFINE id == Cardinality(Stored) + 1
    <2>1. id \in RowIds \ Stored /\ Stored \cup {id} = 1 .. id
      BY <1>2, NextIdIsNew DEF Base
    <2> HIDE DEF id
    <2>2. box' = [box EXCEPT ![id] = NewRow(t)] /\ box \in [RowIds -> Message \cup {NoRow}]
      BY <1>2 DEF id, Base, TypeOK
    <2>3. NewRow(t) \in Message
      BY <1>2 DEF NewRow, Message, Base, TypeOK, Grounded, GroundedAt, Sending
    <2>4. Stored' = Stored \cup {id}
      BY <2>1, <2>2, <2>3, NoRowIsNotAMessage DEF Stored
    <2>5. Numbered'
      BY <2>1, <2>4, BoundIsNat DEF Numbered, RowIds
    <2> QED
      BY <1>2, <2>1, <2>2, <2>4, <2>5 DEF Inserts, Goto, id
  <1> QED
    BY <1>1, <1>2 DEF Store

LEMMA DeleteFlags ==
    ASSUME Base, NEW t \in Threads, Delete(t)
    PROVE  \/ /\ Flags(t) /\ Answer(t, "204")
              /\ gone' = gone \cup {req[t].msg}
           \/ UNCHANGED <<box, gone>> /\ Answer(t, "500") /\ Stored' = Stored
  <1>1. box \in [RowIds -> Message \cup {NoRow}] /\ req[t].msg \in Stored
    BY DEF Base, TypeOK, Grounded, GroundedAt, Delete
  <1>2. box[req[t].msg] \in Message
    BY <1>1 DEF Stored
  <1>3. ASSUME box' = [box EXCEPT ![req[t].msg].deleted = TRUE]
        PROVE  Stored' = Stored
    <2>1. box'[req[t].msg] \in Message
      BY <1>1, <1>2, <1>3 DEF Message, Stored
    <2> QED
      BY <1>1, <1>3, <2>1, NoRowIsNotAMessage DEF Stored
  <1> QED
    BY <1>3 DEF Delete, Flags, Stored

LEMMA DamageSpoils ==
    ASSUME Base, NEW m \in RowIds, Damage(m)
    PROVE  Spoils(m)
  <1>1. PICK damage \in Damages : box' = [box EXCEPT ![m].content = damage]
    BY DEF Damage
  <1>2. box \in [RowIds -> Message \cup {NoRow}] /\ m \in Stored
    BY DEF Base, TypeOK, Damage
  <1>3. box'[m] \in Message
    BY <1>1, <1>2 DEF Stored, Message
  <1>4. Stored' = Stored
    BY <1>1, <1>2, <1>3, NoRowIsNotAMessage DEF Stored
  <1> QED
    BY <1>1, <1>2, <1>4 DEF Damage, Spoils, Fault, Excuses

\* The steps that touch no row.
LEMMA QuietSteps ==
    ASSUME Base, [Next]_vars,
           ~ \E t \in Threads : Store(t) \/ Delete(t),
           ~ \E m \in RowIds : Damage(m)
    PROVE  UNCHANGED <<box, gone>> /\ Stored' = Stored
  <1>1. UNCHANGED <<box, gone>>
    BY DEF Next, Step, Register, StartSend, StartRead, StartDelete, Encrypt, Refresh,
           FindMessage, Decrypt, AnswerRead, FindToDelete, Crash, vars
  <1> QED
    BY <1>1 DEF Stored

\* Every step changes the table in one of these ways or not at all.
LEMMA TableStep ==
    ASSUME Base, [Next]_vars
    PROVE  \/ \E t \in Threads : \E id \in RowIds : Store(t) /\ Inserts(t, id)
           \/ \E t \in Threads : Delete(t) /\ Flags(t)
           \/ \E m \in RowIds : Damage(m) /\ Spoils(m)
           \/ UNCHANGED box /\ Stored' = Stored
  <1>1. ASSUME NEW t \in Threads, Store(t)
        PROVE  (\E id \in RowIds : Inserts(t, id)) \/ (UNCHANGED box /\ Stored' = Stored)
    BY <1>1, StoreInserts DEF Inserts
  <1>2. ASSUME NEW t \in Threads, Delete(t)
        PROVE  Flags(t) \/ (UNCHANGED box /\ Stored' = Stored)
    BY <1>2, DeleteFlags
  <1> QED
    BY <1>1, <1>2, DamageSpoils, QuietSteps

\* A row that is there keeps its sender, its receiver and its key.
LEMMA RowsStay ==
    ASSUME Base, [Next]_vars, NEW m \in Stored
    PROVE  /\ m \in Stored' /\ box[m] \in Message
           /\ box'[m].sender = box[m].sender /\ box'[m].receiver = box[m].receiver
           /\ box'[m].key = box[m].key
           /\ box[m].deleted => box'[m].deleted
  <1>1. box \in [RowIds -> Message \cup {NoRow}] /\ m \in RowIds
    BY DEF Base, TypeOK, Stored
  <1>2. box[m] \in Message
    BY <1>1 DEF Stored
  <1>3. ASSUME NEW t \in Threads, NEW id \in RowIds, Inserts(t, id)
        PROVE  m \in Stored' /\ box'[m] = box[m]
    BY <1>1, <1>3 DEF Inserts
  <1>4. ASSUME NEW t \in Threads, Flags(t)
        PROVE  /\ m \in Stored'
               /\ box'[m] = box[m] \/ box'[m] = [box[m] EXCEPT !.deleted = TRUE]
    BY <1>1, <1>4 DEF Flags
  <1>5. ASSUME NEW i \in RowIds, Spoils(i)
        PROVE  /\ m \in Stored'
               /\ \/ box'[m] = box[m]
                  \/ \E damage \in Damages : box'[m] = [box[m] EXCEPT !.content = damage]
    BY <1>1, <1>5 DEF Spoils
  <1> QED
    BY <1>2, <1>3, <1>4, <1>5, TableStep DEF Message

-----------------------------------------------------------------------------
(* What a step does to the threads                                         *)

\* A thread either stays as it is, or takes a step of its own, or loses its
\* request to a restart.
Rests(t) == UNCHANGED <<pc[t], req[t], answer[t]>>
Forgets(t) == pc'[t] = "idle" /\ req'[t] = NoRequest /\ answer'[t] = "none"
Moves(t) == StartSend(t) \/ StartRead(t) \/ StartDelete(t) \/ Step(t)

LEMMA ThreadStep ==
    ASSUME TypeOK, [Next]_vars, NEW t \in Threads
    PROVE  Rests(t) \/ Forgets(t) \/ Moves(t)
  <1>1. ASSUME NEW s \in Threads, s # t, Moves(s)
        PROVE  Rests(t)
    BY <1>1 DEF Moves, Step, Rests, StartSend, StartRead, StartDelete, Encrypt, Store,
                Refresh, FindMessage, Decrypt, AnswerRead, FindToDelete, Delete,
                Begin, Goto, Answer, TypeOK
  <1>2. CASE Crash
    BY <1>2 DEF Crash, Forgets
  <1>3. CASE (\E i \in Ids : Register(i)) \/ (\E m \in RowIds : Damage(m)) \/ UNCHANGED vars
    BY <1>3 DEF Register, Damage, vars, Rests
  <1> QED
    BY <1>1, <1>2, <1>3 DEF Next, Moves

LEMMA UsersStay == TypeOK /\ [Next]_vars => users \subseteq users' /\ users' \subseteq Ids
  BY DEF Next, Step, Register, StartSend, StartRead, StartDelete, Encrypt, Store, Refresh,
         FindMessage, Decrypt, AnswerRead, FindToDelete, Delete, Crash, Damage, vars, TypeOK

-----------------------------------------------------------------------------
(* The invariant under the rest                                            *)

LEMMA BoxTypeStep ==
    ASSUME Base, [Next]_vars
    PROVE  box' \in [RowIds -> Message \cup {NoRow}]
  <1>1. box \in [RowIds -> Message \cup {NoRow}]
    BY DEF Base, TypeOK
  <1>2. ASSUME NEW t \in Threads, NEW id \in RowIds, Inserts(t, id)
        PROVE  box' \in [RowIds -> Message \cup {NoRow}]
    <2>1. NewRow(t) \in Message
      BY <1>2 DEF NewRow, Message, Inserts, Base, TypeOK, Grounded, GroundedAt, Sending
    <2> QED
      BY <1>1, <1>2, <2>1 DEF Inserts
  <1>3. ASSUME NEW t \in Threads, Flags(t)
        PROVE  box' \in [RowIds -> Message \cup {NoRow}]
    <2>1. req[t].msg \in RowIds /\ box[req[t].msg] \in Message
      BY <1>1, <1>3 DEF Flags, Base, Grounded, GroundedAt, Stored
    <2>2. [box[req[t].msg] EXCEPT !.deleted = TRUE] \in Message
      BY <2>1 DEF Message
    <2> QED
      BY <1>1, <1>3, <2>1, <2>2 DEF Flags
  <1>4. ASSUME NEW m \in RowIds, Spoils(m)
        PROVE  box' \in [RowIds -> Message \cup {NoRow}]
    <2>1. PICK damage \in Damages : box' = [box EXCEPT ![m].content = damage]
      BY <1>4 DEF Spoils
    <2>2. [box[m] EXCEPT !.content = damage] \in Message
      BY <1>1, <1>4 DEF Spoils, Stored, Message
    <2> QED
      BY <1>1, <2>1, <2>2
  <1> QED
    BY <1>1, <1>2, <1>3, <1>4, TableStep

LEMMA TypeStep ==
    ASSUME Base, [Next]_vars
    PROVE  TypeOK'
  <1> USE DEF Stages, Statuses, Goto, Answer, Begin
  <1>1. TypeOK
    BY DEF Base
  <1>2. box' \in [RowIds -> Message \cup {NoRow}]
    BY BoxTypeStep
  <1>3. users' \subseteq Ids
    BY <1>1, UsersStay
  <1>4. ASSUME NEW t \in Threads, StartSend(t) PROVE TypeOK'
    <2>1. PICK u \in users : \E r \in users \ {u} :
             Begin(t, "encrypt", [NoRequest EXCEPT !.user = u, !.to = r])
      BY <1>4 DEF StartSend
    <2>2. PICK r \in users \ {u} :
             Begin(t, "encrypt", [NoRequest EXCEPT !.user = u, !.to = r])
      BY <2>1
    <2>3. [NoRequest EXCEPT !.user = u, !.to = r] \in Request
      BY <1>1 DEF NoRequest, Request, TypeOK
    <2> QED
      BY <1>1, <1>2, <1>3, <1>4, <2>2, <2>3 DEF StartSend, TypeOK
  <1>5. ASSUME NEW t \in Threads, StartRead(t) \/ StartDelete(t) PROVE TypeOK'
    <2>1. PICK u \in users, m \in RowIds, stage \in Looking :
             Begin(t, stage, [user |-> u, to |-> NoId, msg |-> m, late |-> m \in gone])
      BY <1>5 DEF StartRead, StartDelete, Looking
    <2>2. [user |-> u, to |-> NoId, msg |-> m, late |-> m \in gone] \in Request
      BY <1>1 DEF Request, TypeOK
    <2> QED
      BY <1>1, <1>2, <1>3, <1>5, <2>1, <2>2 DEF StartRead, StartDelete, TypeOK, Looking
  <1>6. ASSUME NEW t \in Threads, Encrypt(t) \/ Refresh(t) PROVE TypeOK'
    BY <1>1, <1>2, <1>3, <1>6 DEF Encrypt, Refresh, TypeOK, Fault
  <1>7. ASSUME NEW t \in Threads, Store(t) PROVE TypeOK'
    <2>1. req' \in [Threads -> Request]
      <3>1. CASE UNCHANGED req
        BY <1>1, <3>1 DEF TypeOK
      <3>2. CASE /\ Cardinality(Stored) + 1 \in RowIds
                 /\ req' = [req EXCEPT ![t].msg = Cardinality(Stored) + 1]
        <4> DEFINE id == Cardinality(Stored) + 1
        <4> HIDE DEF id
        <4>1. id \in RowIds /\ req' = [req EXCEPT ![t].msg = id]
          BY <3>2 DEF id
        <4> QED
          BY <1>1, <4>1 DEF TypeOK, Request
      <3> QED
        BY <1>7, <3>1, <3>2, StoreInserts DEF Inserts
    <2> QED
      BY <1>1, <1>2, <1>3, <1>7, <2>1 DEF Store, TypeOK, Fault
  <1>8. ASSUME NEW t \in Threads, FindMessage(t) \/ Decrypt(t) \/ FindToDelete(t)
        PROVE  TypeOK'
    BY <1>1, <1>2, <1>3, <1>8 DEF FindMessage, Decrypt, FindToDelete, TypeOK
  <1>9. ASSUME NEW t \in Threads, AnswerRead(t) PROVE TypeOK'
    <2>1. req[t].msg \in RowIds /\ req[t].user \in Ids
      BY <1>1, <1>9 DEF AnswerRead, Base, Grounded, GroundedAt, Reading, Stored, TypeOK
    <2>2. PICK success \in BOOLEAN : WriteAudit(t, success)
      BY <1>9 DEF AnswerRead
    <2>3. audit' \subseteq AuditRow /\ faults' \subseteq Excuses
      BY <1>1, <2>1, <2>2 DEF WriteAudit, TypeOK, AuditRow, Fault
    <2> QED
      BY <1>1, <1>2, <1>3, <1>9, <2>3 DEF AnswerRead, TypeOK
  <1>10. ASSUME NEW t \in Threads, Delete(t) PROVE TypeOK'
    <2>1. req[t].msg \in RowIds
      BY <1>1, <1>10 DEF Delete, TypeOK, Base, Grounded, GroundedAt, Stored
    <2> QED
      BY <1>1, <1>2, <1>3, <1>10, <2>1 DEF Delete, TypeOK, Fault
  <1>11. ASSUME \E i \in Ids : Register(i) PROVE TypeOK'
    BY <1>1, <1>2, <1>3, <1>11 DEF Register, TypeOK
  <1>12. ASSUME Crash PROVE TypeOK'
    BY <1>1, <1>2, <1>3, <1>12 DEF Crash, TypeOK, NoRequest, Request, Fault
  <1>13. ASSUME \E m \in RowIds : Damage(m) PROVE TypeOK'
    BY <1>1, <1>2, <1>3, <1>13 DEF Damage, TypeOK, Fault
  <1>14. CASE UNCHANGED vars
    BY <1>1, <1>14 DEF vars, TypeOK
  <1> QED
    BY <1>4, <1>5, <1>6, <1>7, <1>8, <1>9, <1>10, <1>11, <1>12, <1>13, <1>14
    DEF Next, Step

LEMMA GroundedStep ==
    ASSUME Base, [Next]_vars
    PROVE  Grounded'
  <1> SUFFICES ASSUME NEW t \in Threads PROVE GroundedAt(t)'
    BY DEF Grounded
  <1> USE DEF GroundedAt, Sending, Looking, Reading, Begin, Goto, Answer
  <1>1. TypeOK /\ GroundedAt(t)
    BY DEF Base, Grounded
  <1>2. users \subseteq users' /\ RowIds' = RowIds
    BY <1>1, UsersStay DEF RowIds
  <1>3. \A m \in Stored :
           /\ m \in Stored' /\ box'[m].sender = box[m].sender
           /\ box'[m].receiver = box[m].receiver
    BY RowsStay
  <1>4. CASE Rests(t)
    BY <1>1, <1>2, <1>3, <1>4 DEF Rests, MayDelete
  <1>5. CASE Forgets(t)
    BY <1>5 DEF Forgets
  <1>6. CASE StartSend(t)
    <2>1. PICK u \in users : \E r \in users \ {u} :
             Begin(t, "encrypt", [NoRequest EXCEPT !.user = u, !.to = r])
      BY <1>6 DEF StartSend
    <2>2. PICK r \in users \ {u} :
             Begin(t, "encrypt", [NoRequest EXCEPT !.user = u, !.to = r])
      BY <2>1
    <2>3. pc'[t] = "encrypt" /\ req'[t].user = u /\ req'[t].to = r
      BY <1>1, <2>2 DEF TypeOK, NoRequest
    <2> QED
      BY <1>2, <2>3
  <1>7. CASE StartRead(t) \/ StartDelete(t)
    <2>1. PICK u \in users, m \in RowIds, stage \in Looking :
             Begin(t, stage, [user |-> u, to |-> NoId, msg |-> m, late |-> m \in gone])
      BY <1>7 DEF StartRead, StartDelete
    <2>2. pc'[t] \in Looking /\ req'[t].user = u /\ req'[t].msg = m
      BY <1>1, <2>1 DEF TypeOK
    <2> QED
      BY <1>2, <2>2
  <1>8. CASE Encrypt(t) \/ Refresh(t)
    BY <1>1, <1>2, <1>8 DEF Encrypt, Refresh, TypeOK
  <1>9. CASE Store(t)
    <2>1. CASE Answer(t, "500")
      BY <1>1, <2>1 DEF TypeOK
    <2>2. CASE /\ Inserts(t, Cardinality(Stored) + 1)
               /\ pc' = [pc EXCEPT ![t] = "refresh"]
               /\ req' = [req EXCEPT ![t].msg = Cardinality(Stored) + 1]
      <3> DEFINE id == Cardinality(Stored) + 1
      <3>1. id \in Stored'
        BY <2>2 DEF Inserts
      <3> HIDE DEF id
      <3>2. pc'[t] = "refresh" /\ req' = [req EXCEPT ![t].msg = id]
        BY <1>1, <2>2 DEF TypeOK, id
      <3>3. req[t] \in Request
        BY <1>1 DEF TypeOK
      <3>4. req'[t].user = req[t].user /\ req'[t].to = req[t].to /\ req'[t].msg = id
        BY <1>1, <3>2, <3>3 DEF TypeOK, Request
      <3> QED
        BY <1>1, <1>2, <2>2, <3>1, <3>2, <3>4 DEF Inserts
    <2> QED
      BY <1>9, <2>1, <2>2, StoreInserts
  <1>10. CASE FindMessage(t)
    <2>1. UNCHANGED <<users, box, req>> /\ Stored' = Stored
      BY <1>10 DEF FindMessage, Stored
    <2> QED
      BY <1>1, <1>10, <2>1 DEF FindMessage, Found, MayRead, TypeOK
  <1>11. CASE Decrypt(t)
    <2>1. UNCHANGED <<users, box, req>> /\ Stored' = Stored
      BY <1>11 DEF Decrypt, Stored
    <2>2. pc[t] = "decrypt" /\ pc'[t] \in Reading \cup {"idle"}
      BY <1>1, <1>11 DEF Decrypt, TypeOK
    <2> QED
      BY <1>1, <2>1, <2>2
  <1>12. CASE AnswerRead(t) \/ Delete(t)
    <2>1. pc'[t] = "idle"
      BY <1>1, <1>12 DEF AnswerRead, Delete, TypeOK
    <2> QED
      BY <2>1
  <1>13. CASE FindToDelete(t)
    <2>1. UNCHANGED <<users, box, req>> /\ Stored' = Stored
      BY <1>13 DEF FindToDelete, Stored
    <2> QED
      BY <1>1, <1>13, <2>1 DEF FindToDelete, Found, MayDelete, TypeOK
  <1> QED
    BY <1>1, <1>4, <1>5, <1>6, <1>7, <1>8, <1>9, <1>10, <1>11, <1>12, <1>13, ThreadStep
    DEF Moves, Step

LEMMA BaseStep == Base /\ [Next]_vars => Base'
  <1> SUFFICES ASSUME Base, [Next]_vars PROVE Base'
    OBVIOUS
  <1>1. TypeOK' /\ Grounded'
    BY TypeStep, GroundedStep
  <1>2. Numbered'
    <2>1. Numbered
      BY DEF Base
    <2>2. ASSUME NEW t \in Threads, Store(t) PROVE Numbered'
      BY <2>1, <2>2, StoreInserts DEF Numbered
    <2>3. ASSUME Stored' = Stored PROVE Numbered'
      BY <2>1, <2>3 DEF Numbered
    <2> QED
      BY <2>2, <2>3, TableStep DEF Flags, Spoils
  <1>3. RowsNameUsers'
    <2>1. users \subseteq users'
      BY UsersStay DEF Base
    <2>2. \A m \in Stored : /\ box'[m].sender = box[m].sender
                            /\ box'[m].receiver = box[m].receiver
      BY RowsStay
    <2>3. ASSUME NEW m \in Stored' \ Stored
          PROVE  box'[m].sender \in users /\ box'[m].receiver \in users
      <3>1. PICK t \in Threads, id \in RowIds : Inserts(t, id)
        BY <2>3, TableStep DEF Flags, Spoils
      <3>2. m = id /\ box'[m] = NewRow(t)
        BY <2>3, <3>1 DEF Inserts, Base, TypeOK
      <3> QED
        BY <3>1, <3>2 DEF Inserts, NewRow, Base, Grounded, GroundedAt, Sending
    <2> QED
      BY <2>1, <2>2, <2>3 DEF Base, RowsNameUsers
  <1> QED
    BY <1>1, <1>2, <1>3 DEF Base

LEMMA BaseHolds == Spec => []Base
  <1> QED
    BY BaseInit, BaseStep, PTL DEF Spec

\* The variables keep their types (communication.py).
THEOREM TypeCorrect == Spec => []TypeOK
  <1> QED
    BY BaseHolds, PTL DEF Base

-----------------------------------------------------------------------------
(* The table                                                               *)

LEMMA MailRows ==
    ASSUME NEW row \in Message
    PROVE  /\ row # NoRow /\ MailRow(row) # NoRow
           /\ MailRow(row) = [sender |-> row.sender, receiver |-> row.receiver,
                              deleted |-> row.deleted]
  <1>1. [sender |-> row.sender, receiver |-> row.receiver, deleted |-> row.deleted]
        \in [sender : Ids, receiver : Ids, deleted : BOOLEAN]
    BY DEF Message
  <1> QED
    BY <1>1, NoRowIsNotAMessage DEF MailRow

LEMMA MailStored ==
    ASSUME TypeOK
    PROVE  Mail!Stored = Stored
  <1>1. \A m \in RowIds : (MailRow(box[m]) = NoRow <=> box[m] = NoRow)
    BY MailRows DEF TypeOK, MailRow
  <1> QED
    BY <1>1 DEF Mail!Stored, Mail!RowIds, RowIds, Stored, mail

LEMMA MailCardinality == ASSUME NEW S PROVE Mail!Cardinality(S) = Cardinality(S)
  BY DEF Mail!Cardinality, Cardinality

\* A row that is inserted is a message that is posted.
LEMMA InsertIsPost ==
    ASSUME Base, NEW t \in Threads, Inserts(t, Cardinality(Stored) + 1)
    PROVE  \E s, r \in Ids : Mail!Post(s, r)
  <1> DEFINE id == Cardinality(Stored) + 1
             s == req[t].user
             r == req[t].to
             new == [sender |-> s, receiver |-> r, deleted |-> FALSE]
  <1>1. TypeOK /\ box \in [RowIds -> Message \cup {NoRow}]
    BY DEF Base, TypeOK
  <1>2. s \in Ids /\ r \in Ids /\ s # r
    BY <1>1 DEF Inserts, Base, Grounded, GroundedAt, Sending, TypeOK
  <1>3. Mail!NextId = id
    <2>1. Stored # RowIds
      BY DEF Inserts
    <2> QED
      BY <1>1, <2>1, MailStored, MailCardinality DEF Mail!NextId, Mail!RowIds, RowIds
  <1>4. id \in RowIds /\ id # 0 /\ box' = [box EXCEPT ![id] = NewRow(t)]
    BY DEF Inserts, RowIds
  <1>5. NewRow(t) \in Message /\ MailRow(NewRow(t)) = new
    <2>1. NewRow(t) \in Message
      BY <1>2 DEF NewRow, Message
    <2> QED
      BY <2>1, MailRows DEF NewRow
  <1> HIDE DEF id
  <1>6. mail' = [mail EXCEPT ![id] = new]
    BY <1>1, <1>4, <1>5 DEF mail, RowIds
  <1> QED
    BY <1>2, <1>3, <1>4, <1>6 DEF Mail!Post

\* A flag that is set is a message that is deleted, unless it was before.
LEMMA FlagIsRemove ==
    ASSUME Base, NEW t \in Threads, Flags(t)
    PROVE  \/ \E u \in Ids, m \in RowIds : Mail!Remove(u, m)
           \/ UNCHANGED mail
  <1>1. TypeOK /\ box \in [RowIds -> Message \cup {NoRow}]
    BY DEF Base, TypeOK
  <1>2. PICK m \in Stored, u \in Ids :
           MayDelete(u, m) /\ box' = [box EXCEPT ![m].deleted = TRUE]
    BY <1>1 DEF Flags, Base, Grounded, GroundedAt, TypeOK
  <1>3. m \in RowIds /\ box[m] \in Message
    BY <1>1 DEF Stored
  <1>4. box'[m] = [box[m] EXCEPT !.deleted = TRUE] /\ box'[m] \in Message
    BY <1>1, <1>2, <1>3 DEF Message
  <1>5. mail[m] = [sender |-> box[m].sender, receiver |-> box[m].receiver,
                   deleted |-> box[m].deleted]
    BY <1>3, MailRows DEF mail
  <1>6. MailRow(box'[m]) = [mail[m] EXCEPT !.deleted = TRUE]
    <2>1. MailRow(box'[m]) = [sender |-> box[m].sender, receiver |-> box[m].receiver,
                              deleted |-> TRUE]
      BY <1>3, <1>4, MailRows DEF Message
    <2>2. mail[m] \in [sender : Ids, receiver : Ids, deleted : BOOLEAN]
      BY <1>3, <1>5 DEF Message
    <2>3. /\ mail[m].sender = box[m].sender
          /\ mail[m].receiver = box[m].receiver
      BY <1>5
    <2>4. ASSUME NEW row \in [sender : Ids, receiver : Ids, deleted : BOOLEAN]
          PROVE  [row EXCEPT !.deleted = TRUE] =
                 [sender |-> row.sender, receiver |-> row.receiver, deleted |-> TRUE]
      <3>1. PICK flagged \in [sender : Ids, receiver : Ids, deleted : BOOLEAN] :
               flagged = [row EXCEPT !.deleted = TRUE]
        OBVIOUS
      <3>2. flagged = [sender |-> row.sender, receiver |-> row.receiver,
                       deleted |-> TRUE]
        BY <3>1
      <3> QED
        BY <3>1, <3>2
    <2>5. [mail[m] EXCEPT !.deleted = TRUE] =
          [sender |-> mail[m].sender, receiver |-> mail[m].receiver, deleted |-> TRUE]
      BY <2>2, <2>4, Zenon
    <2> QED
      BY <2>1, <2>3, <2>5
  <1>7. \A i \in RowIds \ {m} : box'[i] = box[i]
    BY <1>1, <1>2
  <1>8. CASE box[m].deleted
    <2>1. box'[m] = box[m]
      BY <1>3, <1>4, <1>8 DEF Message
    <2> QED
      BY <1>7, <2>1 DEF mail, RowIds
  <1>9. CASE ~ box[m].deleted
    <2>1. mail' = [mail EXCEPT ![m].deleted = TRUE]
      BY <1>3, <1>6, <1>7 DEF mail, RowIds
    <2>2. m \in Mail!Stored /\ mail[m].sender = box[m].sender
          /\ mail[m].receiver = box[m].receiver /\ mail[m].deleted = FALSE
      BY <1>1, <1>3, <1>5, <1>9, MailStored DEF Message
    <2>3. u \in {mail[m].sender, mail[m].receiver}
      BY <1>2, <2>2 DEF MayDelete
    <2>4. Mail!Remove(u, m)
      BY <2>1, <2>2, <2>3 DEF Mail!Remove, Mail!MayDelete, Mail!Found
    <2> QED
      BY <1>2, <1>3, <2>4
  <1> QED
    BY <1>8, <1>9, <1>3 DEF Message

\* Content is not the mail service's concern.
LEMMA SpoilIsQuiet ==
    ASSUME Base, NEW m \in RowIds, Spoils(m)
    PROVE  UNCHANGED mail
  <1>1. box \in [RowIds -> Message \cup {NoRow}] /\ m \in Stored
    BY DEF Base, TypeOK, Spoils
  <1>2. PICK damage \in Damages : box' = [box EXCEPT ![m].content = damage]
    BY DEF Spoils
  <1>3. box[m] \in Message /\ m \in RowIds
    BY <1>1 DEF Stored
  <1>4. box'[m] \in Message /\ box'[m].sender = box[m].sender
        /\ box'[m].receiver = box[m].receiver /\ box'[m].deleted = box[m].deleted
    BY <1>1, <1>2, <1>3 DEF Message
  <1>5. MailRow(box'[m]) = MailRow(box[m])
    BY <1>3, <1>4, MailRows
  <1>6. \A i \in RowIds \ {m} : box'[i] = box[i]
    BY <1>1, <1>2
  <1> QED
    BY <1>5, <1>6 DEF mail, RowIds

\* What the statements of communication.py come to: messages are posted and
\* deleted one at a time, and nothing else happens to them (communication.py:
\* 144-156, 259-260).
THEOREM MessagingImplementsMailbox == Spec => ImplementsMailbox
  <1>1. Init => Mail!MailInit
    BY DEF Init, Mail!MailInit, Mail!RowIds, RowIds, mail, MailRow
  <1>2. Base /\ [Next]_vars => [Mail!MailNext]_mail
    <2> SUFFICES ASSUME Base, [Next]_vars PROVE Mail!MailNext \/ UNCHANGED mail
      OBVIOUS
    <2>1. ASSUME NEW t \in Threads, Store(t) PROVE Mail!MailNext \/ UNCHANGED mail
      BY <2>1, StoreInserts, InsertIsPost DEF Mail!MailNext, mail
    <2>2. ASSUME NEW t \in Threads, Flags(t) PROVE Mail!MailNext \/ UNCHANGED mail
      BY <2>2, FlagIsRemove DEF Mail!MailNext, Mail!RowIds, RowIds
    <2>3. UNCHANGED box => UNCHANGED mail
      BY DEF mail
    <2> QED
      BY <2>1, <2>2, <2>3, SpoilIsQuiet, TableStep
  <1> QED
    BY <1>1, <1>2, BaseHolds, PTL DEF Spec, ImplementsMailbox, Mail!MailSpec

\* A row is final but for its flag, which only a party sets (communication.py:
\* 251-260).
THEOREM PartiesDelete == Spec => OnlyPartiesDelete
  <1> DEFINE Final(m) ==
         \/ box'[m] = [box[m] EXCEPT !.content = box'[m].content]
         \/ /\ box'[m] = [box[m] EXCEPT !.deleted = TRUE]
            /\ \E t \in Threads :
                  /\ pc[t] = "delete" /\ req[t].msg = m
                  /\ req[t].user \in {box[m].sender, box[m].receiver}
  <1>1. ASSUME Base, [Next]_vars, NEW m \in Stored PROVE Final(m)
    <2>1. m \in RowIds /\ box[m] \in Message /\ box \in [RowIds -> Message \cup {NoRow}]
      BY <1>1 DEF Base, TypeOK, Stored
    <2>2. box'[m] = box[m] => Final(m)
      BY <2>1 DEF Message
    <2>3. ASSUME NEW t \in Threads, NEW id \in RowIds, Inserts(t, id) PROVE Final(m)
      BY <2>1, <2>2, <2>3 DEF Inserts
    <2>4. ASSUME NEW t \in Threads, Flags(t) PROVE Final(m)
      <3>1. CASE req[t].msg = m
        BY <1>1, <2>1, <2>4, <3>1 DEF Flags, Base, Grounded, GroundedAt, MayDelete
      <3>2. CASE req[t].msg # m
        BY <2>1, <2>2, <2>4, <3>2 DEF Flags
      <3> QED
        BY <3>1, <3>2
    <2>5. ASSUME NEW i \in RowIds, Spoils(i) PROVE Final(m)
      <3>1. PICK damage \in Damages : box' = [box EXCEPT ![i].content = damage]
        BY <2>5 DEF Spoils
      <3>2. CASE i = m
        BY <2>1, <3>1, <3>2 DEF Message, Damages
      <3>3. CASE i # m
        BY <2>1, <2>2, <3>1, <3>3
      <3> QED
        BY <3>2, <3>3
    <2> QED
      BY <1>1, <2>2, <2>3, <2>4, <2>5, TableStep
  <1>2. Base /\ [Next]_vars => [\A m \in Stored : Final(m)]_vars
    BY <1>1
  <1> QED
    BY <1>2, BaseHolds, PTL DEF Spec, OnlyPartiesDelete

\* What the inbox lists is what a read lets through (communication.py:171-177,
\* 63-67, 204).
THEOREM InboxMatchesRead == Spec => []InboxIsReadable
  <1>1. Base => InboxIsReadable
    BY DEF Base, RowsNameUsers, InboxIsReadable, Inbox, Found, MayRead
  <1> QED
    BY <1>1, BaseHolds, PTL

-----------------------------------------------------------------------------
(* The receiver                                                            *)

\* The session key of a row is its receiver's, and content only goes bad by
\* damage.
RowsOpen ==
    /\ \A m \in Stored :
          /\ box[m].key = box[m].receiver
          /\ box[m].content = "intact" \/ "damage" \in faults
    /\ ReceiverCanOpen

LEMMA FaultsStay == [Next]_vars => faults \subseteq faults'
  BY DEF Next, Step, Register, StartSend, StartRead, StartDelete, Encrypt, Store, Refresh,
         FindMessage, Decrypt, AnswerRead, WriteAudit, FindToDelete, Delete, Crash,
         Damage, Fault, vars

LEMMA RowsOpenStep == Base /\ RowsOpen /\ [Next]_vars => RowsOpen'
  <1> SUFFICES ASSUME Base, RowsOpen, [Next]_vars PROVE RowsOpen'
    OBVIOUS
  <1>1. TypeOK /\ faults \subseteq faults'
    BY FaultsStay DEF Base
  <1>2. ASSUME NEW m \in Stored'
        PROVE  /\ box'[m].key = box'[m].receiver
               /\ box'[m].content = "intact" \/ "damage" \in faults'
    <2>1. CASE m \in Stored
      <3>1. box'[m].key = box'[m].receiver
        BY <2>1, RowsStay DEF RowsOpen
      <3>2. box[m] \in Message /\ m \in RowIds
        BY <1>1, <2>1 DEF TypeOK, Stored
      <3>3. ASSUME NEW t \in Threads, NEW id \in RowIds, Inserts(t, id)
            PROVE  box'[m] = box[m]
        BY <1>1, <2>1, <3>2, <3>3 DEF Inserts, TypeOK
      <3>4. ASSUME NEW t \in Threads, Flags(t)
            PROVE  box'[m].content = box[m].content
        <4>1. CASE req[t].msg = m
          BY <1>1, <3>2, <3>4, <4>1 DEF Flags, TypeOK, Message
        <4>2. CASE req[t].msg # m
          BY <1>1, <3>2, <3>4, <4>2 DEF Flags, TypeOK
        <4> QED
          BY <4>1, <4>2
      <3> QED
        BY <1>1, <2>1, <3>1, <3>3, <3>4, TableStep DEF RowsOpen, Spoils
    <2>2. CASE m \notin Stored
      <3>1. PICK t \in Threads, id \in RowIds : Inserts(t, id)
        BY <1>2, <2>2, TableStep DEF Flags, Spoils
      <3>2. m = id /\ box'[m] = NewRow(t)
        BY <1>1, <1>2, <2>2, <3>1 DEF Inserts, TypeOK
      <3> QED
        BY <3>2 DEF NewRow
    <2> QED
      BY <2>1, <2>2
  <1>3. ASSUME NEW t \in Threads, pc'[t] \in {"failed", "corrupted"}
        PROVE  "damage" \in faults'
    <2>1. CASE Rests(t) \/ Forgets(t)
      BY <1>1, <1>3, <2>1 DEF Rests, Forgets, RowsOpen, ReceiverCanOpen
    <2>2. CASE Moves(t)
      <3>1. Decrypt(t)
        BY <1>1, <1>3, <2>2 DEF Moves, Step, StartSend, StartRead, StartDelete, Encrypt,
           Store, Refresh, FindMessage, AnswerRead, FindToDelete, Delete, Begin, Goto,
           Answer, TypeOK
      <3>2. req[t].msg \in Stored /\ box[req[t].msg].receiver = req[t].user
        BY <3>1 DEF Decrypt, Base, Grounded, GroundedAt, Reading
      <3>3. box[req[t].msg].content # "intact" \/ pc'[t] = "opened"
        <4>1. box[req[t].msg].key = req[t].user
          BY <3>2 DEF RowsOpen
        <4>2. CASE box[req[t].msg].content = "intact"
          <5>1. Goto(t, "opened")
            BY <3>1, <4>1, <4>2 DEF Decrypt, unwrap_aes_key, Authentic
          <5> QED
            BY <1>1, <5>1 DEF Goto, TypeOK
        <4> QED
          BY <4>2
      <3> QED
        BY <1>1, <1>3, <3>2, <3>3 DEF RowsOpen
    <2> QED
      BY <1>1, <2>1, <2>2, ThreadStep
  <1> QED
    BY <1>2, <1>3 DEF RowsOpen, ReceiverCanOpen

\* No receiver is told that an intact message cannot be opened, through restarts
\* and whatever others do (communication.py:115-123, 208-226).
THEOREM ReceiversOpen == Spec => []ReceiverCanOpen
  <1>1. Init => RowsOpen
    BY DEF Init, RowsOpen, ReceiverCanOpen, Stored
  <1> QED
    BY <1>1, RowsOpenStep, BaseHolds, PTL DEF Spec, RowsOpen

-----------------------------------------------------------------------------
(* Deleted messages                                                        *)

\* A request that came too late is still to look its message up, or has been
\* refused.
LateIsRefused(t) ==
    req[t].late => /\ req[t].msg \in gone
                   /\ pc[t] \in Looking \cup {"idle"}
                   /\ answer[t] \notin {"200", "204"}

GoneIsFlagged ==
    /\ \A m \in gone : m \in Stored /\ box[m].deleted
    /\ \A t \in Threads : LateIsRefused(t)

LEMMA GoneStep == Base /\ GoneIsFlagged /\ [Next]_vars => GoneIsFlagged'
  <1> SUFFICES ASSUME Base, GoneIsFlagged, [Next]_vars PROVE GoneIsFlagged'
    OBVIOUS
  <1>1. TypeOK
    BY DEF Base
  <1>2. gone \subseteq gone'
    BY DEF Next, Step, Register, StartSend, StartRead, StartDelete, Encrypt, Store,
           Refresh, FindMessage, Decrypt, AnswerRead, FindToDelete, Delete, Crash,
           Damage, vars
  <1>3. ASSUME NEW m \in gone' PROVE m \in Stored' /\ box'[m].deleted
    <2>1. \A i \in Stored :
             /\ i \in Stored'
             /\ box[i].deleted => box'[i].deleted
      BY RowsStay
    <2>2. ASSUME NEW t \in Threads, Delete(t), m \notin gone
          PROVE  m \in Stored' /\ box'[m].deleted
      <3>1. Flags(t) /\ m = req[t].msg
        BY <1>3, <2>2, DeleteFlags
      <3>2. m \in Stored /\ box[m] \in Message
        BY <1>1, <3>1 DEF Flags, Base, Grounded, GroundedAt, TypeOK, Stored
      <3> QED
        BY <1>1, <3>1, <3>2 DEF Flags, TypeOK, Message, Stored
    <2>3. CASE m \in gone
      BY <2>1, <2>3 DEF GoneIsFlagged
    <2>4. CASE m \notin gone
      <3>1. \E t \in Threads : Delete(t)
        BY <1>3, <2>4
        DEF Next, Step, Register, StartSend, StartRead, StartDelete, Encrypt, Store,
            Refresh, FindMessage, Decrypt, AnswerRead, FindToDelete, Crash, Damage, vars
      <3> QED
        BY <2>2, <2>4, <3>1
    <2> QED
      BY <2>3, <2>4
  <1>4. ASSUME NEW t \in Threads PROVE LateIsRefused(t)'
    <2> USE DEF LateIsRefused, Looking, Begin, Goto, Answer
    <2>1. LateIsRefused(t) /\ GroundedAt(t)
      BY DEF GoneIsFlagged, Base, Grounded
    <2>2. CASE Rests(t)
      BY <1>2, <2>1, <2>2 DEF Rests
    <2>3. CASE Forgets(t)
      BY <2>3 DEF Forgets, NoRequest
    <2>4. CASE StartSend(t)
      <3>1. PICK u \in users : \E r \in users \ {u} :
               Begin(t, "encrypt", [NoRequest EXCEPT !.user = u, !.to = r])
        BY <2>4 DEF StartSend
      <3>2. req'[t].late = FALSE
        BY <1>1, <3>1 DEF TypeOK, NoRequest
      <3> QED
        BY <3>2
    <2>5. CASE StartRead(t) \/ StartDelete(t)
      <3>1. PICK u \in users, m \in RowIds, stage \in Looking :
               Begin(t, stage, [user |-> u, to |-> NoId, msg |-> m, late |-> m \in gone])
        BY <2>5 DEF StartRead, StartDelete
      <3>2. /\ req'[t].msg = m /\ (req'[t].late => m \in gone)
            /\ pc'[t] \in Looking /\ answer'[t] = "none"
        BY <1>1, <3>1 DEF TypeOK
      <3> QED
        BY <1>2, <3>2
    <2>6. CASE Store(t)
      <3>1. pc[t] = "store" /\ req[t] \in Request
        BY <1>1, <2>6 DEF Store, TypeOK
      <3>2. req[t].late = FALSE
        BY <2>1, <3>1 DEF Request
      <3>3. PICK id \in RowIds \cup {0} : UNCHANGED req \/ req' = [req EXCEPT ![t].msg = id]
        BY <2>6, StoreInserts DEF Inserts
      <3>4. req'[t].late = FALSE
        BY <1>1, <3>1, <3>2, <3>3 DEF TypeOK, Request
      <3> QED
        BY <3>4
    <2>7. CASE Encrypt(t) \/ Refresh(t) \/ Decrypt(t) \/ AnswerRead(t) \/ Delete(t)
      <3>1. ~ req[t].late /\ UNCHANGED req
        BY <2>1, <2>7 DEF Encrypt, Refresh, Decrypt, AnswerRead, Delete
      <3> QED
        BY <3>1
    <2>8. CASE FindMessage(t) \/ FindToDelete(t)
      <3>1. req[t].late => ~ Found(req[t].msg)
        BY <2>1 DEF GoneIsFlagged, Found
      <3>2. UNCHANGED <<req, gone>>
        BY <2>8 DEF FindMessage, FindToDelete
      <3>3. req[t].late => pc'[t] = "idle" /\ answer'[t] = "404"
        BY <1>1, <2>8, <3>1 DEF FindMessage, FindToDelete, TypeOK
      <3> QED
        BY <2>1, <3>2, <3>3
    <2> QED
      BY <1>1, <2>2, <2>3, <2>4, <2>5, <2>6, <2>7, <2>8, ThreadStep DEF Moves, Step
  <1> QED
    BY <1>3, <1>4 DEF GoneIsFlagged

\* After a deletion was answered nobody who asks later reads or deletes the
\* message (communication.py:63-67, 259-260).
THEOREM DeletionsHold == Spec => []DeletedStaysUnread
  <1>1. Init => GoneIsFlagged
    BY DEF Init, GoneIsFlagged, LateIsRefused, NoRequest
  <1>2. GoneIsFlagged => DeletedStaysUnread
    BY DEF GoneIsFlagged, LateIsRefused, DeletedStaysUnread
  <1> QED
    BY <1>1, <1>2, GoneStep, BaseHolds, PTL DEF Spec

-----------------------------------------------------------------------------
(* The sender                                                              *)

\* A send that has stored its row.
Owns(t) == pc[t] = "refresh" \/ answer[t] = "201"

SendAt(t) ==
    /\ pc[t] # "idle" => answer[t] = "none"
    /\ pc[t] \notin Sending \cup {"idle"} => req[t].to = NoId
    /\ pc[t] \in {"encrypt", "store"} => req[t].msg = 0
    /\ Owns(t) => /\ req[t].to # NoId /\ req[t].msg \in Stored
                  /\ box[req[t].msg].sender = req[t].user
                  /\ box[req[t].msg].receiver = req[t].to
    /\ req[t].to # NoId /\ answer[t] = "500" /\ "refresh" \notin faults => req[t].msg = 0

SendsOwnRows ==
    /\ \A t \in Threads : SendAt(t)
    /\ \A s, t \in Threads : Owns(s) /\ Owns(t) /\ req[s].msg = req[t].msg => s = t

LEMMA SendAtStep ==
    ASSUME Base, SendsOwnRows, [Next]_vars, NEW t \in Threads
    PROVE  /\ SendAt(t)'
           /\ \/ ~ Owns(t)'
              \/ Owns(t) /\ req'[t].msg = req[t].msg
              \/ req'[t].msg \notin Stored /\ Store(t)
  <1> USE DEF SendAt, Owns, Sending, Begin, Goto, Answer
  <1>1. TypeOK /\ SendAt(t) /\ GroundedAt(t) /\ faults \subseteq faults'
    BY FaultsStay DEF Base, Grounded, SendsOwnRows
  <1>2. \A m \in Stored :
           /\ m \in Stored' /\ box'[m].sender = box[m].sender
           /\ box'[m].receiver = box[m].receiver
    BY RowsStay
  <1>3. CASE Rests(t)
    BY <1>1, <1>2, <1>3 DEF Rests
  <1>4. CASE Forgets(t)
    BY <1>4 DEF Forgets, NoRequest
  <1>5. CASE StartSend(t)
    <2>1. PICK u \in users : \E r \in users \ {u} :
             Begin(t, "encrypt", [NoRequest EXCEPT !.user = u, !.to = r])
      BY <1>5 DEF StartSend
    <2>2. PICK r \in users \ {u} :
             Begin(t, "encrypt", [NoRequest EXCEPT !.user = u, !.to = r])
      BY <2>1
    <2>3. pc'[t] = "encrypt" /\ req'[t].msg = 0 /\ answer'[t] = "none"
      BY <1>1, <2>2 DEF TypeOK, NoRequest
    <2> QED
      BY <2>3
  <1>6. CASE StartRead(t) \/ StartDelete(t)
    <2>1. PICK u \in users, m \in RowIds, stage \in Looking :
             Begin(t, stage, [user |-> u, to |-> NoId, msg |-> m, late |-> m \in gone])
      BY <1>6 DEF StartRead, StartDelete, Looking
    <2>2. pc'[t] \in Looking /\ req'[t].to = NoId /\ answer'[t] = "none"
      BY <1>1, <2>1 DEF TypeOK
    <2> QED
      BY <2>2 DEF Looking
  <1>7. CASE Encrypt(t)
    <2>1. UNCHANGED <<box, req>> /\ pc[t] = "encrypt" /\ answer'[t] # "201"
          /\ \/ pc'[t] = "store" /\ answer'[t] = "none"
             \/ pc'[t] = "idle" /\ answer'[t] = "500"
      BY <1>1, <1>7 DEF Encrypt, TypeOK
    <2> QED
      BY <1>1, <2>1
  <1>8. CASE Store(t)
    <2>1. CASE UNCHANGED <<box, req>> /\ Answer(t, "500")
      <3>1. pc[t] = "store" /\ pc'[t] = "idle" /\ answer'[t] = "500"
        BY <1>1, <1>8, <2>1 DEF Store, TypeOK
      <3> QED
        BY <1>1, <2>1, <3>1
    <2>2. CASE /\ Inserts(t, Cardinality(Stored) + 1)
               /\ pc' = [pc EXCEPT ![t] = "refresh"]
               /\ req' = [req EXCEPT ![t].msg = Cardinality(Stored) + 1]
               /\ UNCHANGED answer
      <3> DEFINE id == Cardinality(Stored) + 1
      <3>1. /\ id \in RowIds \ Stored /\ id \in Stored'
            /\ box' = [box EXCEPT ![id] = NewRow(t)]
            /\ pc[t] = "store"
        BY <2>2 DEF Inserts
      <3> HIDE DEF id
      <3>2. req' = [req EXCEPT ![t].msg = id] /\ req[t] \in Request
        BY <1>1, <2>2 DEF TypeOK, id
      <3>3. req'[t].user = req[t].user /\ req'[t].to = req[t].to /\ req'[t].msg = id
        BY <1>1, <3>2 DEF TypeOK, Request
      <3>4. pc'[t] = "refresh" /\ answer'[t] = "none" /\ req[t].to # NoId
        BY <1>1, <2>2, <3>1, NoIdIsNobody DEF TypeOK, GroundedAt
      <3>5. box'[id].sender = req[t].user /\ box'[id].receiver = req[t].to
        BY <1>1, <3>1 DEF TypeOK, NewRow
      <3> QED
        BY <1>8, <3>1, <3>3, <3>4, <3>5
    <2> QED
      BY <1>8, <2>1, <2>2, StoreInserts
  <1>9. CASE Refresh(t)
    <2>1. UNCHANGED <<box, req>> /\ pc[t] = "refresh" /\ pc'[t] = "idle"
          /\ (answer'[t] = "201" \/ (answer'[t] = "500" /\ "refresh" \in faults'))
      BY <1>1, <1>9 DEF Refresh, TypeOK, Fault, Excuses
    <2> QED
      BY <1>1, <1>2, <2>1
  <1>10. CASE FindMessage(t) \/ Decrypt(t) \/ AnswerRead(t) \/ FindToDelete(t) \/ Delete(t)
    <2>1. /\ UNCHANGED req /\ pc[t] \notin Sending \cup {"idle"}
          /\ pc'[t] \notin Sending
          /\ \/ pc'[t] = "idle" /\ answer'[t] # "201"
             \/ answer'[t] = answer[t]
      BY <1>1, <1>10 DEF FindMessage, Decrypt, AnswerRead, FindToDelete, Delete, TypeOK
    <2> QED
      BY <1>1, <2>1
  <1> QED
    BY <1>1, <1>3, <1>4, <1>5, <1>6, <1>7, <1>8, <1>9, <1>10, ThreadStep DEF Moves, Step

LEMMA SendsStep == Base /\ SendsOwnRows /\ [Next]_vars => SendsOwnRows'
  <1> SUFFICES ASSUME Base, SendsOwnRows, [Next]_vars PROVE SendsOwnRows'
    OBVIOUS
  <1>1. \A t \in Threads : SendAt(t)'
    BY SendAtStep
  <1>2. ASSUME NEW s \in Threads, NEW t \in Threads, s # t, Owns(s)', Owns(t)'
        PROVE  req'[s].msg # req'[t].msg
    <2>1. \A r \in Threads : Owns(r) => req[r].msg \in Stored
      BY DEF SendsOwnRows, SendAt
    <2>2. ~ (Store(s) /\ Store(t))
      BY <1>2 DEF Store, Goto, Answer, Base, TypeOK
    <2> QED
      BY <1>2, <2>1, <2>2, SendAtStep DEF SendsOwnRows
  <1> QED
    BY <1>1, <1>2 DEF SendsOwnRows

\* What a sender is told of its message is the truth, unless the refresh after
\* the commit raised (communication.py:144-156).
THEOREM SendersAreTold == Spec => []SendsAreTold
  <1>1. Init => SendsOwnRows
    BY DEF Init, SendsOwnRows, SendAt, Owns, NoRequest, Sending
  <1>2. SendsOwnRows => SendsAreTold
    BY DEF SendsOwnRows, SendAt, Owns, SendsAreTold
  <1> QED
    BY <1>1, <1>2, SendsStep, BaseHolds, PTL DEF Spec

-----------------------------------------------------------------------------
(* The audit log                                                           *)

Row(t, success) == [file_id |-> req[t].msg, actor |-> req[t].user, success |-> success]

LEMMA ReadIsLogged ==
    ASSUME Base, RowsOpen, NEW t \in Threads, AnswerRead(t)
    PROVE  \E success \in BOOLEAN :
             /\ WriteAudit(t, success)
             /\ req[t].msg \in Stored /\ UNCHANGED <<req, box>>
             /\ success => box[req[t].msg].receiver = req[t].user
             /\ ~ success /\ box[req[t].msg].receiver = req[t].user => "damage" \in faults
             /\ answer'[t] \in {"200", "422"} => success = (answer'[t] = "200")
  <1>1. TypeOK
    BY DEF Base
  <1>2. GroundedAt(t) /\ UNCHANGED <<req, box>>
        /\ (pc[t] \in {"failed", "corrupted"} => "damage" \in faults)
    BY DEF Base, Grounded, AnswerRead, RowsOpen, ReceiverCanOpen
  <1> USE DEF GroundedAt, Reading, Answer, TypeOK
  <1>3. CASE pc[t] = "opened" /\ WriteAudit(t, TRUE) /\ Answer(t, "200")
    BY <1>1, <1>2, <1>3
  <1>4. CASE pc[t] = "denied" /\ WriteAudit(t, FALSE) /\ Answer(t, "403")
    BY <1>1, <1>2, <1>4
  <1>5. CASE pc[t] = "failed" /\ WriteAudit(t, FALSE) /\ Answer(t, "422")
    BY <1>1, <1>2, <1>5
  <1>6. CASE pc[t] = "corrupted" /\ WriteAudit(t, FALSE) /\ Answer(t, "500")
    BY <1>1, <1>2, <1>6
  <1> QED
    BY <1>3, <1>4, <1>5, <1>6 DEF AnswerRead

LEMMA OthersDoNotLog ==
    ASSUME [Next]_vars, ~ \E t \in Threads : AnswerRead(t)
    PROVE  UNCHANGED audit
  BY DEF Next, Step, Register, StartSend, StartRead, StartDelete, Encrypt, Store, Refresh,
         FindMessage, Decrypt, FindToDelete, Delete, Crash, Damage, vars

\* The two halves of ReadsAreOnRecord.
AnswersAreLogged ==
    \A t \in Threads : answer[t] \in {"200", "422"} /\ "audit" \notin faults =>
        Row(t, answer[t] = "200") \in audit

RowsAreEarned ==
    \A a \in audit :
        /\ a.file_id \in Stored
        /\ a.success => a.actor = box[a.file_id].receiver
        /\ ~ a.success /\ a.actor = box[a.file_id].receiver => "damage" \in faults

LEMMA AnswersStep ==
    ASSUME Base, RowsOpen, SendsOwnRows, AnswersAreLogged, [Next]_vars
    PROVE  AnswersAreLogged'
  <1>1. TypeOK /\ faults \subseteq faults'
    BY FaultsStay DEF Base
  <1>2. audit \subseteq audit'
    BY ReadIsLogged, OthersDoNotLog DEF WriteAudit
  <1> SUFFICES ASSUME NEW t \in Threads, answer'[t] \in {"200", "422"},
                      "audit" \notin faults'
               PROVE  Row(t, answer[t] = "200")' \in audit'
    BY DEF AnswersAreLogged
  <1>3. CASE Rests(t)
    BY <1>1, <1>2, <1>3 DEF Rests, AnswersAreLogged, Row
  <1>4. CASE Forgets(t)
    BY <1>4 DEF Forgets
  <1>5. CASE Moves(t)
    <2>1. pc[t] # "idle" => answer[t] = "none"
      BY DEF SendsOwnRows, SendAt
    <2>2. AnswerRead(t)
      BY <1>1, <1>5, <2>1 DEF Moves, Step, StartSend, StartRead, StartDelete, Encrypt, Store,
         Refresh, FindMessage, Decrypt, FindToDelete, Delete, Begin, Goto, Answer, TypeOK
    <2>3. PICK success \in BOOLEAN : /\ WriteAudit(t, success) /\ UNCHANGED req
                                    /\ success = (answer'[t] = "200")
      BY <2>2, ReadIsLogged
    <2>4. UNCHANGED audit => "audit" \in faults' \/ Row(t, success) \in audit'
      BY <2>3 DEF WriteAudit, Fault, Excuses, Row
    <2> QED
      BY <2>3, <2>4 DEF WriteAudit, Fault, Excuses, Row
  <1> QED
    BY <1>1, <1>3, <1>4, <1>5, ThreadStep

LEMMA EarnedStep ==
    ASSUME Base, RowsOpen, RowsAreEarned, [Next]_vars
    PROVE  RowsAreEarned'
  <1>1. faults \subseteq faults'
    BY FaultsStay
  <1>2. \A m \in Stored : m \in Stored' /\ box'[m].receiver = box[m].receiver
    BY RowsStay
  <1>3. CASE UNCHANGED audit
    BY <1>1, <1>2, <1>3 DEF RowsAreEarned
  <1>4. ASSUME NEW t \in Threads, NEW success \in BOOLEAN, WriteAudit(t, success),
               req[t].msg \in Stored,
               success => box[req[t].msg].receiver = req[t].user,
               ~ success /\ box[req[t].msg].receiver = req[t].user => "damage" \in faults
        PROVE  RowsAreEarned'
    <2>1. ASSUME NEW a \in audit', a \notin audit
          PROVE  a.file_id = req[t].msg /\ a.actor = req[t].user /\ a.success = success
      BY <1>4, <2>1 DEF WriteAudit
    <2> QED
      BY <1>1, <1>2, <1>4, <2>1 DEF RowsAreEarned
  <1> QED
    BY <1>3, <1>4, ReadIsLogged, OthersDoNotLog

\* Plaintext is on record before it is returned, and the record is true
\* (communication.py:204-206, 213-235).
THEOREM ReadsAreLogged == Spec => []ReadsAreOnRecord
  <1>1. Init => RowsOpen /\ SendsOwnRows /\ AnswersAreLogged /\ RowsAreEarned
    BY DEF Init, RowsOpen, ReceiverCanOpen, SendsOwnRows, SendAt, Owns, NoRequest,
           Sending, AnswersAreLogged, RowsAreEarned, Stored
  <1>2. AnswersAreLogged /\ RowsAreEarned => ReadsAreOnRecord
    BY DEF AnswersAreLogged, RowsAreEarned, Row, ReadsAreOnRecord
  <1>3. /\ Base /\ RowsOpen /\ SendsOwnRows /\ AnswersAreLogged /\ RowsAreEarned
        /\ [Next]_vars
        => (RowsOpen /\ SendsOwnRows /\ AnswersAreLogged /\ RowsAreEarned)'
    BY RowsOpenStep, SendsStep, AnswersStep, EarnedStep
  <1> QED
    BY <1>1, <1>2, <1>3, BaseHolds, PTL DEF Spec

=============================================================================
