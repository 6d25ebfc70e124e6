------------------------------ MODULE Mailbox ------------------------------
(***************************************************************************)
(* What the message service promises its callers: a message appears whole, *)
(* is never changed and disappears once.  Each request is one step.        *)
(*                                                                         *)
(* Module Messaging, the statements of routers/communication.py with their *)
(* failures, implements this module; module FrontEnd talks to it.          *)
(***************************************************************************)
EXTENDS Naturals, FiniteSets

CONSTANTS
    Ids,        \* user ids
    MaxId,      \* bound: messages that ever get an id
    NoRow

ASSUME MaxIdIsNat == MaxId \in Nat

VARIABLE box    \* table "messages": the row under each id

-----------------------------------------------------------------------------

RowIds == 1 .. MaxId
Row == [sender : Ids, receiver : Ids, deleted : BOOLEAN]

ASSUME NoRowIsNotARow == NoRow \notin Row

Stored == {m \in RowIds : box[m] # NoRow}

\* The id of the next row, 0 when the bound is reached.
NextId == IF Stored = RowIds THEN 0 ELSE Cardinality(Stored) + 1

MailInit == box = [m \in RowIds |-> NoRow]

\* A message of user s to user r is stored.
Post(s, r) ==
    /\ s # r /\ NextId # 0
    /\ box' = [box EXCEPT ![NextId] =
          [sender |-> s, receiver |-> r, deleted |-> FALSE]]

Found(m) == m \in Stored /\ ~ box[m].deleted
MayRead(u, m) == Found(m) /\ box[m].receiver = u

MayDelete(u, m) == Found(m) /\ u \in {box[m].sender, box[m].receiver}

\* User u deletes message m.
Remove(u, m) ==
    /\ MayDelete(u, m)
    /\ box' = [box EXCEPT ![m].deleted = TRUE]

Inbox(u) == {m \in RowIds : MayRead(u, m)}
Sent(u) == {m \in Stored : box[m].sender = u}

MailNext ==
    \/ \E s, r \in Ids : Post(s, r)
    \/ \E u \in Ids, m \in RowIds : Remove(u, m)

MailSpec == MailInit /\ [][MailNext]_box

=============================================================================
