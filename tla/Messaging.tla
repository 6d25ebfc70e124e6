----------------------------- MODULE Messaging -----------------------------
(***************************************************************************)
(* The message service (routers/communication.py): send, read, delete and  *)
(* the two lists.                                                          *)
(*                                                                         *)
(* A message is encrypted under the public key in the receiver's own row   *)
(* of "users", not under the key store of module KeyStore, so it outlives  *)
(* the server process.  Deleting sets a flag.  Every statement that        *)
(* touches the database is a step: between the lookup of a row and the     *)
(* next statement other threads commit.  An early return before the first  *)
(* lookup of a message (401, 400, 404 for the receiver) changes nothing    *)
(* and is a stuttering step.  What all this comes to for a caller is       *)
(* module Mailbox, which this module implements.                           *)
(***************************************************************************)
EXTENDS Naturals, FiniteSets

CONSTANTS
    Threads,    \* pool threads
    Ids,        \* user ids
    NoId,
    MaxId,      \* bound: messages that ever get an id
    FileIds,    \* ids of the rows of file_metadata
    NoRow,
    Faults      \* the kinds of failure this instance lets happen

ASSUME BoundIsNat == MaxId \in Nat
ASSUME NoIdIsNobody == NoId \notin Ids

VARIABLES
    users,      \* ids of the committed user rows
    box,        \* table "messages": the row under each id
    audit,      \* rows of file_access_log written here
    pc,         \* where each thread stands in its handler
    req,        \* the request each thread is serving
    answer,     \* the status each request was answered with
    gone,       \* history: messages whose deletion was answered 204
    faults      \* history: which of the failures in Excuses have happened

vars == <<users, box, audit, pc, req, answer, gone, faults>>

-----------------------------------------------------------------------------

\* SQLite hands out row ids 1, 2, ... in each table.
RowIds == 1 .. MaxId

\* What is wrong with the stored content of a message: it is no JSON, or lacks a
\* field or its base64, or a field has another value than was stored.
Damages == {"not_json", "no_fields", "altered"}

\* A row.  "key" is the user whose public key the session key is wrapped under.
Message == [sender : Ids, receiver : Ids, key : Ids,
            deleted : BOOLEAN, content : {"intact"} \cup Damages]

ASSUME NoRowIsNotAMessage ==
    NoRow \notin Message \cup [sender : Ids, receiver : Ids, deleted : BOOLEAN]

FaultKinds == {"crypto", "db", "refresh", "audit", "damage", "crash"}
ASSUME FaultsAreKinds == Faults \subseteq FaultKinds

\* The failures some property makes an exception for.
Excuses == {"refresh", "audit", "damage"}

Stages == {"idle", "encrypt", "store", "refresh", "find", "decrypt", "denied",
           "failed", "corrupted", "opened", "find_to_delete", "delete"}
Statuses == {"none", "200", "201", "204", "403", "404", "422", "500"}

\* "msg": the message asked for, or the one this request has stored.
\* "late": the request arrived after a deletion of its message was answered.
Request == [user : Ids \cup {NoId}, to : Ids \cup {NoId},
            msg : RowIds \cup {0}, late : BOOLEAN]
NoRequest == [user |-> NoId, to |-> NoId, msg |-> 0, late |-> FALSE]

\* file_id holds the id of the message.
AuditRow == [file_id : RowIds, actor : Ids, success : BOOLEAN]

Stored == {m \in RowIds : box[m] # NoRow}

Init ==
    /\ users = {}
    /\ box = [m \in RowIds |-> NoRow]
    /\ audit = {}
    /\ pc = [t \in Threads |-> "idle"]
    /\ req = [t \in Threads |-> NoRequest]
    /\ answer = [t \in Threads |-> "none"]
    /\ gone = {}
    /\ faults = {}

Fault(kind) ==
    /\ kind \in Faults
    /\ faults' = faults \cup ({kind} \cap Excuses)

Goto(t, stage) ==
    /\ pc' = [pc EXCEPT ![t] = stage]
    /\ UNCHANGED answer

Answer(t, status) ==
    /\ pc' = [pc EXCEPT ![t] = "idle"]
    /\ answer' = [answer EXCEPT ![t] = status]

Begin(t, stage, request) ==
    /\ pc[t] = "idle"
    /\ pc' = [pc EXCEPT ![t] = stage]
    /\ req' = [req EXCEPT ![t] = request]
    /\ answer' = [answer EXCEPT ![t] = "none"]

\* A registration commits (module Registration).
Register(i) ==
    /\ users' = users \cup {i}
    /\ UNCHANGED <<box, audit, pc, req, answer, gone, faults>>

-----------------------------------------------------------------------------
(* POST /comm/send                                                         *)

StartSend(t) ==
    /\ \E u \in users : \E r \in users \ {u} :
          Begin(t, "encrypt", [NoRequest EXCEPT !.user = u, !.to = r])
    /\ UNCHANGED <<users, box, audit, gone, faults>>

Encrypt(t) ==
    /\ pc[t] = "encrypt"
    /\ \/ Goto(t, "store") /\ UNCHANGED faults
       \/ Answer(t, "500") /\ Fault("crypto")
    /\ UNCHANGED <<users, box, audit, req, gone>>

\* Slip: the session key is wrapped under the sender's public key.
NewRowForSender(t) == [sender |-> req[t].user, receiver |-> req[t].to,
                       key |-> req[t].user, deleted |-> FALSE, content |-> "intact"]

\* The row this request inserts.
NewRow(t) == [sender |-> req[t].user, receiver |-> req[t].to, key |-> req[t].to,
              deleted |-> FALSE, content |-> "intact"]

\* Slip: what was flushed before the error is committed all the same.
StoreInPieces(t) ==
    /\ pc[t] = "store" /\ Stored # RowIds
    /\ LET id == Cardinality(Stored) + 1 IN
          /\ box' = [box EXCEPT ![id] = NewRow(t)]
          /\ req' = [req EXCEPT ![t].msg = id]
    /\ \/ Goto(t, "refresh") /\ UNCHANGED faults
       \/ Answer(t, "500") /\ Fault("db")
    /\ UNCHANGED <<users, audit, gone>>

Store(t) ==
    /\ pc[t] = "store"
    /\ \/ /\ Stored # RowIds
          /\ LET id == Cardinality(Stored) + 1 IN
                /\ box' = [box EXCEPT ![id] = NewRow(t)]
                /\ req' = [req EXCEPT ![t].msg = id]
          /\ Goto(t, "refresh")
          /\ UNCHANGED faults
       \/ Answer(t, "500") /\ Fault("db") /\ UNCHANGED <<box, req>>
    /\ UNCHANGED <<users, audit, gone>>

\* db.refresh(msg) after the commit; its exception is answered as if nothing had
\* been stored.
Refresh(t) ==
    /\ pc[t] = "refresh"
    /\ \/ Answer(t, "201") /\ UNCHANGED faults
       \/ Answer(t, "500") /\ Fault("refresh")
    /\ UNCHANGED <<users, box, audit, req, gone>>

-----------------------------------------------------------------------------
(* GET /comm/messages/{message_id}                                         *)

StartRead(t) ==
    /\ \E u \in users, m \in RowIds :
          Begin(t, "find", [user |-> u, to |-> NoId, msg |-> m, late |-> m \in gone])
    /\ UNCHANGED <<users, box, audit, gone, faults>>

\* Slip: the flag is not looked at.
FoundThoughDeleted(m) == m \in Stored

\* _get_message_or_404 returns a row.
Found(m) == m \in Stored /\ ~ box[m].deleted

MayRead(u, m) == box[m].receiver = u

FindMessage(t) ==
    LET m == req[t].msg IN
    /\ pc[t] = "find"
    /\ \/ ~ Found(m) /\ Answer(t, "404")
       \/ Found(m) /\ Goto(t, IF MayRead(req[t].user, m) THEN "decrypt" ELSE "denied")
    /\ UNCHANGED <<users, box, audit, req, gone, faults>>

\* Under the private key of u; a wrapped key that was altered raises as well.
unwrap_aes_key(row, u) == row.key = u

\* decrypt_file authenticates, verify_hash compares.
Authentic(row) == row.content = "intact"

\* A field that is missing or is not base64 raises what no handler catches.
Decrypt(t) ==
    LET row == box[req[t].msg] IN
    /\ pc[t] = "decrypt"
    /\ \/ row.content = "not_json" /\ Goto(t, "corrupted")
       \/ row.content = "no_fields" /\ Answer(t, "500")
       \/ /\ row.content \notin {"not_json", "no_fields"}
          /\ Goto(t, IF unwrap_aes_key(row, req[t].user) /\ Authentic(row)
                     THEN "opened" ELSE "failed")
    /\ UNCHANGED <<users, box, audit, req, gone, faults>>

\* Slip: only refusals are logged.
WriteAuditOfRefusal(t, success) ==
    IF success THEN UNCHANGED <<audit, faults>>
    ELSE /\ audit' = audit \cup {[file_id |-> req[t].msg, actor |-> req[t].user,
                                  success |-> success]}
         /\ UNCHANGED faults

\* Slip: the wrong user field of the request is logged.
WriteAuditOfAddressee(t, success) ==
    /\ audit' = audit \cup {[file_id |-> req[t].msg, actor |-> req[t].to,
                             success |-> success]}
    /\ UNCHANGED faults

\* _audit: no exception leaves it.
WriteAudit(t, success) ==
    \/ /\ audit' = audit \cup {[file_id |-> req[t].msg, actor |-> req[t].user,
                                success |-> success]}
       /\ UNCHANGED faults
    \/ Fault("audit") /\ UNCHANGED audit

AnswerRead(t) ==
    /\ \/ pc[t] = "opened" /\ WriteAudit(t, TRUE) /\ Answer(t, "200")
       \/ pc[t] = "denied" /\ WriteAudit(t, FALSE) /\ Answer(t, "403")
       \/ pc[t] = "failed" /\ WriteAudit(t, FALSE) /\ Answer(t, "422")
       \/ pc[t] = "corrupted" /\ WriteAudit(t, FALSE) /\ Answer(t, "500")
    /\ UNCHANGED <<users, box, req, gone>>

-----------------------------------------------------------------------------
(* DELETE /comm/messages/{message_id}                                      *)

StartDelete(t) ==
    /\ \E u \in users, m \in RowIds :
          Begin(t, "find_to_delete",
                [user |-> u, to |-> NoId, msg |-> m, late |-> m \in gone])
    /\ UNCHANGED <<users, box, audit, gone, faults>>

\* Slip: any user who is logged in may delete.
MayDeleteAll(u, m) == u \in users

MayDelete(u, m) == u \in {box[m].sender, box[m].receiver}

FindToDelete(t) ==
    LET m == req[t].msg IN
    /\ pc[t] = "find_to_delete"
    /\ \/ ~ Found(m) /\ Answer(t, "404")
       \/ Found(m) /\ ~ MayDelete(req[t].user, m) /\ Answer(t, "403")
       \/ Found(m) /\ MayDelete(req[t].user, m) /\ Goto(t, "delete")
    /\ UNCHANGED <<users, box, audit, req, gone, faults>>

\* Slip: the row itself is removed.
DeleteRow(t) ==
    /\ pc[t] = "delete"
    /\ box' = [box EXCEPT ![req[t].msg] = NoRow]
    /\ gone' = gone \cup {req[t].msg}
    /\ Answer(t, "204")
    /\ UNCHANGED <<users, audit, req, faults>>

Delete(t) ==
    /\ pc[t] = "delete"
    /\ \/ /\ box' = [box EXCEPT ![req[t].msg].deleted = TRUE]
          /\ gone' = gone \cup {req[t].msg}
          /\ Answer(t, "204")
          /\ UNCHANGED faults
       \/ Answer(t, "500") /\ Fault("db") /\ UNCHANGED <<box, gone>>
    /\ UNCHANGED <<users, audit, req>>

-----------------------------------------------------------------------------
(* GET /comm/inbox and GET /comm/sent: the second does not look at the flag *)

\* Slip: the inbox, like the sent list, does not look at the flag.
InboxOfAll(u) == {m \in Stored : box[m].receiver = u /\ box[m].sender \in users}

Inbox(u) == {m \in Stored : /\ box[m].receiver = u
                            /\ ~ box[m].deleted
                            /\ box[m].sender \in users}

Sent(u) == {m \in Stored : box[m].sender = u /\ box[m].receiver \in users}

-----------------------------------------------------------------------------

\* The server process dies and is started again.
Crash ==
    /\ Fault("crash")
    /\ pc' = [t \in Threads |-> "idle"]
    /\ req' = [t \in Threads |-> NoRequest]
    /\ answer' = [t \in Threads |-> "none"]
    /\ UNCHANGED <<users, box, audit, gone>>

\* The database hands back other content than was stored.
Damage(m) ==
    /\ Fault("damage")
    /\ m \in Stored /\ box[m].content = "intact"
    /\ \E damage \in Damages : box' = [box EXCEPT ![m].content = damage]
    /\ UNCHANGED <<users, audit, pc, req, answer, gone>>

Step(t) ==
    \/ Encrypt(t) \/ Store(t) \/ Refresh(t)
    \/ FindMessage(t) \/ Decrypt(t) \/ AnswerRead(t)
    \/ FindToDelete(t) \/ Delete(t)

Next ==
    \/ \E i \in Ids : Register(i)
    \/ \E t \in Threads : StartSend(t) \/ StartRead(t) \/ StartDelete(t) \/ Step(t)
    \/ Crash
    \/ \E m \in RowIds : Damage(m)

Spec == Init /\ [][Next]_vars

-----------------------------------------------------------------------------

\* Types of the variables.
TypeOK ==
    /\ users \subseteq Ids
    /\ box \in [RowIds -> Message \cup {NoRow}]
    /\ audit \subseteq AuditRow
    /\ pc \in [Threads -> Stages]
    /\ req \in [Threads -> Request]
    /\ answer \in [Threads -> Statuses]
    /\ gone \subseteq RowIds
    /\ faults \subseteq Excuses

\* Once a deletion has been answered the message is gone for everyone who asks
\* later, whatever reads and second deletions were under way
\* (communication.py:63-67, 259-260).
DeletedStaysUnread ==
    /\ \A m \in gone : m \in Stored /\ box[m].deleted
    /\ \A t \in Threads : req[t].late => answer[t] \notin {"200", "204"}

\* A row is final but for its flag, the flag is only ever set, and only by a
\* request of the sender or of the receiver (communication.py:251-260).
OnlyPartiesDelete ==
    [][\A m \in Stored :
          \/ box'[m] = [box[m] EXCEPT !.content = box'[m].content]
          \/ /\ box'[m] = [box[m] EXCEPT !.deleted = TRUE]
             /\ \E t \in Threads :
                   /\ pc[t] = "delete" /\ req[t].msg = m
                   /\ req[t].user \in {box[m].sender, box[m].receiver}]_vars

\* What the inbox shows of a message is what reading it comes to: listed for u
\* exactly when a read by u gets past the lookup and the receiver check
\* (communication.py:171-177 against 63-67 and 204).
InboxIsReadable ==
    \A u \in users, m \in RowIds : m \in Inbox(u) <=> Found(m) /\ MayRead(u, m)

\* The receiver can open a message as long as its content is intact, through
\* restarts and whoever else sends, reads or deletes (communication.py:115-123,
\* 208-226): no read ends in an error otherwise.
ReceiverCanOpen ==
    \A t \in Threads : pc[t] \in {"failed", "corrupted"} => "damage" \in faults

\* The audit log and the answers agree: plaintext is on record as a success
\* before it is returned unless that write failed, a success row is the
\* receiver's, and a failure row against the receiver is a damaged message
\* (communication.py:204-206, 213-235).
ReadsAreOnRecord ==
    /\ \A t \in Threads : answer[t] \in {"200", "422"} /\ "audit" \notin faults =>
          [file_id |-> req[t].msg, actor |-> req[t].user,
           success |-> answer[t] = "200"] \in audit
    /\ \A a \in audit :
          /\ a.file_id \in Stored
          /\ a.success => a.actor = box[a.file_id].receiver
          /\ ~ a.success /\ a.actor = box[a.file_id].receiver => "damage" \in faults

\* A sender is told 201 of a row that is its own and nobody else's, and told 500
\* only if it has left no row, so that it may send again -- unless the refresh
\* after the commit raised (communication.py:144-156).
SendsAreTold ==
    \A t \in Threads : req[t].to # NoId =>
        /\ answer[t] = "201" =>
              /\ req[t].msg \in Stored
              /\ box[req[t].msg].sender = req[t].user
              /\ box[req[t].msg].receiver = req[t].to
              /\ \A s \in Threads : answer[s] = "201" /\ req[s].msg = req[t].msg => s = t
        /\ answer[t] = "500" /\ "refresh" \notin faults => req[t].msg = 0

\* The table as module Mailbox knows it.
MailRow(row) == IF row = NoRow THEN NoRow
                ELSE [sender |-> row.sender, receiver |-> row.receiver,
                      deleted |-> row.deleted]

mail == [m \in RowIds |-> MailRow(box[m])]

Mail == INSTANCE Mailbox WITH box <- mail

\* For its callers the message service is one of atomic sends and deletions:
\* whatever the threads do between two statements, and through every failure and
\* restart, rows appear one at a time under the next id, never change, and are
\* flagged once (communication.py:144-156, 259-260).
ImplementsMailbox == Mail!MailSpec

\* FileAccessLog, models.py:324: file_id is a ForeignKey("file_metadata.file_id").
AuditRowsReferToFiles == \A a \in audit : a.file_id \in FileIds

=============================================================================
