---------------------------- MODULE FileTransfer ----------------------------
(***************************************************************************)
(* The file service (routers/files.py): uploads, downloads, the blobs and  *)
(* plaintext buffers they leave in the storage directory, the rows they    *)
(* commit, and the audit log.                                              *)
(*                                                                         *)
(* Handlers are plain "def"s, each served by a pool thread of one of the   *)
(* server processes.  The processes share the database and the storage     *)
(* directory; the key store is private to each (module KeyStore).  A file  *)
(* stands for its content, its UUID-named blob, its one-time AES key and   *)
(* its row id, all of which are made once per upload.  A handler's early   *)
(* return that has changed nothing (401, 400, 404, 413) is a stuttering    *)
(* step.                                                                   *)
(***************************************************************************)
EXTENDS KeyStore

CONSTANTS
    Names, Roles, Depts, HOD,   \* see UserDirectory
    Profile,    \* the row of table "users" each id stands for
    Posted,     \* bound: the document types this instance uploads
    Files,      \* bound: the uploads there can be
    NoFile,
    NoRow,
    Faults      \* the kinds of failure this instance lets happen

VARIABLES
    users,      \* ids of the committed user rows
    meta,       \* committed file_metadata row of each file, with its key row
    blob,       \* what the storage directory holds of each file
    audit,      \* rows of file_access_log
    pc,         \* where each thread stands in its handler
    req,        \* the request each thread is serving
    buffer,     \* the plaintext file (.dl_*) each request has on disk
    leftover,   \* plaintext files on disk whose request is over
    delivered,  \* history: <<user, file>> sent in the clear
    faults      \* history: which of the failures in Excuses have happened

fileVars == <<users, meta, blob, audit, pc, req, buffer, leftover, delivered>>
vars == <<fileVars, faults, keyVars>>

Rows == {Profile[i] : i \in users}

Directory == INSTANCE UserDirectory WITH users <- Rows

ASSUME ProfilesAreRows == Profile \in [Ids -> Directory!User]
ASSUME ProfilesAreDistinct ==
    \A i, j \in Ids : Profile[i].name = Profile[j].name => i = j

-----------------------------------------------------------------------------

\* doc_type: EXAM_PAPER is routed by the server, RESULT and REPORT (one kind
\* here) need an existing receiver, any other value needs some receiver_id.
Docs == {"EXAM_PAPER", "RESULT", "OTHER"}

ASSUME PostedAreDocs == Posted \subseteq Docs

\* A file_metadata row and the encrypted_keys row committed with it: "pair" is
\* the RSA pair the session key is wrapped under.  The document type is not kept.
MetaRow == [sender : Ids, receiver : Ids, pair : Pairs]

ASSUME NullsAreDistinct == NoFile \notin Files /\ NoRow \notin MetaRow

\* "tmp": <uuid>.enc.tmp; "enc": <uuid>.enc; "bad": <uuid>.enc that no longer
\* parses or no longer authenticates.
BlobStates == {"none", "tmp", "enc", "bad"}

FaultKinds == {"write", "keygen", "db", "refresh", "audit", "send", "unlink",
               "disk", "crash"}

ASSUME FaultsAreKinds == Faults \subseteq FaultKinds

\* The failures some property makes an exception for.
Excuses == {"write", "refresh", "audit", "send", "unlink", "crash"}

UploadStages == {"write", "rename", "wrap", "record", "refresh"}
DownloadStages == {"unwrap", "read", "buffer", "send", "cleanup",
                   "log_integrity", "log_download",
                   "forbidden", "undecryptable", "corrupt"}
Stages == {"idle"} \cup UploadStages \cup DownloadStages

Request == [user : Ids \cup {NoId}, file : Files \cup {NoFile},
            receiver : Ids \cup {NoId}, doc : Docs, pair : Pairs]

\* What a download has of a request.
DownloadOf(u, f) == [user |-> u, file |-> f, receiver |-> NoId,
                     doc |-> "OTHER", pair |-> NoPair]
NoRequest == DownloadOf(NoId, NoFile)

AuditRow == [file : Files, actor : Ids,
             action : {"download", "download_integrity_check"},
             success : BOOLEAN]

Init ==
    /\ KeyInit
    /\ users = {}
    /\ meta = [f \in Files |-> NoRow]
    /\ blob = [f \in Files |-> "none"]
    /\ audit = {}
    /\ pc = [t \in Threads |-> "idle"]
    /\ req = [t \in Threads |-> NoRequest]
    /\ buffer = [t \in Threads |-> NoFile]
    /\ leftover = {}
    /\ delivered = {}
    /\ faults = {}

\* What fails in one step.
Fail(kinds) ==
    /\ kinds \subseteq Faults
    /\ faults' = faults \cup (kinds \cap Excuses)

Fault(kind) == Fail({kind})

Goto(t, stage) ==
    /\ pc' = [pc EXCEPT ![t] = stage]
    /\ UNCHANGED <<buffer, leftover>>

\* The handler of the threads ts is over, however it ended: a buffer that was
\* not unlinked by then stays on disk.
EndRequests(ts) ==
    /\ pc' = [t \in Threads |-> IF t \in ts THEN "idle" ELSE pc[t]]
    /\ req' = [t \in Threads |-> IF t \in ts THEN NoRequest ELSE req[t]]
    /\ leftover' = leftover \cup ({buffer[t] : t \in ts} \ {NoFile})
    /\ buffer' = [t \in Threads |-> IF t \in ts THEN NoFile ELSE buffer[t]]

EndRequest(t) == EndRequests({t})

\* Slip: the table has no unique keys.
RegisterUnchecked(i) ==
    /\ users' = users \cup {i}
    /\ UNCHANGED <<meta, blob, audit, pc, req, buffer, leftover, delivered,
                   faults, keyVars>>

\* A registration commits (module Registration).
Register(i) ==
    /\ users' = users \cup {i}
    /\ Directory!Add(Profile[i])
    /\ UNCHANGED <<meta, blob, audit, pc, req, buffer, leftover, delivered,
                   faults, keyVars>>

-----------------------------------------------------------------------------
(* POST /files/upload                                                      *)

SetBlob(t, state) == blob' = [blob EXCEPT ![req[t].file] = state]

\* What an upload has put on disk by now, were it to stop here: a write that fails
\* may have written a part.
OnDisk(t) == IF pc[t] = "write" THEN "tmp" ELSE blob[req[t].file]

\* Something failed and the upload is given up: its file is unlinked, or the unlink
\* (or the rollback before it) raises as well and the file stays.
Discard(t, failures) ==
    /\ EndRequest(t)
    /\ \/ SetBlob(t, "none") /\ Fail(failures)
       \/ SetBlob(t, OnDisk(t)) /\ Fail(failures \cup {"unlink"})

\* The Heads of a department among some users.
Hods(among, dept) == {i \in among : Profile[i].role = HOD /\ Profile[i].dept = dept}

\* Slip: the HOD of any department.
RoutesAnywhere(u, doc, rcv) ==
    IF doc = "EXAM_PAPER" THEN {h \in users : Profile[h].role = HOD}
    ELSE {rcv} \cap users

\* The receiver an upload of doc by u with form field rcv is routed to, if any:
\* .one() wants exactly one HOD of the uploader's department; RESULT and REPORT
\* want an existing user; anything else takes the field as it is.
Routes(u, doc, rcv) ==
    IF doc = "EXAM_PAPER"
    THEN {h \in users : Hods(users, Profile[u].dept) = {h}}
    ELSE IF doc = "RESULT" THEN {rcv} \cap users
    ELSE {rcv} \ {NoId}

\* Slip: a name is taken as new when nothing on disk and no row has it.
UnusedSoFar(f) == meta[f] = NoRow /\ blob[f] = "none"

\* A new UUID.
Unused(f) ==
    /\ meta[f] = NoRow /\ blob[f] = "none"
    /\ \A t \in Threads : pc[t] \in UploadStages => req[t].file # f

\* Authentication, routing, the size, type and malware checks, encryption.
StartUpload(t) ==
    /\ pc[t] = "idle"
    /\ \E u \in users, f \in Files, doc \in Posted, rcv \in Ids \cup {NoId} :
          /\ Unused(f)
          /\ \E r \in Routes(u, doc, rcv) :
                req' = [req EXCEPT ![t] =
                    [user |-> u, file |-> f, receiver |-> r, doc |-> doc,
                     pair |-> NoPair]]
    /\ Goto(t, "write")
    /\ UNCHANGED <<users, meta, blob, audit, delivered, faults, keyVars>>

WriteTmp(t) ==
    /\ pc[t] = "write"
    /\ \/ SetBlob(t, "tmp") /\ Goto(t, "rename") /\ UNCHANGED <<req, faults>>
       \/ Discard(t, {"write"})
    /\ UNCHANGED <<users, meta, audit, delivered, keyVars>>

\* Slip: the rename is left to a background task.
RenameLater(t) ==
    /\ pc[t] = "rename"
    /\ Goto(t, "wrap")
    /\ UNCHANGED <<users, meta, blob, audit, req, delivered, faults, keyVars>>

Rename(t) ==
    /\ pc[t] = "rename"
    /\ \/ SetBlob(t, "enc") /\ Goto(t, "wrap") /\ UNCHANGED <<req, faults>>
       \/ Discard(t, {"write"})
    /\ UNCHANGED <<users, meta, audit, delivered, keyVars>>

\* kms_client.get_public_key(receiver_id); the receiver need not exist.
BeginWrap(t) ==
    /\ pc[t] = "wrap"
    /\ Lookup(t, req[t].receiver)
    /\ UNCHANGED <<fileVars, faults>>

\* Slip: the blob stays when the key cannot be had.
FinishWrapKeepsBlob(t) ==
    /\ pc[t] = "wrap"
    /\ Leave(t)
    /\ \/ /\ call[t].at = "returned"
          /\ req' = [req EXCEPT ![t].pair = call[t].pair]
          /\ Goto(t, "record")
       \/ call[t].at = "raised" /\ EndRequest(t)
    /\ UNCHANGED <<users, meta, blob, audit, delivered, faults>>

\* wrap_aes_key under the pair returned, or the CryptoError branch.
FinishWrap(t) ==
    /\ pc[t] = "wrap"
    /\ Leave(t)
    /\ \/ /\ call[t].at = "returned"
          /\ req' = [req EXCEPT ![t].pair = call[t].pair]
          /\ Goto(t, "record")
          /\ UNCHANGED <<blob, faults>>
       \/ call[t].at = "raised" /\ Discard(t, {})
    /\ UNCHANGED <<users, meta, audit, delivered>>

\* Slip: the two rows are committed one after the other.
RecordInTwo(t) ==
    /\ pc[t] = "record"
    /\ req[t].receiver \in users
    /\ meta' = [meta EXCEPT ![req[t].file] =
          [sender |-> req[t].user, receiver |-> req[t].receiver, pair |-> req[t].pair]]
    /\ \/ Goto(t, "refresh") /\ UNCHANGED <<req, blob, faults>>
       \/ Discard(t, {"db"})
    /\ UNCHANGED <<users, audit, delivered, keyVars>>

\* Slip: the receiver's role is not asked for, so nothing checks the receiver.
RecordUnchecked(t) ==
    /\ pc[t] = "record"
    /\ meta' = [meta EXCEPT ![req[t].file] =
          [sender |-> req[t].user, receiver |-> req[t].receiver, pair |-> req[t].pair]]
    /\ Goto(t, "refresh")
    /\ UNCHANGED <<users, req, blob, audit, delivered, faults, keyVars>>

\* Slip: the rollback is there and the unlink is not.
RecordKeepsBlob(t) ==
    /\ pc[t] = "record"
    /\ \/ /\ req[t].receiver \in users
          /\ meta' = [meta EXCEPT ![req[t].file] =
                [sender |-> req[t].user, receiver |-> req[t].receiver,
                 pair |-> req[t].pair]]
          /\ Goto(t, "refresh")
          /\ UNCHANGED req
       \/ req[t].receiver \notin users /\ EndRequest(t) /\ UNCHANGED meta
    /\ UNCHANGED <<users, blob, audit, delivered, faults, keyVars>>

\* Both rows in one transaction.  A receiver that does not exist has no role to
\* copy: the AttributeError ends in the same handler as a database error.
Record(t) ==
    /\ pc[t] = "record"
    /\ \/ /\ req[t].receiver \in users
          /\ meta' = [meta EXCEPT ![req[t].file] =
                [sender |-> req[t].user, receiver |-> req[t].receiver,
                 pair |-> req[t].pair]]
          /\ Goto(t, "refresh")
          /\ UNCHANGED <<req, blob, faults>>
       \/ /\ req[t].receiver \notin users
          /\ Discard(t, {})
          /\ UNCHANGED meta
       \/ Discard(t, {"db"}) /\ UNCHANGED meta
    /\ UNCHANGED <<users, audit, delivered, keyVars>>

\* db.refresh(meta) after the commit; its exception is handled as if the
\* transaction had failed.
Refresh(t) ==
    /\ pc[t] = "refresh"
    /\ \/ EndRequest(t) /\ UNCHANGED <<blob, faults>>
       \/ Discard(t, {"refresh"})
    /\ UNCHANGED <<users, meta, audit, delivered, keyVars>>

-----------------------------------------------------------------------------
(* GET /files/download/{file_id}                                           *)

\* Slip: the user's name is logged, not the id.
WriteAuditByName(t, action, success) ==
    /\ audit' = audit \cup {[file |-> req[t].file, actor |-> Profile[req[t].user].name,
                             action |-> action, success |-> success]}
    /\ UNCHANGED faults

\* _write_audit_log: a session of its own, and no exception leaves it.
WriteAudit(t, action, success) ==
    \/ /\ audit' = audit \cup {[file |-> req[t].file, actor |-> req[t].user,
                                action |-> action, success |-> success]}
       /\ UNCHANGED faults
    \/ Fault("audit") /\ UNCHANGED audit

\* Authentication, the two row lookups, the receiver check, enc_path.exists().
StartDownload(t) ==
    /\ pc[t] = "idle"
    /\ \E u \in users, f \in Files :
          /\ meta[f] # NoRow
          /\ req' = [req EXCEPT ![t] = DownloadOf(u, f)]
          /\ \/ meta[f].receiver # u /\ Goto(t, "forbidden")
             \/ /\ meta[f].receiver = u
                /\ blob[f] # "none"
                /\ Goto(t, "unwrap")
    /\ UNCHANGED <<users, meta, blob, audit, delivered, faults, keyVars>>

\* Slip: the key store is asked for the pair of the row's sender.
BeginUnwrapForSender(t) ==
    /\ pc[t] = "unwrap"
    /\ Lookup(t, meta[req[t].file].sender)
    /\ UNCHANGED <<fileVars, faults>>

\* kms_client.unwrap_key(current_user.id, ...): the key store asked for the
\* caller's own pair.
BeginUnwrap(t) ==
    /\ pc[t] = "unwrap"
    /\ Lookup(t, req[t].user)
    /\ UNCHANGED <<fileVars, faults>>

\* Only the pair a session key was wrapped under unwraps it.
Opens(t) ==
    LET row == meta[req[t].file] IN
    /\ call[t].at = "returned"
    /\ <<call[t].user, call[t].pair>> = <<row.receiver, row.pair>>

FinishUnwrap(t) ==
    /\ pc[t] = "unwrap"
    /\ Leave(t)
    /\ Goto(t, IF Opens(t) THEN "read" ELSE "undecryptable")
    /\ UNCHANGED <<users, meta, blob, audit, req, delivered, faults>>

\* Read, _decode_blob, decrypt_and_verify, SHA-256 comparison.
ReadBlob(t) ==
    /\ pc[t] = "read"
    /\ Goto(t, IF blob[req[t].file] = "enc" THEN "buffer" ELSE "corrupt")
    /\ UNCHANGED <<users, meta, blob, audit, req, delivered, faults, keyVars>>

\* The audited refusals: 403, 500 and 422.
Deny(t) ==
    /\ pc[t] \in {"forbidden", "undecryptable", "corrupt"}
    /\ WriteAudit(t, "download", FALSE)
    /\ EndRequest(t)
    /\ UNCHANGED <<users, meta, blob, delivered, keyVars>>

\* tmp_out.write_bytes(plaintext); when it raises there is neither an unlink
\* nor an audit row, and what was written so far stays.
WriteBuffer(t) ==
    /\ pc[t] = "buffer"
    /\ \/ /\ buffer' = [buffer EXCEPT ![t] = req[t].file]
          /\ pc' = [pc EXCEPT ![t] = "send"]
          /\ UNCHANGED <<req, leftover, faults>>
       \/ /\ Fault("write")
          /\ leftover' \in {leftover, leftover \cup {req[t].file}}
          /\ pc' = [pc EXCEPT ![t] = "idle"]
          /\ req' = [req EXCEPT ![t] = NoRequest]
          /\ UNCHANGED buffer
    /\ UNCHANGED <<users, meta, blob, audit, delivered, keyVars>>

\* Slip: all requests share one buffer path.
SendShared(t) ==
    /\ pc[t] = "send"
    /\ \E s \in Threads :
          /\ buffer[s] # NoFile
          /\ delivered' = delivered \cup {<<req[t].user, buffer[s]>>}
    /\ Goto(t, "cleanup")
    /\ UNCHANGED <<users, meta, blob, audit, req, faults, keyVars>>

\* FileResponse; the background tasks run only after it went through.
Send(t) ==
    /\ pc[t] = "send"
    /\ \/ /\ delivered' = delivered \cup {<<req[t].user, req[t].file>>}
          /\ Goto(t, "cleanup")
          /\ UNCHANGED <<req, faults>>
       \/ EndRequest(t) /\ Fault("send") /\ UNCHANGED delivered
    /\ UNCHANGED <<users, meta, blob, audit, keyVars>>

\* Slip: the unlink is not among the background tasks.
CleanupNothing(t) ==
    /\ pc[t] = "cleanup"
    /\ Goto(t, "log_integrity")
    /\ UNCHANGED <<users, meta, blob, audit, req, delivered, faults, keyVars>>

\* First background task: tmp_out.unlink.  If it raises, the others are skipped.
Cleanup(t) ==
    /\ pc[t] = "cleanup"
    /\ \/ /\ buffer' = [buffer EXCEPT ![t] = NoFile]
          /\ pc' = [pc EXCEPT ![t] = "log_integrity"]
          /\ UNCHANGED <<req, leftover, faults>>
       \/ EndRequest(t) /\ Fault("unlink")
    /\ UNCHANGED <<users, meta, blob, audit, delivered, keyVars>>

\* Slip: the two log tasks are added in the other order.
LogIntegrityLast(t) ==
    /\ pc[t] = "log_integrity"
    /\ WriteAudit(t, "download", TRUE)
    /\ Goto(t, "log_download")
    /\ UNCHANGED <<users, meta, blob, req, delivered, keyVars>>

\* Slip: the second log task is not added.
LogIntegrityOnly(t) ==
    /\ pc[t] = "log_integrity"
    /\ WriteAudit(t, "download_integrity_check", TRUE)
    /\ EndRequest(t)
    /\ UNCHANGED <<users, meta, blob, delivered, keyVars>>

\* Second background task.
LogIntegrity(t) ==
    /\ pc[t] = "log_integrity"
    /\ WriteAudit(t, "download_integrity_check", TRUE)
    /\ Goto(t, "log_download")
    /\ UNCHANGED <<users, meta, blob, req, delivered, keyVars>>

\* Third background task.
LogDownload(t) ==
    /\ pc[t] = "log_download"
    /\ WriteAudit(t, "download", TRUE)
    /\ EndRequest(t)
    /\ UNCHANGED <<users, meta, blob, delivered, keyVars>>

-----------------------------------------------------------------------------

\* A step inside _ensure_keys_exist.
KeyWork(t) ==
    /\ \/ (Generate(t) \/ Fetch(t)) /\ UNCHANGED faults
       \/ GenerateFails(t) /\ Fault("keygen")
    /\ UNCHANGED fileVars

\* Process p dies and is started again.
Crash(p) ==
    /\ Fault("crash")
    /\ EndRequests({t \in Threads : ProcOf[t] = p})
    /\ Restart(p)
    /\ UNCHANGED <<users, meta, blob, audit, delivered>>

\* The disk returns other bytes than were written.
Corrupt(f) ==
    /\ Fault("disk")
    /\ blob[f] = "enc"
    /\ blob' = [blob EXCEPT ![f] = "bad"]
    /\ UNCHANGED <<users, meta, audit, pc, req, buffer, leftover, delivered,
                   keyVars>>

UploadStep(t) ==
    \/ WriteTmp(t) \/ Rename(t) \/ BeginWrap(t) \/ FinishWrap(t)
    \/ Record(t) \/ Refresh(t)

DownloadStep(t) ==
    \/ BeginUnwrap(t) \/ FinishUnwrap(t) \/ ReadBlob(t) \/ Deny(t)
    \/ WriteBuffer(t) \/ Send(t) \/ Cleanup(t)
    \/ LogIntegrity(t) \/ LogDownload(t)

Step(t) == UploadStep(t) \/ DownloadStep(t) \/ KeyWork(t)

Next ==
    \/ \E i \in Ids : Register(i)
    \/ \E t \in Threads : StartUpload(t) \/ StartDownload(t) \/ Step(t)
    \/ \E p \in Procs : Crash(p)
    \/ \E f \in Files : Corrupt(f)

Spec == Init /\ [][Next]_vars

\* A thread that has started a handler keeps running it, and so does the
\* chain of background tasks behind the response.
FairSpec == Spec /\ \A t \in Threads : WF_vars(Step(t))

-----------------------------------------------------------------------------

\* Types of the variables.
TypeOK ==
    /\ KeyTypeOK
    /\ users \subseteq Ids
    /\ meta \in [Files -> MetaRow \cup {NoRow}]
    /\ blob \in [Files -> BlobStates]
    /\ audit \subseteq AuditRow
    /\ pc \in [Threads -> Stages]
    /\ req \in [Threads -> Request]
    /\ buffer \in [Threads -> Files \cup {NoFile}]
    /\ leftover \subseteq Files
    /\ delivered \subseteq Ids \X Files
    /\ faults \subseteq Excuses

Recorded == {f \in Files : meta[f] # NoRow}

\* While an upload runs its file is its own: no second thread writes or unlinks
\* that blob, no row names it before the commit, and from the rename on the blob
\* is there to be committed (files.py:254-292).
UploadsOwnTheirFiles ==
    \A t \in Threads : pc[t] \in UploadStages =>
        /\ \A s \in Threads :
              pc[s] \in UploadStages /\ req[s].file = req[t].file => s = t
        /\ pc[t] # "refresh" => req[t].file \notin Recorded
        /\ pc[t] \in {"wrap", "record", "refresh"} =>
              blob[req[t].file] \in {"enc", "bad"}

\* A committed row points at a blob that is on disk: no error path of any
\* upload, and no other request, unlinks it -- unless the refresh after the
\* commit raised (files.py:258-296).
RecordedFileIsStored ==
    "refresh" \notin faults => \A f \in Recorded : blob[f] \in {"enc", "bad"}

\* FileMetadata, models.py:173: "The actual file content lives on disk at
\* obfuscated_storage_path", of every row.
EveryRowHasItsBlob == \A f \in Recorded : blob[f] # "none"

\* GET /files/inbox and /files/sent: inner joins with the other party's row.
Inbox(u) == {f \in Recorded : meta[f].receiver = u /\ meta[f].sender \in users}
Sent(u) == {f \in Recorded : meta[f].sender = u /\ meta[f].receiver \in users}

\* The joins hide no file although receiver_id is not checked on the fallback
\* path and SQLite does not enforce the foreign keys (files.py:221-227, 482-533).
EveryFileIsListed ==
    \A f \in Recorded : \E u, v \in users : f \in Sent(u) \cap Inbox(v)

\* The row of an exam paper names the one HOD of its sender's department at the
\* commit, although the HOD was looked up long before it and others, who would be
\* HOD of that department too, try to register meanwhile (files.py:196-207,
\* 273-291).
ExamPaperReachesHod ==
    [][\A t \in Threads :
          /\ pc[t] \in UploadStages /\ req[t].doc = "EXAM_PAPER"
          /\ req[t].file \in Recorded' \ Recorded
          => LET row == meta'[req[t].file] IN
             Hods(users', Profile[row.sender].dept) = {row.receiver}]_vars

\* Plaintext goes to the receiver of the row alone, and no buffer is on disk for
\* anyone else's request (files.py:343-349).
PlaintextOnlyForReceiver ==
    /\ \A d \in delivered : d[2] \in Recorded /\ meta[d[2]].receiver = d[1]
    /\ \A t \in Threads : buffer[t] # NoFile =>
          /\ buffer[t] = req[t].file /\ buffer[t] \in Recorded
          /\ meta[buffer[t]].receiver = req[t].user

\* A "download, success" row is only found behind a delivery to that very user,
\* after the row of the integrity check unless its own write failed
\* (files.py:429-447).
SuccessAuditIsEarned ==
    \A a \in audit : a.action = "download" /\ a.success =>
        /\ <<a.actor, a.file>> \in delivered
        /\ \/ [a EXCEPT !.action = "download_integrity_check"] \in audit
           \/ "audit" \in faults

\* Nothing stays in the storage directory unaccounted for: a blob without a row
\* belongs to an upload in progress, to one a crash cut off or to one whose file
\* could not be unlinked, and plaintext outlives its request only after a crash
\* or an error of the disk or the connection (files.py:258-296, 420-431).
StorageIsAccountedFor ==
    /\ \A f \in Files \ Recorded : blob[f] # "none" =>
          \/ \E t \in Threads : pc[t] \in UploadStages /\ req[t].file = f
          \/ faults \cap {"crash", "unlink"} # {}
    /\ leftover # {} => faults \cap {"crash", "send", "unlink", "write"} # {}

\* The receiver can unwrap every file that was committed for it, for as long as
\* no process has lost its key store (README.md:125).  Two first uses of the
\* receiver's pair that overlap refute it.
RecipientCanDecrypt ==
    "crash" \notin faults => \A t \in Threads : pc[t] # "undecryptable"

\* ... and little else does: a file its receiver cannot unwrap is one for whose
\* receiver a second pair was made, or the process that was asked has no pair of
\* the receiver's and failed to make one (files.py:77-80, 265-267, 359-364).
LostFilesWereRaced ==
    \A t \in Threads : pc[t] = "undecryptable" =>
        \/ made[req[t].user] > 1
        \/ "keygen" \in Faults /\ Entry(t, req[t].user) = NoPair

\* An upload that put bytes on disk ends with a row for them or removes them.
UploadSettles ==
    \A f \in Files : blob[f] = "tmp" ~> (blob[f] = "none" \/ f \in Recorded)

\* Every delivery is in the audit log in the end (files.py:428-447).
DeliveryIsAudited ==
    \A u \in Ids, f \in Files :
        <<u, f>> \in delivered ~>
            [file |-> f, actor |-> u, action |-> "download", success |-> TRUE]
                \in audit

\* The decrypted copy of a download does not stay on disk, but for what a write
\* that failed has left of another one (files.py:420-431).
PlaintextIsRemoved ==
    \A t \in Threads :
        buffer[t] # NoFile ~>
            buffer[t] = NoFile /\ (leftover = {} \/ "write" \in faults)

=============================================================================
