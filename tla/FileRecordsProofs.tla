------------------------- MODULE FileRecordsProofs -------------------------
(***************************************************************************)
(* What the records of the file service are worth, for every set of        *)
(* threads, processes, users and files and whatever fails: each committed  *)
(* file is in the lists of two users, an exam paper has the right          *)
(* receiver, a success in the audit log was one, and nothing is on disk    *)
(* without a cause.                                                        *)
(***************************************************************************)
EXTENDS FileTransferProofs

-----------------------------------------------------------------------------
(* What a step can do to the tables and to a thread.                       *)

\* No user row is deleted, and one is only added by a registration.
LEMMA UsersGrow ==
    ASSUME [Next]_vars
    PROVE  users \subseteq users' /\ (UNCHANGED users \/ \E i \in Ids : Register(i))
<1>1. ASSUME \A i \in Ids : ~ Register(i)
      PROVE  UNCHANGED users
  BY <1>1 DEF Next, StartUpload, StartDownload, Step, UploadStep,
       WriteTmp, Rename, BeginWrap, FinishWrap, Record, Refresh, DownloadStep,
       BeginUnwrap, FinishUnwrap, ReadBlob, Deny, WriteBuffer, Send, Cleanup,
       LogIntegrity, LogDownload, KeyWork, Crash, Corrupt, fileVars, vars
<1> QED
  BY <1>1 DEF Register

\* A row is only written by the transaction of an upload.
LEMMA RowsAreRecorded ==
    ASSUME [Next]_vars
    PROVE  UNCHANGED meta \/ \E t \in Threads : Record(t)
BY DEF Next, Register, StartUpload, StartDownload, Step, UploadStep,
       WriteTmp, Rename, BeginWrap, FinishWrap, Refresh, DownloadStep,
       BeginUnwrap, FinishUnwrap, ReadBlob, Deny, WriteBuffer, Send, Cleanup,
       LogIntegrity, LogDownload, KeyWork, Crash, Corrupt, fileVars, vars

\* The histories and the audit log only grow.
LEMMA HistoriesGrow ==
    ASSUME [Next]_vars
    PROVE  faults \subseteq faults' /\ audit \subseteq audit'
           /\ delivered \subseteq delivered'
<1>1. /\ \A kind : Fault(kind) => faults \subseteq faults'
      /\ \A t \in Threads : \A failures :
            Discard(t, failures) => faults \subseteq faults'
  BY DEF Fault, Fail, Discard
<1>2. faults \subseteq faults'
  BY <1>1 DEF Next, Register, StartUpload, StartDownload, Step, UploadStep,
       WriteTmp, Rename, BeginWrap, FinishWrap, Record, Refresh, DownloadStep,
       BeginUnwrap, FinishUnwrap, ReadBlob, Deny, WriteBuffer, Send, Cleanup,
       LogIntegrity, LogDownload, KeyWork, Crash, Corrupt, fileVars, vars,
       WriteAudit
<1>3. audit \subseteq audit' /\ delivered \subseteq delivered'
  BY DEF Next, Register, StartUpload, StartDownload, Step, UploadStep,
       WriteTmp, Rename, BeginWrap, FinishWrap, Record, Refresh, DownloadStep,
       BeginUnwrap, FinishUnwrap, ReadBlob, Deny, WriteBuffer, Send, Cleanup,
       LogIntegrity, LogDownload, KeyWork, Crash, Corrupt, fileVars, vars,
       WriteAudit
<1> QED
  BY <1>2, <1>3

\* The thread is where it was.
Rests(t) == pc'[t] = pc[t] /\ req'[t] = req[t] /\ buffer'[t] = buffer[t]

\* The request of the thread is over.
Ends(t) == pc'[t] = "idle" /\ req'[t] = NoRequest /\ buffer'[t] = NoFile

\* A thread only moves by its own steps and by the crash of its process.
LEMMA ThreadMoves ==
    ASSUME TypeInv, [Next]_vars, NEW s \in Threads
    PROVE  \/ Rests(s)
           \/ StartUpload(s) \/ StartDownload(s)
           \/ UploadStep(s) /\ ~ BeginWrap(s)
           \/ DownloadStep(s) /\ ~ BeginUnwrap(s)
           \/ Ends(s) /\ \E p \in Procs : Crash(p)
<1> USE DEF Rests
<1>a. /\ pc \in [Threads -> Stages] /\ req \in [Threads -> Request]
      /\ buffer \in [Threads -> Files \cup {NoFile}]
  BY DEF TypeInv, TypeOK
<1>b. ASSUME NEW t \in Threads, EndRequest(t), s # t
      PROVE  Rests(s)
  BY <1>a, <1>b DEF EndRequest, EndRequests
<1>1. ASSUME NEW t \in Threads, s # t,
             StartUpload(t) \/ UploadStep(t)
      PROVE  Rests(s)
  BY <1>a, <1>b, <1>1
     DEF StartUpload, UploadStep, WriteTmp, Rename, BeginWrap, FinishWrap,
         Record, Refresh, Discard, Goto, fileVars
<1>2. ASSUME NEW t \in Threads, s # t,
             StartDownload(t) \/ DownloadStep(t)
      PROVE  Rests(s)
  BY <1>a, <1>b, <1>2
     DEF StartDownload, DownloadStep, BeginUnwrap, FinishUnwrap, ReadBlob, Deny,
         WriteBuffer, Send, Cleanup, LogIntegrity, LogDownload, Goto, fileVars
<1>3. ASSUME NEW t \in Threads, KeyWork(t) \/ BeginWrap(t) \/ BeginUnwrap(t)
      PROVE  Rests(s)
  BY <1>3 DEF KeyWork, BeginWrap, BeginUnwrap, fileVars
<1>4. ASSUME NEW p \in Procs, Crash(p)
      PROVE  Rests(s) \/ Ends(s)
  BY <1>4 DEF Crash, EndRequests, Ends
<1>5. CASE \/ UNCHANGED vars
           \/ \E i \in Ids : Register(i)
           \/ \E f \in Files : Corrupt(f)
  BY <1>5 DEF vars, fileVars, Register, Corrupt
<1> QED
  BY <1>1, <1>2, <1>3, <1>4, <1>5 DEF Next, Step

\* An upload that goes on is still about the same file and parties.
LEMMA UploadsGoOn ==
    ASSUME TypeInv, [Next]_vars, NEW s \in Threads,
           pc'[s] \in UploadStages, ~ StartUpload(s)
    PROVE  /\ pc[s] \in UploadStages
           /\ req'[s].user = req[s].user /\ req'[s].file = req[s].file
           /\ req'[s].receiver = req[s].receiver /\ req'[s].doc = req[s].doc
<1>a. /\ pc \in [Threads -> Stages] /\ req \in [Threads -> Request]
  BY DEF TypeInv, TypeOK
<1>b. EndRequest(s) => pc'[s] = "idle"
  BY DEF EndRequest, EndRequests
<1>1. CASE Rests(s)
  BY <1>1 DEF Rests
<1>2. CASE Ends(s)
  BY <1>2 DEF Ends, UploadStages
<1>3. CASE StartDownload(s)
  BY <1>a, <1>3 DEF StartDownload, Goto, UploadStages
<1>4. CASE DownloadStep(s) /\ ~ BeginUnwrap(s)
  BY <1>a, <1>b, <1>4
     DEF DownloadStep, FinishUnwrap, ReadBlob, Deny, WriteBuffer, Send, Cleanup,
         LogIntegrity, LogDownload, Goto, UploadStages
<1>5. CASE UploadStep(s) /\ ~ BeginWrap(s)
  <2>1. pc[s] \in UploadStages
    BY <1>5 DEF UploadStep, WriteTmp, Rename, BeginWrap, FinishWrap, Record,
                Refresh, UploadStages
  <2>2. req' = req \/ \E k : req' = [req EXCEPT ![s].pair = k]
    BY <1>5, <1>b
       DEF UploadStep, WriteTmp, Rename, BeginWrap, FinishWrap, Record, Refresh,
           Discard, UploadStages
  <2>3. CASE req' = req
    BY <2>1, <2>3
  <2>4. ASSUME NEW k, req' = [req EXCEPT ![s].pair = k]
        PROVE  /\ req'[s].user = req[s].user /\ req'[s].file = req[s].file
               /\ req'[s].receiver = req[s].receiver /\ req'[s].doc = req[s].doc
    BY <1>a, <2>4 DEF Request
  <2> QED
    BY <2>1, <2>2, <2>3, <2>4
<1> QED
  BY <1>1, <1>2, <1>3, <1>4, <1>5, ThreadMoves

\* What a new upload starts from.
LEMMA UploadStarts ==
    ASSUME TypeInv, NEW s \in Threads, StartUpload(s)
    PROVE  \E u \in users, f \in Files, doc \in Docs, rcv \in Ids \cup {NoId} :
              \E r \in Routes(u, doc, rcv) :
                 /\ Unused(f)
                 /\ req'[s] = [user |-> u, file |-> f, receiver |-> r,
                               doc |-> doc, pair |-> NoPair]
                 /\ pc'[s] = "write"
<1>1. pc \in [Threads -> Stages] /\ req \in [Threads -> Request]
  BY DEF TypeInv, TypeOK
<1> QED
  BY <1>1, PostedAreDocs DEF StartUpload, Goto

-----------------------------------------------------------------------------
(* Every file is in two lists.                                             *)

\* The parties of a row are users, and so is whoever uploads.
PartiesExist ==
    /\ \A f \in Recorded : meta[f].sender \in users /\ meta[f].receiver \in users
    /\ \A t \in Threads : pc[t] \in UploadStages => req[t].user \in users

PartiesInv == TypeInv /\ PartiesExist

LEMMA PartiesStep ==
    ASSUME PartiesInv, [Next]_vars
    PROVE  PartiesInv'
<1>a. TypeInv /\ TypeInv'
  BY TypeStep DEF PartiesInv
<1>b. users \subseteq users'
  BY UsersGrow
<1>1. ASSUME NEW t \in Threads, pc'[t] \in UploadStages
      PROVE  req'[t].user \in users'
  <2>1. CASE StartUpload(t)
    <3>1. \E u \in users : \E f, r, doc :
             req'[t] = [user |-> u, file |-> f, receiver |-> r, doc |-> doc,
                        pair |-> NoPair]
      BY <1>a, <2>1, UploadStarts
    <3> QED
      BY <1>b, <3>1
  <2>2. CASE ~ StartUpload(t)
    BY <1>a, <1>b, <1>1, <2>2, UploadsGoOn DEF PartiesInv, PartiesExist
  <2> QED
    BY <2>1, <2>2
<1>2. ASSUME NEW f \in Files, meta'[f] # NoRow
      PROVE  meta'[f].sender \in users' /\ meta'[f].receiver \in users'
  <2>1. CASE meta'[f] = meta[f]
    BY <1>b, <1>2, <2>1 DEF PartiesInv, PartiesExist, Recorded
  <2>2. CASE meta'[f] # meta[f]
    <3>1. PICK t \in Threads : Record(t)
      BY <2>2, RowsAreRecorded
    <3>2. /\ req[t].receiver \in users /\ f = req[t].file
          /\ meta'[f] = [sender |-> req[t].user, receiver |-> req[t].receiver,
                         pair |-> req[t].pair]
      BY <1>a, <2>2, <3>1 DEF Record, TypeInv, TypeOK
    <3>3. req[t].user \in users
      BY <3>1 DEF Record, UploadStages, PartiesInv, PartiesExist
    <3> QED
      BY <1>b, <3>2, <3>3
  <2> QED
    BY <2>1, <2>2
<1> QED
  BY <1>a, <1>1, <1>2 DEF PartiesInv, PartiesExist, Recorded

\* Every committed file is in the sent list of one user and in the inbox of
\* another, although the fallback path of the upload never looks its receiver
\* up: the inner joins of the two lists drop nothing.
THEOREM FilesAreListed == Spec => []EveryFileIsListed
<1>1. Init => PartiesInv
  BY TypeInit DEF Init, PartiesInv, PartiesExist, Recorded, UploadStages
<1>2. PartiesInv /\ [Next]_vars => PartiesInv'
  BY PartiesStep
<1>3. PartiesInv => EveryFileIsListed
  BY DEF PartiesInv, PartiesExist, EveryFileIsListed, Sent, Inbox
<1> QED
  BY <1>1, <1>2, <1>3, PTL DEF Spec

-----------------------------------------------------------------------------
(* Exam papers.                                                            *)

\* A department that has its one HOD keeps that HOD: a registration of another
\* one clashes with its row.
LEMMA HodStays ==
    ASSUME [Next]_vars, NEW dept, NEW h, Hods(users, dept) = {h}
    PROVE  Hods(users', dept) = {h}
<1>1. CASE UNCHANGED users
  BY <1>1
<1>2. ASSUME NEW i \in Ids, Register(i)
      PROVE  Hods(users', dept) = {h}
  <2>1. h \in users /\ Profile[h].role = HOD /\ Profile[h].dept = dept
    BY DEF Hods
  <2>2. ~ (Profile[i].role = HOD /\ Profile[i].dept = dept)
    BY <1>2, <2>1
       DEF Register, Directory!Add, Directory!Clash, Directory!RoleTaken, Rows
  <2>3. users' = users \cup {i}
    BY <1>2 DEF Register
  <2> QED
    BY <2>2, <2>3 DEF Hods
<1> QED
  BY <1>1, <1>2, UsersGrow

\* The HOD an exam paper was routed to is still the one of its department.
PapersAreRouted ==
    \A t \in Threads : pc[t] \in UploadStages /\ req[t].doc = "EXAM_PAPER" =>
        Hods(users, Profile[req[t].user].dept) = {req[t].receiver}

ExamInv == StorageInv /\ PapersAreRouted

LEMMA ExamStep ==
    ASSUME ExamInv, [Next]_vars
    PROVE  ExamInv'
<1>a. TypeInv /\ StorageInv'
  BY StorageStep DEF ExamInv, StorageInv
<1>1. ASSUME NEW t \in Threads, pc'[t] \in UploadStages,
             req'[t].doc = "EXAM_PAPER"
      PROVE  Hods(users', Profile[req'[t].user].dept) = {req'[t].receiver}
  <2>1. CASE StartUpload(t)
    <3>1. PICK u \in users, doc \in Docs, rcv \in Ids \cup {NoId} :
             \E r \in Routes(u, doc, rcv) : \E f :
             req'[t] = [user |-> u, file |-> f, receiver |-> r, doc |-> doc,
                        pair |-> NoPair]
      BY <1>a, <2>1, UploadStarts
    <3>2. PICK r \in Routes(u, doc, rcv) :
             req'[t].user = u /\ req'[t].receiver = r /\ req'[t].doc = doc
      BY <3>1
    <3>3. Hods(users, Profile[u].dept) = {r}
      BY <1>1, <3>2 DEF Routes
    <3> QED
      BY <2>1, <3>2, <3>3 DEF StartUpload
  <2>2. CASE ~ StartUpload(t)
    <3>1. /\ req'[t].user = req[t].user /\ req'[t].receiver = req[t].receiver
          /\ Hods(users, Profile[req[t].user].dept) = {req[t].receiver}
      BY <1>a, <1>1, <2>2, UploadsGoOn DEF ExamInv, PapersAreRouted
    <3> QED
      BY <3>1, HodStays
  <2> QED
    BY <2>1, <2>2
<1>2. PapersAreRouted'
  BY <1>1 DEF PapersAreRouted
<1> QED
  BY <1>a, <1>2 DEF ExamInv

\* The row a step commits is that of the one upload that owns the file.
LEMMA RowsAreOfTheirUploads ==
    ASSUME StorageInv, [Next]_vars, NEW t \in Threads, pc[t] \in UploadStages,
           req[t].file \in Recorded' \ Recorded
    PROVE  /\ meta'[req[t].file] =
                [sender |-> req[t].user, receiver |-> req[t].receiver,
                 pair |-> req[t].pair]
           /\ UNCHANGED users
<1>a. meta \in [Files -> MetaRow \cup {NoRow}]
  BY DEF StorageInv, TypeInv, TypeOK
<1>1. meta'[req[t].file] # meta[req[t].file] /\ req[t].file \in Files
  BY DEF Recorded
<1>2. PICK s \in Threads : Record(s)
  BY <1>1, RowsAreRecorded
<1>3. /\ pc[s] = "record" /\ UNCHANGED users
      /\ meta' = [meta EXCEPT ![req[s].file] =
            [sender |-> req[s].user, receiver |-> req[s].receiver,
             pair |-> req[s].pair]]
  BY <1>1, <1>2 DEF Record
<1>4. req[s].file = req[t].file
  BY <1>a, <1>1, <1>3
<1>5. s = t
  BY <1>3, <1>4 DEF StorageInv, UploadsOwnTheirFiles, UploadStages
<1> QED
  BY <1>a, <1>1, <1>3, <1>5

\* Whoever registers while a paper is under way, the row committed for it names
\* the one HOD of its sender's department at the commit.
THEOREM ExamPapersReachHods == Spec => ExamPaperReachesHod
<1> DEFINE Reaches ==
      \A t \in Threads :
          /\ pc[t] \in UploadStages /\ req[t].doc = "EXAM_PAPER"
          /\ req[t].file \in Recorded' \ Recorded
          => LET row == meta'[req[t].file] IN
             Hods(users', Profile[row.sender].dept) = {row.receiver}
<1>1. Init => ExamInv
  BY StorageInit DEF Init, ExamInv, PapersAreRouted, UploadStages
<1>2. ExamInv /\ [Next]_vars => ExamInv'
  BY ExamStep
<1>3. ExamInv /\ [Next]_vars => Reaches
  <2>1. SUFFICES ASSUME ExamInv, [Next]_vars, NEW t \in Threads,
                        pc[t] \in UploadStages, req[t].doc = "EXAM_PAPER",
                        req[t].file \in Recorded' \ Recorded
                 PROVE  Hods(users', Profile[meta'[req[t].file].sender].dept) =
                          {meta'[req[t].file].receiver}
    BY DEF Reaches
  <2>2. StorageInv
    BY <2>1 DEF ExamInv
  <2>3. /\ meta'[req[t].file] =
             [sender |-> req[t].user, receiver |-> req[t].receiver,
              pair |-> req[t].pair]
        /\ UNCHANGED users
    BY <2>1, <2>2, RowsAreOfTheirUploads
  <2> QED
    BY <2>1, <2>3 DEF ExamInv, PapersAreRouted
<1> HIDE DEF Reaches
<1>4. Spec => [][Reaches]_vars
  BY <1>1, <1>2, <1>3, PTL DEF Spec
<1> QED
  BY <1>4 DEF ExamPaperReachesHod, Reaches

-----------------------------------------------------------------------------
(* The audit log.                                                          *)

\* The log tasks run behind a delivery, the second of them behind the first.
LogsFollowDeliveries ==
    \A t \in Threads :
        /\ pc[t] \in {"cleanup", "log_integrity", "log_download"} =>
              <<req[t].user, req[t].file>> \in delivered
        /\ pc[t] = "log_download" =>
              \/ [file |-> req[t].file, actor |-> req[t].user,
                  action |-> "download_integrity_check", success |-> TRUE]
                    \in audit
              \/ "audit" \in faults

AuditInv == TypeInv /\ LogsFollowDeliveries /\ SuccessAuditIsEarned

\* A step of the log tasks' stages keeps the request.
LEMMA LogStagesKeep ==
    ASSUME TypeInv, [Next]_vars, NEW s \in Threads,
           pc'[s] \in {"cleanup", "log_integrity", "log_download"}
    PROVE  \/ Rests(s)
           \/ /\ req'[s] = req[s]
              /\ \/ pc'[s] = "cleanup" /\ Send(s)
                 \/ pc'[s] = "log_integrity" /\ Cleanup(s)
                 \/ pc'[s] = "log_download" /\ LogIntegrity(s)
<1>a. /\ pc \in [Threads -> Stages] /\ req \in [Threads -> Request]
  BY DEF TypeInv, TypeOK
<1>b. EndRequest(s) => pc'[s] = "idle"
  BY DEF EndRequest, EndRequests
<1>1. CASE Ends(s)
  BY <1>1 DEF Ends
<1>2. CASE StartUpload(s) \/ StartDownload(s)
  BY <1>a, <1>2 DEF StartUpload, StartDownload, Goto
<1>3. CASE UploadStep(s) /\ ~ BeginWrap(s)
  BY <1>a, <1>b, <1>3
     DEF UploadStep, WriteTmp, Rename, FinishWrap, Record, Refresh, Discard, Goto
<1>4. CASE DownloadStep(s) /\ ~ BeginUnwrap(s)
  BY <1>a, <1>b, <1>4
     DEF DownloadStep, FinishUnwrap, ReadBlob, Deny, WriteBuffer, Send, Cleanup,
         LogIntegrity, LogDownload, Goto
<1> QED
  BY <1>1, <1>2, <1>3, <1>4, ThreadMoves

\* A row is only added by the refusals and by the two log tasks.
LEMMA AuditsAreWritten ==
    ASSUME [Next]_vars
    PROVE  \/ UNCHANGED audit
           \/ \E t \in Threads : Deny(t) \/ LogIntegrity(t) \/ LogDownload(t)
BY DEF Next, Register, StartUpload, StartDownload, Step, UploadStep,
       WriteTmp, Rename, BeginWrap, FinishWrap, Record, Refresh, DownloadStep,
       BeginUnwrap, FinishUnwrap, ReadBlob, WriteBuffer, Send, Cleanup,
       KeyWork, Crash, Corrupt, fileVars, vars

LEMMA AuditStep ==
    ASSUME AuditInv, [Next]_vars
    PROVE  AuditInv'
<1>a. TypeInv /\ TypeInv'
  BY TypeStep DEF AuditInv
<1>b. /\ faults \subseteq faults' /\ audit \subseteq audit'
      /\ delivered \subseteq delivered'
  BY HistoriesGrow
<1>c. \A t \in Threads : \A action, success :
          WriteAudit(t, action, success) =>
              \/ audit' = audit \cup {[file |-> req[t].file, actor |-> req[t].user,
                                       action |-> action, success |-> success]}
              \/ UNCHANGED audit /\ "audit" \in faults'
  BY DEF WriteAudit, Fault, Fail, Excuses
<1>1. ASSUME NEW t \in Threads,
             pc'[t] \in {"cleanup", "log_integrity", "log_download"}
      PROVE  <<req'[t].user, req'[t].file>> \in delivered'
  <2>1. CASE Send(t) /\ pc'[t] = "cleanup" /\ req'[t] = req[t]
    <3>1. ~ EndRequest(t)
      BY <2>1 DEF EndRequest, EndRequests
    <3> QED
      BY <2>1, <3>1 DEF Send
  <2>2. CASE (Cleanup(t) \/ LogIntegrity(t)) /\ req'[t] = req[t]
    BY <1>b, <2>2 DEF AuditInv, LogsFollowDeliveries, Cleanup, LogIntegrity
  <2>3. CASE Rests(t)
    BY <1>b, <1>1, <2>3 DEF AuditInv, LogsFollowDeliveries, Rests
  <2> QED
    BY <1>a, <1>1, <2>1, <2>2, <2>3, LogStagesKeep
<1>2. ASSUME NEW t \in Threads, pc'[t] = "log_download"
      PROVE  \/ [file |-> req'[t].file, actor |-> req'[t].user,
                 action |-> "download_integrity_check", success |-> TRUE]
                    \in audit'
             \/ "audit" \in faults'
  <2>1. CASE LogIntegrity(t) /\ req'[t] = req[t]
    BY <1>c, <2>1 DEF LogIntegrity
  <2>2. CASE Rests(t)
    BY <1>b, <1>2, <2>2 DEF AuditInv, LogsFollowDeliveries, Rests
  <2> QED
    BY <1>a, <1>2, <2>1, <2>2, LogStagesKeep
<1>3. ASSUME NEW a \in audit', a.action = "download", a.success
      PROVE  /\ <<a.actor, a.file>> \in delivered'
             /\ \/ [a EXCEPT !.action = "download_integrity_check"] \in audit'
                \/ "audit" \in faults'
  <2>1. CASE a \in audit
    BY <1>b, <1>3, <2>1 DEF AuditInv, SuccessAuditIsEarned
  <2>2. CASE a \notin audit
    <3>1. PICK t \in Threads : Deny(t) \/ LogIntegrity(t) \/ LogDownload(t)
      BY <2>2, AuditsAreWritten
    <3>2. /\ LogDownload(t)
          /\ a = [file |-> req[t].file, actor |-> req[t].user,
                  action |-> "download", success |-> TRUE]
      <4>1. \A action, success : WriteAudit(t, action, success) =>
              a = [file |-> req[t].file, actor |-> req[t].user,
                   action |-> action, success |-> success]
        BY <1>c, <1>3, <2>2
      <4>2. ASSUME Deny(t) PROVE FALSE
        <5>1. a = [file |-> req[t].file, actor |-> req[t].user,
                   action |-> "download", success |-> FALSE]
          BY <4>1, <4>2 DEF Deny
        <5> QED
          BY <1>3, <5>1
      <4>3. ASSUME LogIntegrity(t) PROVE FALSE
        <5>1. a = [file |-> req[t].file, actor |-> req[t].user,
                   action |-> "download_integrity_check", success |-> TRUE]
          BY <4>1, <4>3 DEF LogIntegrity
        <5> QED
          BY <1>3, <5>1
      <4> QED
        BY <3>1, <4>1, <4>2, <4>3 DEF LogDownload
    <3>3. /\ <<a.actor, a.file>> \in delivered
          /\ \/ [file |-> a.file, actor |-> a.actor,
                 action |-> "download_integrity_check", success |-> TRUE] \in audit
             \/ "audit" \in faults
      BY <3>2 DEF LogDownload, AuditInv, LogsFollowDeliveries
    <3>4. [a EXCEPT !.action = "download_integrity_check"] =
            [file |-> a.file, actor |-> a.actor,
             action |-> "download_integrity_check", success |-> TRUE]
      <4>1. a \in AuditRow
        BY <1>a, <1>3 DEF TypeInv, TypeOK
      <4>2. PICK b \in AuditRow :
              b = [a EXCEPT !.action = "download_integrity_check"]
        BY <4>1 DEF AuditRow
      <4>3. /\ b.file = a.file /\ b.actor = a.actor /\ b.success = TRUE
            /\ b.action = "download_integrity_check"
        BY <3>2, <4>1, <4>2 DEF AuditRow
      <4> QED
        BY <4>2, <4>3 DEF AuditRow
    <3> QED
      BY <1>b, <3>3, <3>4
  <2> QED
    BY <2>1, <2>2
<1>4. LogsFollowDeliveries'
  BY <1>1, <1>2 DEF LogsFollowDeliveries
<1>5. SuccessAuditIsEarned'
  BY <1>3 DEF SuccessAuditIsEarned
<1> QED
  BY <1>a, <1>4, <1>5 DEF AuditInv

\* A success in the audit log stands for a delivery to that user, after the row
\* of the integrity check unless writing that one failed.
THEOREM AuditedSuccessesAreEarned == Spec => []SuccessAuditIsEarned
<1>1. Init => AuditInv
  BY TypeInit DEF Init, AuditInv, LogsFollowDeliveries, SuccessAuditIsEarned
<1>2. AuditInv /\ [Next]_vars => AuditInv'
  BY AuditStep
<1>3. AuditInv => SuccessAuditIsEarned
  BY DEF AuditInv
<1> QED
  BY <1>1, <1>2, <1>3, PTL DEF Spec

-----------------------------------------------------------------------------
(* What is on disk.                                                        *)

\* From the commit on an upload has its row.
CommittedUploadsAreRecorded ==
    \A t \in Threads : pc[t] = "refresh" => req[t].file \in Recorded

DiskInv == PlaintextInv /\ CommittedUploadsAreRecorded /\ StorageIsAccountedFor

\* A blob only appears under an upload that goes on, or it is one that an upload
\* could not unlink.
LEMMA BlobsAreUploaded ==
    ASSUME TypeInv, [Next]_vars, NEW f \in Files,
           blob[f] = "none", blob'[f] # "none"
    PROVE  \/ \E t \in Threads : pc'[t] \in UploadStages /\ req'[t].file = f
           \/ "unlink" \in faults'
<1>a. /\ pc \in [Threads -> Stages] /\ req \in [Threads -> Request]
      /\ blob \in [Files -> BlobStates]
  BY DEF TypeInv, TypeOK
<1>1. CASE \E t \in Threads : \E failures : Discard(t, failures)
  <2>1. PICK t \in Threads : \E failures : Discard(t, failures)
    BY <1>1
  <2>2. ~ SetBlob(t, "none")
    BY <1>a DEF SetBlob
  <2> QED
    BY <2>1, <2>2 DEF Discard, Fail, Excuses
<1>2. CASE \A t \in Threads : \A failures : ~ Discard(t, failures)
  <2>1. PICK t \in Threads : WriteTmp(t) \/ Rename(t)
    <3>1. blob' # blob /\ \A g \in Files : ~ Corrupt(g)
      BY <1>a DEF Corrupt
    <3> QED
      BY <1>2, <3>1
         DEF Next, Register, StartUpload, StartDownload, Step, UploadStep,
             BeginWrap, FinishWrap, Record, Refresh, DownloadStep, BeginUnwrap,
             FinishUnwrap, ReadBlob, Deny, WriteBuffer, Send, Cleanup,
             LogIntegrity, LogDownload, KeyWork, Crash, fileVars, vars
  <2>2. pc'[t] \in UploadStages /\ req' = req
    BY <1>a, <1>2, <2>1 DEF WriteTmp, Rename, Goto, UploadStages
  <2>3. req[t].file = f
    BY <1>a, <1>2, <2>1 DEF WriteTmp, Rename, SetBlob
  <2> QED
    BY <2>2, <2>3
<1> QED
  BY <1>1, <1>2

\* An upload that ends has taken its blob with it, unless it has committed, its
\* process has died or the unlink has failed.
LEMMA UploadsEnd ==
    ASSUME TypeInv, [Next]_vars, NEW t \in Threads, pc[t] \in UploadStages,
           ~ (pc'[t] \in UploadStages /\ req'[t].file = req[t].file)
    PROVE  \/ blob'[req[t].file] = "none" \/ pc[t] = "refresh"
           \/ faults' \cap {"crash", "unlink"} # {}
<1>a. /\ pc \in [Threads -> Stages] /\ req \in [Threads -> Request]
      /\ blob \in [Files -> BlobStates] /\ req[t].file \in Files
  BY DEF TypeInv, TypeOK, RequestsComplete, UploadStages
<1>b. ASSUME NEW failures, Discard(t, failures)
      PROVE  blob'[req[t].file] = "none" \/ "unlink" \in faults'
  BY <1>a, <1>b DEF Discard, SetBlob, Fail, Excuses
<1>1. CASE Rests(t)
  BY <1>1 DEF Rests
<1>2. CASE StartUpload(t) \/ StartDownload(t)
  BY <1>2 DEF StartUpload, StartDownload, UploadStages
<1>3. CASE DownloadStep(t)
  BY <1>3 DEF DownloadStep, BeginUnwrap, FinishUnwrap, ReadBlob, Deny,
              WriteBuffer, Send, Cleanup, LogIntegrity, LogDownload, UploadStages
<1>4. ASSUME NEW p \in Procs, Crash(p)
      PROVE  "crash" \in faults'
  BY <1>4 DEF Crash, Fault, Fail, Excuses
<1>5. CASE UploadStep(t) /\ ~ BeginWrap(t) /\ pc[t] # "refresh"
  <2>1. CASE \E failures : Discard(t, failures)
    BY <1>b, <2>1
  <2>2. CASE \A failures : ~ Discard(t, failures)
    <3>1. \E stage \in UploadStages : Goto(t, stage)
      BY <1>5, <2>2 DEF UploadStep, WriteTmp, Rename, FinishWrap, Record, Refresh,
                        UploadStages
    <3>2. req' = req \/ \E k : req' = [req EXCEPT ![t].pair = k]
      BY <1>5, <2>2 DEF UploadStep, WriteTmp, Rename, FinishWrap, Record, Refresh
    <3>3. req'[t].file = req[t].file
      BY <1>a, <3>2 DEF Request
    <3> QED
      BY <1>a, <3>1, <3>3 DEF Goto
  <2> QED
    BY <2>1, <2>2
<1> QED
  BY <1>1, <1>2, <1>3, <1>4, <1>5, ThreadMoves

\* Plaintext is only left behind by a failure.
LEMMA LeftoversHaveCauses ==
    ASSUME PlaintextInv, [Next]_vars, leftover' # leftover
    PROVE  faults' \cap {"crash", "send", "unlink", "write"} # {}
<1>a. \A t \in Threads : buffer[t] # NoFile => pc[t] \in {"send", "cleanup"}
  BY DEF PlaintextInv, ReadersAreReceivers
<1>b. \A kind \in {"crash", "send", "unlink", "write"} :
          Fault(kind) => faults' \cap {"crash", "send", "unlink", "write"} # {}
  BY DEF Fault, Fail, Excuses
<1>c. \A t \in Threads : EndRequest(t) => pc[t] \in {"send", "cleanup"}
  BY <1>a DEF EndRequest, EndRequests
<1>1. ASSUME NEW t \in Threads, UploadStep(t) \/ StartUpload(t) \/ StartDownload(t)
      PROVE  FALSE
  BY <1>c, <1>1
     DEF UploadStep, StartUpload, StartDownload, WriteTmp, Rename, BeginWrap,
         FinishWrap, Record, Refresh, Discard, Goto, fileVars
<1>2. ASSUME NEW t \in Threads, DownloadStep(t)
      PROVE  \E kind \in {"send", "unlink", "write"} : Fault(kind)
  BY <1>c, <1>2
     DEF DownloadStep, BeginUnwrap, FinishUnwrap, ReadBlob, Deny, WriteBuffer,
         Send, Cleanup, LogIntegrity, LogDownload, Goto, fileVars
<1>3. ASSUME NEW p \in Procs, Crash(p)
      PROVE  Fault("crash")
  BY <1>3 DEF Crash
<1>4. CASE \/ UNCHANGED vars
           \/ \E i \in Ids : Register(i)
           \/ \E f \in Files : Corrupt(f)
           \/ \E t \in Threads : KeyWork(t)
  BY <1>4 DEF vars, fileVars, Register, Corrupt, KeyWork
<1> QED
  BY <1>b, <1>1, <1>2, <1>3, <1>4 DEF Next, Step

LEMMA DiskStep ==
    ASSUME DiskInv, [Next]_vars
    PROVE  DiskInv'
<1>a. PlaintextInv' /\ TypeInv
  BY PlaintextStep DEF DiskInv, PlaintextInv, StorageInv
<1>b. faults \subseteq faults'
  BY HistoriesGrow
<1>c. \A f \in Recorded : f \in Recorded'
  BY RowsAreFinal DEF DiskInv, PlaintextInv
<1>1. CommittedUploadsAreRecorded'
  <2>1. SUFFICES ASSUME NEW t \in Threads, pc'[t] = "refresh"
                 PROVE  req'[t].file \in Recorded'
    BY DEF CommittedUploadsAreRecorded
  <2>2. /\ pc[t] \in UploadStages /\ req'[t].file = req[t].file
        /\ req[t].file \in Files
    <3>1. ~ StartUpload(t)
      BY <1>a, <2>1 DEF StartUpload, Goto, TypeInv, TypeOK
    <3> QED
      BY <1>a, <2>1, <3>1, UploadsGoOn
         DEF UploadStages, TypeInv, RequestsComplete
  <2>3. CASE pc[t] = "refresh"
    BY <1>c, <2>2, <2>3 DEF DiskInv, CommittedUploadsAreRecorded
  <2>4. CASE pc[t] # "refresh"
    <3>1. Record(t)
      <4>1. UploadStep(t) /\ ~ BeginWrap(t)
        BY <1>a, <2>1, <2>2, <2>4, ThreadMoves
           DEF Rests, Ends, StartUpload, StartDownload, DownloadStep, BeginUnwrap,
               FinishUnwrap, ReadBlob, Deny, WriteBuffer, Send, Cleanup,
               LogIntegrity, LogDownload, UploadStages
      <4>2. ~ EndRequest(t)
        BY <2>1 DEF EndRequest, EndRequests
      <4> QED
        BY <1>a, <2>1, <2>4, <4>1, <4>2
           DEF UploadStep, WriteTmp, Rename, FinishWrap, Refresh, Discard, Goto,
               TypeInv, TypeOK
    <3>2. \A failures : ~ Discard(t, failures)
      BY <2>1 DEF Discard, EndRequest, EndRequests
    <3>3. meta'[req[t].file] =
             [sender |-> req[t].user, receiver |-> req[t].receiver,
              pair |-> req[t].pair]
      BY <1>a, <2>2, <3>1, <3>2 DEF Record, TypeInv, TypeOK
    <3>4. meta'[req[t].file] \in MetaRow
      BY <1>a, <2>2, <3>3 DEF MetaRow, TypeInv, TypeOK, RequestsComplete, Request,
                              UploadStages
    <3> QED
      BY <2>2, <3>4, NullsAreDistinct DEF Recorded
  <2> QED
    BY <2>3, <2>4
<1>2. ASSUME NEW f \in Files, f \notin Recorded', blob'[f] # "none"
      PROVE  \/ \E t \in Threads : pc'[t] \in UploadStages /\ req'[t].file = f
             \/ faults' \cap {"crash", "unlink"} # {}
  <2>1. CASE blob[f] = "none"
    BY <1>a, <1>2, <2>1, BlobsAreUploaded
  <2>2. CASE faults \cap {"crash", "unlink"} # {}
    BY <1>b, <2>2
  <2>3. CASE blob[f] # "none" /\ faults \cap {"crash", "unlink"} = {}
    <3>1. PICK t \in Threads : pc[t] \in UploadStages /\ req[t].file = f
      BY <1>2, <1>c, <2>3 DEF DiskInv, StorageIsAccountedFor
    <3>2. pc[t] # "refresh"
      BY <1>2, <1>c, <3>1 DEF DiskInv, CommittedUploadsAreRecorded
    <3> QED
      BY <1>a, <1>2, <3>1, <3>2, UploadsEnd
  <2> QED
    BY <2>1, <2>2, <2>3
<1>3. leftover' # {} => faults' \cap {"crash", "send", "unlink", "write"} # {}
  BY <1>b, LeftoversHaveCauses DEF DiskInv, StorageIsAccountedFor
<1>4. StorageIsAccountedFor'
  BY <1>2, <1>3 DEF StorageIsAccountedFor, Recorded
<1> QED
  BY <1>a, <1>1, <1>4 DEF DiskInv

\* A blob without a row is that of an upload under way, of one that a crash cut
\* off or of one whose file could not be unlinked, and plaintext is only left on
\* disk by a failure.
THEOREM DiskIsAccountedFor == Spec => []StorageIsAccountedFor
<1>1. Init => DiskInv
  BY StorageInit
     DEF Init, DiskInv, PlaintextInv, ReadersAreReceivers,
         PlaintextOnlyForReceiver, CommittedUploadsAreRecorded,
         StorageIsAccountedFor
<1>2. DiskInv /\ [Next]_vars => DiskInv'
  BY DiskStep
<1>3. DiskInv => StorageIsAccountedFor
  BY DEF DiskInv
<1> QED
  BY <1>1, <1>2, <1>3, PTL DEF Spec

=============================================================================
