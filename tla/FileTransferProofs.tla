------------------------- MODULE FileTransferProofs -------------------------
(***************************************************************************)
(* What holds of the file service for every set of threads, processes,     *)
(* users and files, and whatever fails: its types, that a committed row    *)
(* has its blob, and that plaintext reaches the receiver alone.            *)
(***************************************************************************)
EXTENDS FileTransfer, TLAPS

-----------------------------------------------------------------------------
(* The key store.                                                          *)

\* A thread inside _ensure_keys_exist was given an id.
CallsHaveIds ==
    \A t \in Threads : call[t].at # "out" => call[t].user \in Ids

KeyInv == KeyTypeOK /\ CallsHaveIds

\* Every step of the key store keeps its types.
LEMMA KeyStepInv ==
    ASSUME KeyInv, NEW t \in Threads, NEW u \in Ids,
           Lookup(t, u) \/ KeyStep(t) \/ Leave(t)
    PROVE  KeyInv'
<1> USE ThreadsHaveProcesses, NoIdIsNotAnId, PairBound
    DEF KeyInv, KeyTypeOK, CallsHaveIds, Call, CallStages, Pairs, NoPair, NoCall
<1>1. CASE Lookup(t, u)
  BY <1>1 DEF Lookup
<1>2. CASE Generate(t)
  <2>1. call[t].user \in Ids
    BY <1>2 DEF Generate
  <2>2. made[call[t].user] + 1 \in 0 .. MaxPairs
    BY <1>2, <2>1 DEF Generate
  <2>3. made' \in [Ids -> 0 .. MaxPairs]
    BY <1>2, <2>1, <2>2 DEF Generate
  <2>4. store' \in [Procs -> [Ids -> 0 .. MaxPairs]]
    BY <1>2, <2>1, <2>2 DEF Generate
  <2> QED
    BY <1>2, <2>3, <2>4 DEF Generate
<1>3. CASE GenerateFails(t)
  BY <1>3 DEF GenerateFails
<1>4. CASE Fetch(t)
  <2>1. Entry(t, call[t].user) \in 0 .. MaxPairs
    BY <1>4 DEF Fetch, Entry
  <2> QED
    BY <1>4, <2>1 DEF Fetch
<1>5. CASE Leave(t)
  BY <1>5 DEF Leave
<1> QED
  BY <1>1, <1>2, <1>3, <1>4, <1>5 DEF KeyStep

LEMMA KeyRestartInv ==
    ASSUME KeyInv, NEW p \in Procs, Restart(p)
    PROVE  KeyInv'
BY ThreadsHaveProcesses, NoIdIsNotAnId, PairBound
   DEF KeyInv, KeyTypeOK, CallsHaveIds, Restart, Call, CallStages, Pairs,
       NoPair, NoCall

-----------------------------------------------------------------------------
(* Types.                                                                  *)

\* The request of a busy thread names a user and a file, an upload's also the
\* receiver.
RequestsComplete ==
    \A t \in Threads : pc[t] # "idle" =>
        /\ req[t].user \in Ids /\ req[t].file \in Files
        /\ pc[t] \in UploadStages => req[t].receiver \in Ids

TypeInv == TypeOK /\ CallsHaveIds /\ RequestsComplete

\* What the state of the requests must be for TypeInv.
RequestTypes ==
    /\ pc \in [Threads -> Stages]
    /\ req \in [Threads -> Request]
    /\ buffer \in [Threads -> Files \cup {NoFile}]
    /\ leftover \subseteq Files
    /\ RequestsComplete

\* Ending requests keeps the state of the requests well formed.
LEMMA EndRequestsTypes ==
    ASSUME RequestTypes, NEW ts \in SUBSET Threads, EndRequests(ts)
    PROVE  RequestTypes'
<1>1. NoRequest \in Request
  BY PairBound DEF NoRequest, DownloadOf, Request, Docs, Pairs, NoPair
<1> QED
  BY <1>1 DEF RequestTypes, RequestsComplete, EndRequests, Stages

LEMMA EndRequestTypes ==
    ASSUME RequestTypes, NEW t \in Threads, EndRequest(t)
    PROVE  RequestTypes'
BY EndRequestsTypes DEF EndRequest

\* Moving a request on keeps it well formed, and so does recording its pair; a
\* download does not turn into an upload.
LEMMA GotoTypes ==
    ASSUME RequestTypes, NEW t \in Threads, NEW stage \in Stages,
           pc[t] # "idle", stage \in UploadStages => pc[t] \in UploadStages,
           pc' = [pc EXCEPT ![t] = stage],
           \/ req' = req
           \/ \E k \in Pairs : req' = [req EXCEPT ![t].pair = k],
           buffer' \in [Threads -> Files \cup {NoFile}],
           leftover' \subseteq Files
    PROVE  RequestTypes'
<1>1. /\ req' \in [Threads -> Request]
      /\ \A s \in Threads : /\ req'[s].user = req[s].user
                            /\ req'[s].file = req[s].file
                            /\ req'[s].receiver = req[s].receiver
  <2>1. CASE req' = req
    BY <2>1 DEF RequestTypes
  <2>2. ASSUME NEW k \in Pairs, req' = [req EXCEPT ![t].pair = k]
        PROVE  <1>1
    BY <2>2 DEF RequestTypes, Request
  <2> QED
    BY <2>1, <2>2
<1> QED
  BY <1>1 DEF RequestTypes, RequestsComplete

\* A failing step only adds to the history of failures.
LEMMA FailureTypes ==
    ASSUME faults \subseteq Excuses, NEW kinds, Fail(kinds)
    PROVE  faults' \subseteq Excuses /\ faults \subseteq faults'
BY DEF Fail

LEMMA BlobTypes ==
    ASSUME NEW t \in Threads, NEW state \in BlobStates,
           blob \in [Files -> BlobStates], SetBlob(t, state)
    PROVE  blob' \in [Files -> BlobStates]
BY DEF SetBlob

LEMMA AuditTypes ==
    ASSUME TypeOK, RequestTypes, NEW t \in Threads, pc[t] # "idle",
           NEW action \in {"download", "download_integrity_check"},
           NEW success \in BOOLEAN, WriteAudit(t, action, success)
    PROVE  audit' \subseteq AuditRow /\ faults' \subseteq Excuses
<1>1. audit' \subseteq AuditRow
  BY DEF TypeOK, WriteAudit, AuditRow, RequestTypes, RequestsComplete
<1>2. faults' \subseteq Excuses
  BY DEF TypeOK, WriteAudit, Fault, Fail
<1> QED
  BY <1>1, <1>2

\* Giving an upload up keeps the types, whether the unlink succeeds or not.
LEMMA DiscardTypes ==
    ASSUME TypeOK, RequestsComplete, NEW t \in Threads, pc[t] \in UploadStages,
           NEW failures, Discard(t, failures)
    PROVE  /\ RequestTypes' /\ blob' \in [Files -> BlobStates]
           /\ faults' \subseteq Excuses
<1>1. RequestTypes'
  BY EndRequestTypes DEF Discard, TypeOK, RequestTypes
<1>2. OnDisk(t) \in BlobStates
  BY DEF OnDisk, TypeOK, RequestsComplete, UploadStages, BlobStates
<1>3. \E state \in BlobStates : SetBlob(t, state)
  BY <1>2 DEF Discard, BlobStates
<1>4. blob' \in [Files -> BlobStates]
  BY <1>3, BlobTypes DEF TypeOK
<1>5. \E kinds : Fail(kinds)
  BY DEF Discard
<1> QED
  BY <1>1, <1>4, <1>5, FailureTypes DEF TypeOK

\* Every step keeps the types.  One case for each action.
LEMMA TypeStep ==
    ASSUME TypeInv, [Next]_vars
    PROVE  TypeInv'
<1> USE FaultsAreKinds
<1>0. RequestTypes
  BY DEF TypeInv, TypeOK, RequestTypes
<1>a. KeyInv
  BY DEF TypeInv, TypeOK, KeyInv
<1> DEFINE Goal == /\ KeyInv' /\ RequestTypes'
                   /\ users' \subseteq Ids
                   /\ meta' \in [Files -> MetaRow \cup {NoRow}]
                   /\ blob' \in [Files -> BlobStates]
                   /\ audit' \subseteq AuditRow
                   /\ delivered' \subseteq Ids \X Files
                   /\ faults' \subseteq Excuses
<1>b. SUFFICES Goal
  BY DEF TypeInv, TypeOK, RequestTypes, KeyInv
<1>c. UNCHANGED keyVars => KeyInv'
  BY <1>a DEF keyVars, KeyInv, KeyTypeOK, CallsHaveIds
<1>d. UNCHANGED <<pc, req, buffer, leftover>> => RequestTypes'
  BY <1>0 DEF RequestTypes, RequestsComplete
<1>e. \A kind : Fault(kind) => faults' \subseteq Excuses
  BY FailureTypes DEF Fault, TypeInv, TypeOK
<1>f. ASSUME NEW t \in Threads, pc[t] \in UploadStages,
             \E failures : Discard(t, failures)
      PROVE  /\ RequestTypes' /\ blob' \in [Files -> BlobStates]
             /\ faults' \subseteq Excuses
  BY <1>f, DiscardTypes DEF TypeInv
<1>g. ASSUME NEW t \in Threads, NEW stage \in Stages, pc[t] # "idle",
             stage \in UploadStages => pc[t] \in UploadStages,
             Goto(t, stage), req' = req
      PROVE  RequestTypes'
  BY <1>0, <1>g, GotoTypes DEF Goto, RequestTypes
<1> USE DEF TypeInv, TypeOK
<1>1. ASSUME NEW i \in Ids, Register(i)
      PROVE  Goal
  BY <1>1, <1>c, <1>d DEF Register
<1>2. ASSUME NEW t \in Threads, StartUpload(t)
      PROVE  Goal
  <2>1. PICK u \in users, f \in Files, doc \in Posted, rcv \in Ids \cup {NoId} :
          \E r \in Routes(u, doc, rcv) :
             req' = [req EXCEPT ![t] = [user |-> u, file |-> f, receiver |-> r,
                                        doc |-> doc, pair |-> NoPair]]
    BY <1>2 DEF StartUpload
  <2>2. PICK r \in Routes(u, doc, rcv) :
             req' = [req EXCEPT ![t] = [user |-> u, file |-> f, receiver |-> r,
                                        doc |-> doc, pair |-> NoPair]]
    BY <2>1
  <2>3. r \in Ids
    BY DEF Routes
  <2>4. [user |-> u, file |-> f, receiver |-> r, doc |-> doc, pair |-> NoPair]
          \in Request
    BY <2>3, PairBound, PostedAreDocs DEF Request, Pairs, NoPair
  <2>5. RequestTypes'
    BY <1>0, <1>2, <2>2, <2>3, <2>4
       DEF StartUpload, Goto, RequestTypes, RequestsComplete, Stages, UploadStages
  <2> QED
    BY <1>2, <1>c, <2>5 DEF StartUpload
<1>3. ASSUME NEW t \in Threads, WriteTmp(t)
      PROVE  Goal
  <2>1. CASE SetBlob(t, "tmp") /\ Goto(t, "rename") /\ UNCHANGED <<req, faults>>
    BY <1>3, <2>1, <1>c, <1>g, BlobTypes
       DEF WriteTmp, Stages, UploadStages, BlobStates
  <2>2. CASE Discard(t, {"write"})
    BY <1>3, <2>2, <1>c, <1>f DEF WriteTmp, UploadStages
  <2> QED
    BY <1>3, <2>1, <2>2 DEF WriteTmp
<1>4. ASSUME NEW t \in Threads, Rename(t)
      PROVE  Goal
  <2>1. CASE SetBlob(t, "enc") /\ Goto(t, "wrap") /\ UNCHANGED <<req, faults>>
    BY <1>4, <2>1, <1>c, <1>g, BlobTypes
       DEF Rename, Stages, UploadStages, BlobStates
  <2>2. CASE Discard(t, {"write"})
    BY <1>4, <2>2, <1>c, <1>f DEF Rename, UploadStages
  <2> QED
    BY <1>4, <2>1, <2>2 DEF Rename
<1>5. ASSUME NEW t \in Threads, BeginWrap(t)
      PROVE  Goal
  <2>1. req[t].receiver \in Ids
    BY <1>5 DEF BeginWrap, RequestsComplete, UploadStages
  <2>2. KeyInv'
    BY <1>5, <1>a, <2>1, KeyStepInv DEF BeginWrap
  <2> QED
    BY <1>5, <1>d, <2>2 DEF BeginWrap, fileVars
<1>6. ASSUME NEW t \in Threads, FinishWrap(t)
      PROVE  Goal
  <2>1. KeyInv'
    <3>1. PICK u : u \in Ids
      BY <1>6 DEF FinishWrap, RequestsComplete
    <3> QED
      BY <1>6, <1>a, <3>1, KeyStepInv DEF FinishWrap
  <2>2. CASE /\ req' = [req EXCEPT ![t].pair = call[t].pair]
             /\ Goto(t, "record") /\ UNCHANGED <<blob, faults>>
    <3>1. call[t].pair \in Pairs
      BY DEF KeyTypeOK, Call
    <3>2. RequestTypes'
      BY <1>6, <1>0, <2>2, <3>1, GotoTypes
         DEF FinishWrap, Goto, RequestTypes, Stages, UploadStages
    <3> QED
      BY <1>6, <2>1, <2>2, <3>2 DEF FinishWrap
  <2>3. CASE Discard(t, {})
    BY <1>6, <1>f, <2>1, <2>3 DEF FinishWrap, UploadStages
  <2> QED
    BY <1>6, <2>2, <2>3 DEF FinishWrap
<1>7. ASSUME NEW t \in Threads, Record(t)
      PROVE  Goal
  <2>1. CASE /\ req[t].receiver \in users
             /\ meta' = [meta EXCEPT ![req[t].file] =
                   [sender |-> req[t].user, receiver |-> req[t].receiver,
                    pair |-> req[t].pair]]
             /\ Goto(t, "refresh")
             /\ UNCHANGED <<req, blob, faults>>
    <3>1. [sender |-> req[t].user, receiver |-> req[t].receiver,
           pair |-> req[t].pair] \in MetaRow
      BY <1>7, <2>1 DEF Record, MetaRow, RequestsComplete, Request
    <3>2. RequestTypes'
      BY <1>7, <1>g, <2>1 DEF Record, Stages, UploadStages
    <3> QED
      BY <1>7, <1>c, <2>1, <3>1, <3>2 DEF Record
  <2>2. CASE (\E failures : Discard(t, failures)) /\ UNCHANGED meta
    BY <1>7, <1>c, <1>f, <2>2 DEF Record, UploadStages
  <2> QED
    BY <1>7, <2>1, <2>2 DEF Record
<1>8. ASSUME NEW t \in Threads, Refresh(t)
      PROVE  Goal
  <2>1. CASE EndRequest(t) /\ UNCHANGED <<blob, faults>>
    BY <1>8, <1>0, <1>c, <2>1, EndRequestTypes DEF Refresh
  <2>2. CASE Discard(t, {"refresh"})
    BY <1>8, <1>c, <1>f, <2>2 DEF Refresh, UploadStages
  <2> QED
    BY <1>8, <2>1, <2>2 DEF Refresh
<1>9. ASSUME NEW t \in Threads, StartDownload(t)
      PROVE  Goal
  <2>1. PICK u \in users, f \in Files :
          /\ req' = [req EXCEPT ![t] = DownloadOf(u, f)]
          /\ Goto(t, "forbidden") \/ Goto(t, "unwrap")
    BY <1>9 DEF StartDownload
  <2>2. DownloadOf(u, f) \in Request
    BY PairBound DEF DownloadOf, Request, Docs, Pairs, NoPair
  <2>3. DownloadOf(u, f).user = u /\ DownloadOf(u, f).file = f
    BY DEF DownloadOf
  <2>5. RequestTypes'
    BY <1>0, <1>9, <2>1, <2>2, <2>3
       DEF StartDownload, Goto, RequestTypes, RequestsComplete, Stages,
           DownloadStages, UploadStages
  <2> QED
    BY <1>9, <1>c, <2>5 DEF StartDownload
<1>10. ASSUME NEW t \in Threads, BeginUnwrap(t)
       PROVE  Goal
  <2>1. req[t].user \in Ids
    BY <1>10 DEF BeginUnwrap, RequestsComplete
  <2>2. KeyInv'
    BY <1>10, <1>a, <2>1, KeyStepInv DEF BeginUnwrap
  <2> QED
    BY <1>10, <1>d, <2>2 DEF BeginUnwrap, fileVars
<1>11. ASSUME NEW t \in Threads, FinishUnwrap(t)
       PROVE  Goal
  <2>1. req[t].user \in Ids
    BY <1>11 DEF FinishUnwrap, RequestsComplete
  <2>2. KeyInv'
    BY <1>11, <1>a, <2>1, KeyStepInv DEF FinishUnwrap
  <2>3. RequestTypes'
    BY <1>11, <1>g DEF FinishUnwrap, Stages, DownloadStages, UploadStages
  <2> QED
    BY <1>11, <2>2, <2>3 DEF FinishUnwrap
<1>12. ASSUME NEW t \in Threads, ReadBlob(t)
       PROVE  Goal
  <2>1. RequestTypes'
    BY <1>12, <1>g DEF ReadBlob, Stages, DownloadStages, UploadStages
  <2> QED
    BY <1>12, <1>c, <2>1 DEF ReadBlob
<1>13. ASSUME NEW t \in Threads, Deny(t)
       PROVE  Goal
  <2>1. pc[t] # "idle"
    BY <1>13 DEF Deny
  <2> QED
    BY <1>13, <1>0, <1>c, <2>1, EndRequestTypes, AuditTypes DEF Deny
<1>14. ASSUME NEW t \in Threads, WriteBuffer(t)
       PROVE  Goal
  <2>1. req[t].file \in Files
    BY <1>14 DEF WriteBuffer, RequestsComplete
  <2>2. RequestTypes'
    <3>1. NoRequest \in Request
      BY PairBound DEF NoRequest, DownloadOf, Request, Docs, Pairs, NoPair
    <3> QED
      BY <1>14, <1>0, <2>1, <3>1
         DEF WriteBuffer, RequestTypes, RequestsComplete, Stages,
             DownloadStages, UploadStages
  <2> QED
    BY <1>14, <1>c, <1>e, <2>2 DEF WriteBuffer
<1>15. ASSUME NEW t \in Threads, Send(t)
       PROVE  Goal
  <2>1. <<req[t].user, req[t].file>> \in Ids \X Files
    BY <1>15 DEF Send, RequestsComplete
  <2>2. RequestTypes'
    BY <1>15, <1>0, <1>g, EndRequestTypes
       DEF Send, Stages, DownloadStages, UploadStages
  <2> QED
    BY <1>15, <1>c, <1>e, <2>1, <2>2 DEF Send
<1>16. ASSUME NEW t \in Threads, Cleanup(t)
       PROVE  Goal
  <2>1. RequestTypes'
    BY <1>16, <1>0, EndRequestTypes
       DEF Cleanup, RequestTypes, RequestsComplete, Stages, DownloadStages,
           UploadStages
  <2> QED
    BY <1>16, <1>c, <1>e, <2>1 DEF Cleanup
<1>17. ASSUME NEW t \in Threads, LogIntegrity(t)
       PROVE  Goal
  <2>1. RequestTypes'
    BY <1>17, <1>g DEF LogIntegrity, Stages, DownloadStages, UploadStages
  <2> QED
    BY <1>17, <1>0, <1>c, <2>1, AuditTypes DEF LogIntegrity
<1>18. ASSUME NEW t \in Threads, LogDownload(t)
       PROVE  Goal
  BY <1>18, <1>0, <1>c, EndRequestTypes, AuditTypes DEF LogDownload
<1>19. ASSUME NEW t \in Threads, KeyWork(t)
       PROVE  Goal
  <2>1. KeyInv'
    <3>1. PICK u : u \in Ids
      BY <1>19 DEF KeyWork, Generate, GenerateFails, Fetch, CallsHaveIds
    <3> QED
      BY <1>19, <1>a, <3>1, KeyStepInv DEF KeyWork, KeyStep
  <2> QED
    BY <1>19, <1>d, <1>e, <2>1 DEF KeyWork, fileVars
<1>20. ASSUME NEW p \in Procs, Crash(p)
       PROVE  Goal
  <2>1. RequestTypes'
    BY <1>20, <1>0, EndRequestsTypes DEF Crash
  <2> QED
    BY <1>20, <1>a, <1>e, <2>1, KeyRestartInv DEF Crash
<1>21. ASSUME NEW f \in Files, Corrupt(f)
       PROVE  Goal
  BY <1>21, <1>c, <1>d, <1>e DEF Corrupt, BlobStates
<1>22. CASE UNCHANGED vars
  BY <1>22, <1>c, <1>d DEF vars, fileVars
<1> QED
  BY <1>1, <1>2, <1>3, <1>4, <1>5, <1>6, <1>7, <1>8, <1>9, <1>10, <1>11, <1>12,
     <1>13, <1>14, <1>15, <1>16, <1>17, <1>18, <1>19, <1>20, <1>21, <1>22
     DEF Next, Step, UploadStep, DownloadStep

LEMMA TypeInit ==
    ASSUME Init PROVE TypeInv
BY PairBound, NullsAreDistinct
   DEF Init, KeyInit, TypeInv, TypeOK, KeyTypeOK, CallsHaveIds,
       RequestsComplete, Call, CallStages, NoCall, NoPair, Pairs, MetaRow,
       BlobStates, Stages, Request, NoRequest, DownloadOf, Docs

\* The constants fit and the variables keep their types, whatever fails.
THEOREM TypeCorrect == Spec => []TypeOK
<1>1. Init => TypeInv
  BY TypeInit
<1>2. TypeInv /\ [Next]_vars => TypeInv'
  BY TypeStep
<1>3. TypeInv => TypeOK
  BY DEF TypeInv
<1> QED
  BY <1>1, <1>2, <1>3, PTL DEF Spec

-----------------------------------------------------------------------------
(* A committed row has its blob.                                           *)

StorageInv == TypeInv /\ UploadsOwnTheirFiles /\ RecordedFileIsStored

\* A step that leaves rows and blobs alone, starts no upload and moves none on.
LEMMA StorageFrame ==
    ASSUME StorageInv, UNCHANGED <<meta, blob>>, faults \subseteq faults',
           \A s \in Threads : pc'[s] \in UploadStages =>
              pc'[s] = pc[s] /\ req'[s] = req[s]
    PROVE  UploadsOwnTheirFiles' /\ RecordedFileIsStored'
BY DEF StorageInv, UploadsOwnTheirFiles, RecordedFileIsStored, Recorded

\* Giving one's own upload up, before the commit or in the branch that the
\* failing refresh takes.
LEMMA StorageDiscard ==
    ASSUME StorageInv, NEW t \in Threads, pc[t] \in UploadStages,
           NEW failures, Discard(t, failures), UNCHANGED meta,
           pc[t] = "refresh" => "refresh" \in failures
    PROVE  UploadsOwnTheirFiles' /\ RecordedFileIsStored'
<1>1. /\ pc'[t] = "idle"
      /\ \A s \in Threads \ {t} : pc'[s] = pc[s] /\ req'[s] = req[s]
  BY DEF StorageInv, TypeInv, TypeOK, Discard, EndRequest, EndRequests
<1>2. /\ req[t].file \in Files
      /\ \A f \in Files : f # req[t].file => blob'[f] = blob[f]
  BY DEF StorageInv, TypeInv, TypeOK, RequestsComplete, Discard, SetBlob,
         UploadStages
<1>3. \A s \in Threads : pc'[s] \in UploadStages =>
          /\ s # t /\ pc'[s] = pc[s] /\ req'[s] = req[s]
          /\ req[s].file # req[t].file /\ req[s].file \in Files
  BY <1>1 DEF StorageInv, TypeInv, RequestsComplete, UploadsOwnTheirFiles,
              UploadStages
<1>4. UploadsOwnTheirFiles'
  BY <1>2, <1>3 DEF StorageInv, UploadsOwnTheirFiles, Recorded
<1>5. RecordedFileIsStored'
  <2>1. CASE pc[t] = "refresh"
    BY <2>1 DEF RecordedFileIsStored, Discard, Fail, Excuses
  <2>2. CASE pc[t] # "refresh"
    <3>1. faults \subseteq faults'
      BY DEF Discard, Fail
    <3> QED
      BY <1>2, <2>2, <3>1
         DEF StorageInv, RecordedFileIsStored, UploadsOwnTheirFiles, Recorded
  <2> QED
    BY <2>1, <2>2
<1> QED
  BY <1>4, <1>5

\* Moving an upload on, from one stage to the next.
LEMMA StorageAdvance ==
    ASSUME StorageInv, NEW t \in Threads, NEW stage \in UploadStages,
           pc[t] \in UploadStages \ {"refresh"}, stage # "refresh",
           pc' = [pc EXCEPT ![t] = stage],
           \A s \in Threads : req'[s].file = req[s].file,
           UNCHANGED <<meta, faults>>,
           \A f \in Files : f # req[t].file => blob'[f] = blob[f],
           stage \in {"wrap", "record"} => blob'[req[t].file] \in {"enc", "bad"}
    PROVE  UploadsOwnTheirFiles' /\ RecordedFileIsStored'
<1>1. /\ pc'[t] = stage
      /\ \A s \in Threads \ {t} : pc'[s] = pc[s]
  BY DEF StorageInv, TypeInv, TypeOK
<1>2. \A s \in Threads : pc[s] \in UploadStages => req[s].file \in Files
  BY DEF StorageInv, TypeInv, RequestsComplete, UploadStages
<1>3. UploadsOwnTheirFiles'
  BY <1>1, <1>2 DEF StorageInv, UploadsOwnTheirFiles, Recorded, UploadStages
<1>4. RecordedFileIsStored'
  BY DEF StorageInv, RecordedFileIsStored, UploadsOwnTheirFiles, Recorded
<1> QED
  BY <1>3, <1>4

LEMMA StorageStep ==
    ASSUME StorageInv, [Next]_vars
    PROVE  StorageInv'
<1> DEFINE Goal == UploadsOwnTheirFiles' /\ RecordedFileIsStored'
<1>a. SUFFICES Goal
  BY TypeStep DEF StorageInv
<1>b. TypeInv
  BY DEF StorageInv
<1>c. \A kind : Fault(kind) => faults \subseteq faults'
  BY DEF Fault, Fail
<1>d. ASSUME NEW t \in Threads, EndRequest(t)
      PROVE  \A s \in Threads : pc'[s] \in UploadStages =>
                pc'[s] = pc[s] /\ req'[s] = req[s]
  BY <1>d DEF EndRequest, EndRequests, UploadStages, TypeInv, TypeOK
<1>e. ASSUME NEW t \in Threads, NEW stage, stage \notin UploadStages,
             pc' = [pc EXCEPT ![t] = stage], req' = req
      PROVE  \A s \in Threads : pc'[s] \in UploadStages =>
                pc'[s] = pc[s] /\ req'[s] = req[s]
  BY <1>b, <1>e DEF TypeInv, TypeOK
<1>f. \A t \in Threads : pc[t] \in UploadStages => req[t].file \in Files
  BY <1>b DEF TypeInv, RequestsComplete, UploadStages
<1>1. ASSUME NEW i \in Ids, Register(i)
      PROVE  Goal
  BY <1>1, StorageFrame DEF Register
<1>2. ASSUME NEW t \in Threads, StartUpload(t)
      PROVE  Goal
  <2>1. PICK f \in Files :
          /\ Unused(f)
          /\ req'[t].file = f /\ pc'[t] = "write"
          /\ \A s \in Threads \ {t} : pc'[s] = pc[s] /\ req'[s] = req[s]
          /\ UNCHANGED <<meta, blob, faults>>
    BY <1>2, <1>b DEF StartUpload, Goto, TypeInv, TypeOK
  <2> QED
    BY <2>1 DEF StorageInv, UploadsOwnTheirFiles, RecordedFileIsStored,
                Recorded, Unused
<1>3. ASSUME NEW t \in Threads, WriteTmp(t)
      PROVE  Goal
  <2>1. CASE SetBlob(t, "tmp") /\ Goto(t, "rename") /\ UNCHANGED <<req, faults>>
    BY <1>3, <2>1, <1>b, <1>f, StorageAdvance
       DEF WriteTmp, Goto, SetBlob, UploadStages, TypeInv, TypeOK
  <2>2. CASE Discard(t, {"write"})
    BY <1>3, <2>2, StorageDiscard DEF WriteTmp, UploadStages
  <2> QED
    BY <1>3, <2>1, <2>2 DEF WriteTmp
<1>4. ASSUME NEW t \in Threads, Rename(t)
      PROVE  Goal
  <2>1. CASE SetBlob(t, "enc") /\ Goto(t, "wrap") /\ UNCHANGED <<req, faults>>
    BY <1>4, <2>1, <1>b, <1>f, StorageAdvance
       DEF Rename, Goto, SetBlob, UploadStages, TypeInv, TypeOK
  <2>2. CASE Discard(t, {"write"})
    BY <1>4, <2>2, StorageDiscard DEF Rename, UploadStages
  <2> QED
    BY <1>4, <2>1, <2>2 DEF Rename
<1>5. ASSUME NEW t \in Threads, BeginWrap(t) \/ BeginUnwrap(t) \/ KeyWork(t)
      PROVE  Goal
  <2>1. UNCHANGED fileVars /\ faults \subseteq faults'
    BY <1>5, <1>c DEF BeginWrap, BeginUnwrap, KeyWork
  <2> QED
    BY <2>1, StorageFrame DEF fileVars
<1>6. ASSUME NEW t \in Threads, FinishWrap(t)
      PROVE  Goal
  <2>1. CASE /\ req' = [req EXCEPT ![t].pair = call[t].pair]
             /\ Goto(t, "record") /\ UNCHANGED <<blob, faults>>
    <3>1. \A s \in Threads : req'[s].file = req[s].file
      BY <1>b, <2>1 DEF TypeInv, TypeOK, Request
    <3>2. blob[req[t].file] \in {"enc", "bad"}
      BY <1>6 DEF FinishWrap, StorageInv, UploadsOwnTheirFiles, UploadStages
    <3> QED
      BY <1>6, <2>1, <3>1, <3>2, StorageAdvance
         DEF FinishWrap, Goto, UploadStages
  <2>2. CASE Discard(t, {})
    BY <1>6, <2>2, StorageDiscard DEF FinishWrap, UploadStages
  <2> QED
    BY <1>6, <2>1, <2>2 DEF FinishWrap
<1>7. ASSUME NEW t \in Threads, Record(t)
      PROVE  Goal
  <2>1. CASE /\ \E row : meta' = [meta EXCEPT ![req[t].file] = row]
             /\ Goto(t, "refresh")
             /\ UNCHANGED <<req, blob, faults>>
    <3>1. /\ pc'[t] = "refresh"
          /\ \A s \in Threads \ {t} : pc'[s] = pc[s]
      BY <1>b, <2>1 DEF Goto, TypeInv, TypeOK
    <3>2. blob[req[t].file] \in {"enc", "bad"}
      BY <1>7 DEF Record, StorageInv, UploadsOwnTheirFiles, UploadStages
    <3>3. \A f \in Files : f # req[t].file => meta'[f] = meta[f]
      BY <1>b, <2>1 DEF TypeInv, TypeOK
    <3>4. \A s \in Threads \ {t} : pc[s] \in UploadStages =>
              req[s].file # req[t].file
      BY <1>7 DEF Record, StorageInv, UploadsOwnTheirFiles, UploadStages
    <3>5. UploadsOwnTheirFiles'
      BY <1>7, <1>f, <2>1, <3>1, <3>2, <3>3, <3>4
         DEF Record, StorageInv, UploadsOwnTheirFiles, Recorded, UploadStages
    <3>6. RecordedFileIsStored'
      BY <2>1, <3>2, <3>3 DEF StorageInv, RecordedFileIsStored, Recorded
    <3> QED
      BY <3>5, <3>6
  <2>2. CASE (\E failures : Discard(t, failures)) /\ UNCHANGED meta
    BY <1>7, <2>2, StorageDiscard DEF Record, UploadStages
  <2> QED
    BY <1>7, <2>1, <2>2 DEF Record
<1>8. ASSUME NEW t \in Threads, Refresh(t)
      PROVE  Goal
  <2>1. CASE EndRequest(t) /\ UNCHANGED <<blob, faults>>
    BY <1>8, <1>d, <2>1, StorageFrame DEF Refresh
  <2>2. CASE Discard(t, {"refresh"})
    BY <1>8, <2>2, StorageDiscard DEF Refresh, UploadStages
  <2> QED
    BY <1>8, <2>1, <2>2 DEF Refresh
<1>9. ASSUME NEW t \in Threads, StartDownload(t)
      PROVE  Goal
  <2>1. \A s \in Threads : pc'[s] \in UploadStages =>
            pc'[s] = pc[s] /\ req'[s] = req[s]
    BY <1>9, <1>b DEF StartDownload, Goto, UploadStages, TypeInv, TypeOK
  <2> QED
    BY <1>9, <2>1, StorageFrame DEF StartDownload
<1>10. ASSUME NEW t \in Threads, DownloadStep(t), ~ BeginUnwrap(t)
       PROVE  Goal
  <2>1. UNCHANGED <<meta, blob>> /\ faults \subseteq faults'
    BY <1>10, <1>c
       DEF DownloadStep, FinishUnwrap, ReadBlob, Deny, WriteBuffer, Send,
           Cleanup, LogIntegrity, LogDownload, WriteAudit
  <2>2. \/ EndRequest(t)
        \/ \E stage \in DownloadStages :
              pc' = [pc EXCEPT ![t] = stage] /\ req' = req
        \/ pc' = [pc EXCEPT ![t] = "idle"] /\ req' = [req EXCEPT ![t] = NoRequest]
    BY <1>10
       DEF DownloadStep, FinishUnwrap, ReadBlob, Deny, WriteBuffer, Send,
           Cleanup, LogIntegrity, LogDownload, Goto, DownloadStages
  <2>3. \A s \in Threads : pc'[s] \in UploadStages =>
            pc'[s] = pc[s] /\ req'[s] = req[s]
    BY <1>b, <1>d, <2>2 DEF DownloadStages, UploadStages, TypeInv, TypeOK
  <2> QED
    BY <2>1, <2>3, StorageFrame
<1>11. ASSUME NEW p \in Procs, Crash(p)
       PROVE  Goal
  <2>1. \A s \in Threads : pc'[s] \in UploadStages =>
            pc'[s] = pc[s] /\ req'[s] = req[s]
    BY <1>11 DEF Crash, EndRequests, UploadStages
  <2> QED
    BY <1>11, <1>c, <2>1, StorageFrame DEF Crash
<1>12. ASSUME NEW f \in Files, Corrupt(f)
       PROVE  Goal
  BY <1>12, <1>b, <1>c
     DEF Corrupt, StorageInv, UploadsOwnTheirFiles, RecordedFileIsStored,
         Recorded, TypeInv, TypeOK
<1>13. CASE UNCHANGED vars
  BY <1>13, StorageFrame DEF vars, fileVars
<1> QED
  BY <1>1, <1>2, <1>3, <1>4, <1>5, <1>6, <1>7, <1>8, <1>9, <1>10, <1>11, <1>12,
     <1>13 DEF Next, Step, UploadStep, DownloadStep

LEMMA StorageInit ==
    ASSUME Init PROVE StorageInv
BY TypeInit
   DEF Init, StorageInv, UploadsOwnTheirFiles, RecordedFileIsStored, Recorded,
       UploadStages

\* Unlinks of failing uploads never hit the blob of another upload or of a
\* committed row: every upload works on a file of its own.
THEOREM UploadsAreSeparate == Spec => []UploadsOwnTheirFiles
<1>1. Init => StorageInv
  BY StorageInit
<1>2. StorageInv /\ [Next]_vars => StorageInv'
  BY StorageStep
<1>3. StorageInv => UploadsOwnTheirFiles
  BY DEF StorageInv
<1> QED
  BY <1>1, <1>2, <1>3, PTL DEF Spec

\* As long as no refresh has failed after its commit, every committed row has
\* its blob, whatever else fails and however often the processes crash.
THEOREM RecordedFilesStayStored == Spec => []RecordedFileIsStored
<1>1. Init => StorageInv
  BY StorageInit
<1>2. StorageInv /\ [Next]_vars => StorageInv'
  BY StorageStep
<1>3. StorageInv => RecordedFileIsStored
  BY DEF StorageInv
<1> QED
  BY <1>1, <1>2, <1>3, PTL DEF Spec

-----------------------------------------------------------------------------
(* Plaintext is for the receiver alone.                                    *)

\* Committed rows are never changed.
LEMMA RowsAreFinal ==
    ASSUME StorageInv, [Next]_vars
    PROVE  \A f \in Recorded : f \in Recorded' /\ meta'[f] = meta[f]
<1>1. ASSUME NEW t \in Threads, Record(t)
      PROVE  \A f \in Recorded : meta'[f] = meta[f]
  BY <1>1 DEF Record, StorageInv, TypeInv, TypeOK, UploadsOwnTheirFiles,
              Recorded, UploadStages
<1>2. ASSUME \A t \in Threads : ~ Record(t)
      PROVE  UNCHANGED meta
  BY <1>2 DEF Next, Register, StartUpload, StartDownload, Step, UploadStep,
       WriteTmp, Rename, BeginWrap, FinishWrap, Refresh, DownloadStep,
       BeginUnwrap, FinishUnwrap, ReadBlob, Deny, WriteBuffer, Send, Cleanup,
       LogIntegrity, LogDownload, KeyWork, Crash, Corrupt, fileVars, vars
<1> QED
  BY <1>1, <1>2 DEF Recorded

\* Past the receiver check a download is the receiver's own, and only then does
\* it have a buffer, of the file it asked for.
ReadersAreReceivers ==
    \A t \in Threads :
        /\ pc[t] \in {"unwrap", "read", "buffer", "send", "cleanup"} =>
              req[t].file \in Recorded /\ meta[req[t].file].receiver = req[t].user
        /\ buffer[t] # NoFile =>
              pc[t] \in {"send", "cleanup"} /\ buffer[t] = req[t].file

PlaintextInv == StorageInv /\ ReadersAreReceivers /\ PlaintextOnlyForReceiver

\* A step that lets no download go further and delivers nothing.
LEMMA PlaintextFrame ==
    ASSUME PlaintextInv, [Next]_vars, UNCHANGED delivered,
           \A s \in Threads :
              \/ /\ pc'[s] = pc[s] /\ req'[s] = req[s] /\ buffer'[s] = buffer[s]
              \/ /\ pc'[s] \notin {"unwrap", "read", "buffer", "send", "cleanup"}
                 /\ buffer'[s] = NoFile
    PROVE  ReadersAreReceivers' /\ PlaintextOnlyForReceiver'
BY RowsAreFinal DEF PlaintextInv, ReadersAreReceivers, PlaintextOnlyForReceiver

\* A step of one download past the check, for the request it is serving.
LEMMA PlaintextAdvance ==
    ASSUME PlaintextInv, [Next]_vars, NEW t \in Threads,
           \A s \in Threads \ {t} : /\ pc'[s] = pc[s] /\ req'[s] = req[s]
                                   /\ buffer'[s] = buffer[s],
           req'[t] = req[t], req[t].file \in Recorded,
           meta[req[t].file].receiver = req[t].user,
           \/ buffer'[t] = NoFile
           \/ buffer'[t] = req[t].file /\ pc'[t] \in {"send", "cleanup"},
           delivered' \subseteq delivered \cup {<<req[t].user, req[t].file>>}
    PROVE  ReadersAreReceivers' /\ PlaintextOnlyForReceiver'
<1>1. ReadersAreReceivers'
  BY RowsAreFinal DEF PlaintextInv, ReadersAreReceivers
<1>2. PlaintextOnlyForReceiver'
  BY RowsAreFinal DEF PlaintextInv, ReadersAreReceivers, PlaintextOnlyForReceiver
<1> QED
  BY <1>1, <1>2

LEMMA PlaintextStep ==
    ASSUME PlaintextInv, [Next]_vars
    PROVE  PlaintextInv'
<1> DEFINE Goal == ReadersAreReceivers' /\ PlaintextOnlyForReceiver'
<1>a. SUFFICES Goal
  BY StorageStep DEF PlaintextInv
<1>b. /\ pc \in [Threads -> Stages] /\ req \in [Threads -> Request]
      /\ buffer \in [Threads -> Files \cup {NoFile}]
  BY DEF PlaintextInv, StorageInv, TypeInv, TypeOK
<1>c. \A t \in Threads : buffer[t] # NoFile => pc[t] \in {"send", "cleanup"}
  BY DEF PlaintextInv, ReadersAreReceivers
<1>d. ASSUME NEW ts \in SUBSET Threads, EndRequests(ts), UNCHANGED delivered
      PROVE  Goal
  BY <1>b, <1>d, PlaintextFrame DEF EndRequests
<1>e. ASSUME NEW t \in Threads, EndRequest(t), UNCHANGED delivered
      PROVE  Goal
  BY <1>d, <1>e DEF EndRequest
<1>1. ASSUME UNCHANGED <<pc, req, buffer, delivered>>
      PROVE  Goal
  BY <1>1, PlaintextFrame
<1>2. ASSUME NEW t \in Threads, StartUpload(t) \/ UploadStep(t)
      PROVE  Goal
  <2>1. UNCHANGED delivered
    BY <1>2 DEF StartUpload, UploadStep, WriteTmp, Rename, BeginWrap,
                FinishWrap, Record, Refresh, fileVars
  <2>2. pc[t] \in UploadStages \cup {"idle"}
    BY <1>2 DEF StartUpload, UploadStep, WriteTmp, Rename, BeginWrap,
                FinishWrap, Record, Refresh, UploadStages
  <2>3. buffer[t] = NoFile
    BY <1>c, <2>2 DEF UploadStages
  <2>4. CASE EndRequest(t)
    BY <1>e, <2>1, <2>4
  <2>5. CASE BeginWrap(t)
    BY <1>1, <2>5 DEF BeginWrap, fileVars
  <2>6. CASE /\ \E stage \in UploadStages : Goto(t, stage)
             /\ \/ req' = req
                \/ \E r : req' = [req EXCEPT ![t] = r]
    BY <1>b, <2>1, <2>3, <2>6, PlaintextFrame DEF Goto, UploadStages
  <2>7. \/ EndRequest(t) \/ BeginWrap(t)
        \/ /\ \E stage \in UploadStages : Goto(t, stage)
           /\ \/ req' = req
              \/ \E r : req' = [req EXCEPT ![t] = r]
    BY <1>2 DEF StartUpload, UploadStep, WriteTmp, Rename, FinishWrap, Record,
                Refresh, Discard, UploadStages
  <2> QED
    BY <2>4, <2>5, <2>6, <2>7
<1>3. ASSUME NEW t \in Threads, StartDownload(t)
      PROVE  Goal
  <2>1. PICK u \in users, f \in Files :
          /\ meta[f] # NoRow
          /\ req' = [req EXCEPT ![t] = DownloadOf(u, f)]
          /\ \/ Goto(t, "forbidden")
             \/ meta[f].receiver = u /\ Goto(t, "unwrap")
    BY <1>3 DEF StartDownload
  <2>2. buffer[t] = NoFile /\ UNCHANGED delivered
    BY <1>3, <1>c DEF StartDownload
  <2>3. CASE Goto(t, "forbidden")
    BY <1>b, <2>1, <2>2, <2>3, PlaintextFrame DEF Goto
  <2>4. CASE meta[f].receiver = u /\ Goto(t, "unwrap")
    <3>1. /\ req'[t].user = u /\ req'[t].file = f /\ buffer'[t] = NoFile
          /\ \A s \in Threads \ {t} : /\ pc'[s] = pc[s] /\ req'[s] = req[s]
                                      /\ buffer'[s] = buffer[s]
      BY <1>b, <2>1, <2>2, <2>4 DEF Goto, DownloadOf
    <3>2. f \in Recorded
      BY <2>1 DEF Recorded
    <3> QED
      BY <2>2, <2>4, <3>1, <3>2, RowsAreFinal
         DEF PlaintextInv, ReadersAreReceivers, PlaintextOnlyForReceiver
  <2> QED
    BY <2>1, <2>3, <2>4
<1>4. ASSUME NEW t \in Threads, FinishUnwrap(t) \/ ReadBlob(t)
      PROVE  Goal
  <2>1. /\ req[t].file \in Recorded
        /\ meta[req[t].file].receiver = req[t].user
    BY <1>4 DEF FinishUnwrap, ReadBlob, PlaintextInv, ReadersAreReceivers
  <2>2. /\ buffer[t] = NoFile
        /\ \E stage : Goto(t, stage)
        /\ UNCHANGED <<req, delivered>>
    BY <1>4, <1>c DEF FinishUnwrap, ReadBlob
  <2> QED
    BY <1>b, <2>1, <2>2, PlaintextAdvance DEF Goto
<1>5. ASSUME NEW t \in Threads, WriteBuffer(t)
      PROVE  Goal
  <2>1. /\ req[t].file \in Recorded
        /\ meta[req[t].file].receiver = req[t].user
    BY <1>5 DEF WriteBuffer, PlaintextInv, ReadersAreReceivers
  <2>2. buffer[t] = NoFile /\ UNCHANGED delivered
    BY <1>5, <1>c DEF WriteBuffer
  <2>3. CASE /\ buffer' = [buffer EXCEPT ![t] = req[t].file]
             /\ pc' = [pc EXCEPT ![t] = "send"] /\ UNCHANGED req
    BY <1>b, <2>1, <2>2, <2>3, PlaintextAdvance
  <2>4. CASE /\ pc' = [pc EXCEPT ![t] = "idle"]
             /\ req' = [req EXCEPT ![t] = NoRequest] /\ UNCHANGED buffer
    BY <1>b, <2>2, <2>4, PlaintextFrame
  <2> QED
    BY <1>5, <2>3, <2>4 DEF WriteBuffer
<1>6. ASSUME NEW t \in Threads, Send(t) \/ Cleanup(t)
      PROVE  Goal
  <2>1. /\ req[t].file \in Recorded
        /\ meta[req[t].file].receiver = req[t].user
        /\ buffer[t] # NoFile => buffer[t] = req[t].file
    BY <1>6 DEF Send, Cleanup, PlaintextInv, ReadersAreReceivers
  <2>2. CASE EndRequest(t) /\ UNCHANGED delivered
    BY <1>e, <2>2
  <2>3. CASE /\ pc' = [pc EXCEPT ![t] = "cleanup"] /\ UNCHANGED <<req, buffer>>
             /\ delivered' = delivered \cup {<<req[t].user, req[t].file>>}
    BY <1>b, <2>1, <2>3, PlaintextAdvance
  <2>4. CASE /\ pc' = [pc EXCEPT ![t] = "log_integrity"]
             /\ buffer' = [buffer EXCEPT ![t] = NoFile]
             /\ UNCHANGED <<req, delivered>>
    BY <1>b, <2>1, <2>4, PlaintextAdvance
  <2> QED
    BY <1>6, <2>2, <2>3, <2>4 DEF Send, Cleanup, Goto
<1>7. ASSUME NEW t \in Threads, Deny(t) \/ LogIntegrity(t) \/ LogDownload(t)
      PROVE  Goal
  <2>1. buffer[t] = NoFile /\ UNCHANGED delivered
    BY <1>7, <1>c DEF Deny, LogIntegrity, LogDownload
  <2>2. CASE EndRequest(t)
    BY <1>e, <2>1, <2>2
  <2>3. CASE Goto(t, "log_download") /\ UNCHANGED req
    BY <1>b, <2>1, <2>3, PlaintextFrame DEF Goto
  <2> QED
    BY <1>7, <2>2, <2>3 DEF Deny, LogIntegrity, LogDownload
<1>8. ASSUME NEW t \in Threads, BeginUnwrap(t) \/ KeyWork(t)
      PROVE  Goal
  BY <1>1, <1>8 DEF BeginUnwrap, KeyWork, fileVars
<1>9. ASSUME NEW p \in Procs, Crash(p)
      PROVE  Goal
  BY <1>d, <1>9 DEF Crash
<1>10. CASE \/ UNCHANGED vars
            \/ \E i \in Ids : Register(i)
            \/ \E f \in Files : Corrupt(f)
  BY <1>1, <1>10 DEF vars, fileVars, Register, Corrupt
<1> QED
  BY <1>2, <1>3, <1>4, <1>5, <1>6, <1>7, <1>8, <1>9, <1>10
     DEF Next, Step, DownloadStep

\* Whoever asks, whatever fails and whichever process dies: a file is decrypted
\* to disk and sent only for the receiver its row names.
THEOREM PlaintextStaysWithReceiver == Spec => []PlaintextOnlyForReceiver
<1>1. Init => PlaintextInv
  BY StorageInit
     DEF Init, PlaintextInv, ReadersAreReceivers, PlaintextOnlyForReceiver
<1>2. PlaintextInv /\ [Next]_vars => PlaintextInv'
  BY PlaintextStep
<1>3. PlaintextInv => PlaintextOnlyForReceiver
  BY DEF PlaintextInv
<1> QED
  BY <1>1, <1>2, <1>3, PTL DEF Spec

=============================================================================
