--------------------------- MODULE FileKeysProofs ---------------------------
(***************************************************************************)
(* What holds of the key pairs the file service works with, for every set  *)
(* of threads, processes, users and files, under every failure, and for    *)
(* every number of pairs.                                                  *)
(***************************************************************************)
EXTENDS FileRecordsProofs

-----------------------------------------------------------------------------
(* Which step of the key store a step of the service takes.                *)

\* A thread that enters the key store does so for the party of its request.
BeginCall(t) ==
    \/ pc[t] = "wrap" /\ Lookup(t, req[t].receiver)
    \/ pc[t] = "unwrap" /\ Lookup(t, req[t].user)

LEMMA KeySteps ==
    ASSUME TypeInv, [Next]_vars
    PROVE  \/ UNCHANGED keyVars
           \/ \E t \in Threads :
                 \/ BeginCall(t) /\ UNCHANGED fileVars
                 \/ KeyStep(t) /\ KeyWork(t)
                 \/ Leave(t) /\ (FinishWrap(t) \/ FinishUnwrap(t))
           \/ \E p \in Procs : Restart(p) /\ Crash(p)
BY DEF Next, Register, StartUpload, StartDownload, Step, UploadStep,
       WriteTmp, Rename, BeginWrap, FinishWrap, Record, Refresh, DownloadStep,
       BeginUnwrap, FinishUnwrap, ReadBlob, Deny, WriteBuffer, Send, Cleanup,
       LogIntegrity, LogDownload, KeyWork, Crash, Corrupt, vars, BeginCall,
       KeyStep

-----------------------------------------------------------------------------
(* A settled pair stays.                                                   *)

\* What a step of the key store does to one entry.
LEMMA EntriesStay ==
    ASSUME KeyInv, NEW p \in Procs, NEW u \in Ids, Settled(p, u),
           NEW t \in Threads, NEW v \in Ids,
           Lookup(t, v) \/ KeyStep(t) \/ Leave(t)
    PROVE  store'[p][u] = store[p][u] /\ Settled(p, u)'
<1> USE ThreadsHaveProcesses DEF KeyInv, KeyTypeOK, CallsHaveIds
<1>1. CASE Lookup(t, v)
  <2>1. ProcOf[t] = p /\ v = u => call'[t].at = "fetch"
    BY <1>1 DEF Lookup, Settled, Entry
  <2> QED
    BY <1>1, <2>1 DEF Lookup, Settled
<1>2. CASE Generate(t)
  <2>1. ~ (ProcOf[t] = p /\ call[t].user = u)
    BY <1>2 DEF Generate, Settled
  <2>2. store'[p][u] = store[p][u]
    BY <1>2, <2>1 DEF Generate
  <2> QED
    BY <1>2, <2>2 DEF Generate, Settled, Call
<1>3. CASE GenerateFails(t) \/ Fetch(t)
  BY <1>3 DEF GenerateFails, Fetch, Settled, Call
<1>4. CASE Leave(t)
  BY <1>4 DEF Leave, Settled, NoCall
<1> QED
  BY <1>1, <1>2, <1>3, <1>4 DEF KeyStep

\* Once nobody is between the test and the assignment for a user, the entry of
\* that user is only lost with the process.
THEOREM SettledPairsStay == Spec => SettledPairStays
<1>1. Init => TypeInv
  BY TypeInit
<1>2. TypeInv /\ [Next]_vars => TypeInv'
  BY TypeStep
<1>3. TypeInv /\ [Next]_vars =>
         [\A p \in Procs, u \in Ids :
             Settled(p, u) =>
                \/ store'[p][u] = store[p][u] /\ Settled(p, u)'
                \/ Restart(p)]_keyVars
  <2> SUFFICES ASSUME TypeInv, [Next]_vars, NEW p \in Procs, NEW u \in Ids,
                      Settled(p, u), ~ UNCHANGED keyVars
               PROVE  \/ store'[p][u] = store[p][u] /\ Settled(p, u)'
                      \/ Restart(p)
    OBVIOUS
  <2>1. KeyInv
    BY DEF TypeInv, TypeOK, KeyInv
  <2>2. ASSUME NEW t \in Threads, BeginCall(t)
        PROVE  \E v \in Ids : Lookup(t, v)
    BY <2>2 DEF BeginCall, TypeInv, RequestsComplete, UploadStages
  <2>3. ASSUME NEW q \in Procs, Restart(q), q # p
        PROVE  store'[p][u] = store[p][u] /\ Settled(p, u)'
    BY <2>1, <2>3, ThreadsHaveProcesses
       DEF Restart, Settled, KeyInv, KeyTypeOK, NoCall
  <2> QED
    BY <2>1, <2>2, <2>3, KeySteps, EntriesStay
<1> QED
  BY <1>1, <1>2, <1>3, PTL DEF Spec, SettledPairStays

-----------------------------------------------------------------------------
(* Nobody is handed "no key".                                              *)

KeyFoundInv == TypeInv /\ ReturnFindsAPair

LEMMA ReturnStep ==
    ASSUME KeyInv, ReturnFindsAPair, NEW t \in Threads, NEW v \in Ids,
           Lookup(t, v) \/ KeyStep(t) \/ Leave(t)
    PROVE  ReturnFindsAPair'
<1> USE ThreadsHaveProcesses, PairBound
    DEF KeyInv, KeyTypeOK, CallsHaveIds, ReturnFindsAPair, Entry, NoPair, Pairs
<1>1. CASE Lookup(t, v)
  BY <1>1 DEF Lookup
<1>2. CASE Generate(t)
  <2>1. /\ call[t].user \in Ids /\ made[call[t].user] + 1 # 0
        /\ \A s \in Threads \ {t} : call'[s] = call[s]
        /\ call'[t].at = "fetch" /\ call'[t].user = call[t].user
    BY <1>2 DEF Generate, Call
  <2>2. \A p \in Procs, u \in Ids : store[p][u] # 0 => store'[p][u] # 0
    BY <1>2, <2>1 DEF Generate
  <2>3. store'[ProcOf[t]][call[t].user] # 0
    BY <1>2, <2>1 DEF Generate
  <2> QED
    BY <2>1, <2>2, <2>3
<1>3. CASE GenerateFails(t)
  BY <1>3 DEF GenerateFails, Call
<1>4. CASE Fetch(t)
  BY <1>4 DEF Fetch, Call
<1>5. CASE Leave(t)
  BY <1>5 DEF Leave, NoCall
<1> QED
  BY <1>1, <1>2, <1>3, <1>4, <1>5 DEF KeyStep

LEMMA KeyFoundStep ==
    ASSUME KeyFoundInv, [Next]_vars
    PROVE  KeyFoundInv'
<1>a. KeyInv /\ TypeInv'
  BY TypeStep DEF KeyFoundInv, TypeInv, TypeOK, KeyInv
<1>1. CASE UNCHANGED keyVars
  BY <1>1, <1>a DEF keyVars, KeyFoundInv, ReturnFindsAPair, Entry
<1>2. ASSUME NEW t \in Threads, BeginCall(t) \/ KeyStep(t) \/ Leave(t)
      PROVE  ReturnFindsAPair'
  <2>1. \E v \in Ids : Lookup(t, v) \/ KeyStep(t) \/ Leave(t)
    BY <1>2, <1>a
       DEF BeginCall, KeyFoundInv, TypeInv, RequestsComplete, UploadStages,
           KeyStep, Generate, GenerateFails, Fetch, Leave, KeyInv, CallsHaveIds
  <2> QED
    BY <1>a, <2>1, ReturnStep DEF KeyFoundInv
<1>3. ASSUME NEW p \in Procs, Restart(p)
      PROVE  ReturnFindsAPair'
  BY <1>3, <1>a, ThreadsHaveProcesses
     DEF Restart, KeyFoundInv, ReturnFindsAPair, Entry, KeyInv, KeyTypeOK,
         CallsHaveIds, NoCall
<1> QED
  BY <1>a, <1>1, <1>2, <1>3, KeySteps DEF KeyFoundInv

\* The last line of _ensure_keys_exist finds an entry, whatever the other
\* threads of the process have stored meanwhile.
THEOREM ReturnsFindPairs == Spec => []ReturnFindsAPair
<1>1. Init => KeyFoundInv
  BY TypeInit DEF Init, KeyInit, KeyFoundInv, ReturnFindsAPair, NoCall
<1>2. KeyFoundInv /\ [Next]_vars => KeyFoundInv'
  BY KeyFoundStep
<1>3. KeyFoundInv => ReturnFindsAPair
  BY DEF KeyFoundInv
<1> QED
  BY <1>1, <1>2, <1>3, PTL DEF Spec

-----------------------------------------------------------------------------
(* What a file that does not open comes from.                              *)

\* A thread is in the key store for the party its request needs, or not at all.
CallsServeRequests ==
    \A t \in Threads : call[t].at # "out" =>
        \/ pc[t] = "wrap" /\ call[t].user = req[t].receiver
        \/ pc[t] = "unwrap" /\ call[t].user = req[t].user

\* Every pair in use is one of those that were made for its user.
PairsAreMade ==
    /\ \A p \in Procs, u \in Ids : store[p][u] <= made[u]
    /\ \A t \in Threads :
          /\ call[t].at = "returned" => call[t].pair \in 1 .. made[call[t].user]
          /\ pc[t] = "record" => req[t].pair \in 1 .. made[req[t].receiver]
          /\ pc[t] = "undecryptable" => made[req[t].user] > 0
    /\ \A f \in Recorded : meta[f].pair \in 1 .. made[meta[f].receiver]

\* A download for which a pair is to be made, of a user for whom one pair was
\* made so far, finds none in its process.
NoPairHere ==
    \A t \in Threads :
        /\ pc[t] = "unwrap" /\ call[t].at \in {"generate", "raised"}
        /\ made[req[t].user] = 1
        => Entry(t, req[t].user) = NoPair

\* Key generation only fails where it may.
FailuresAreFaults ==
    \A t \in Threads : call[t].at = "raised" => "keygen" \in Faults

LostInv == /\ PlaintextInv /\ KeyFoundInv /\ CallsServeRequests /\ PairsAreMade
           /\ NoPairHere /\ FailuresAreFaults /\ LostFilesWereRaced

\* Which steps change a dictionary or the number of pairs.
LEMMA StoreSteps ==
    ASSUME TypeInv, [Next]_vars
    PROVE  \/ UNCHANGED <<store, made>>
           \/ \E t \in Threads : Generate(t)
           \/ \E q \in Procs : Restart(q)
BY KeySteps DEF keyVars, BeginCall, Lookup, KeyStep, GenerateFails, Fetch, Leave

\* Pairs are only added.
LEMMA MadeStep ==
    ASSUME TypeInv, [Next]_vars, NEW u \in Ids
    PROVE  made[u] \in Nat /\ made'[u] \in Nat /\ made[u] <= made'[u]
<1>a. /\ made \in [Ids -> 0 .. MaxPairs] /\ made' \in [Ids -> 0 .. MaxPairs]
      /\ MaxPairs \in Nat
  BY TypeStep, PairBound DEF TypeInv, TypeOK, KeyTypeOK, Pairs, NoPair
<1>1. ASSUME NEW t \in Threads, Generate(t)
      PROVE  made[u] <= made'[u]
  BY <1>a, <1>1 DEF Generate
<1>2. ASSUME NEW q \in Procs, Restart(q)
      PROVE  made[u] <= made'[u]
  BY <1>a, <1>2 DEF Restart
<1> QED
  BY <1>a, <1>1, <1>2, StoreSteps

\* An entry is kept, lost, or replaced by a pair that was just made.
LEMMA EntryStep ==
    ASSUME TypeInv, PairsAreMade, [Next]_vars, NEW p \in Procs, NEW u \in Ids
    PROVE  /\ store'[p][u] <= made'[u]
           /\ \/ store'[p][u] = store[p][u]
              \/ store'[p][u] = NoPair
              \/ made'[u] = made[u] + 1
<1>a. /\ made \in [Ids -> 0 .. MaxPairs] /\ made' \in [Ids -> 0 .. MaxPairs]
      /\ store \in [Procs -> [Ids -> 0 .. MaxPairs]] /\ MaxPairs \in Nat
  BY TypeStep, PairBound DEF TypeInv, TypeOK, KeyTypeOK, Pairs, NoPair
<1>b. made[u] \in Nat /\ made'[u] \in Nat /\ store[p][u] <= made[u]
  BY <1>a DEF PairsAreMade
<1>1. CASE UNCHANGED <<store, made>>
  BY <1>b, <1>1
<1>2. ASSUME NEW t \in Threads, Generate(t)
      PROVE  /\ store'[p][u] <= made'[u]
             /\ store'[p][u] = store[p][u] \/ made'[u] = made[u] + 1
  <2>1. CASE call[t].user = u
    BY <1>a, <1>b, <1>2, <2>1, ThreadsHaveProcesses DEF Generate
  <2>2. CASE call[t].user # u
    BY <1>a, <1>b, <1>2, <2>2, ThreadsHaveProcesses DEF Generate
  <2> QED
    BY <2>1, <2>2
<1>3. ASSUME NEW q \in Procs, Restart(q)
      PROVE  /\ made'[u] = made[u]
             /\ store'[p][u] = store[p][u] \/ store'[p][u] = NoPair
  BY <1>a, <1>3 DEF Restart
<1> QED
  BY <1>b, <1>1, <1>2, <1>3, StoreSteps DEF NoPair

\* What a step does to where a thread stands in the key store.
LEMMA CallMoves ==
    ASSUME TypeInv, [Next]_vars, NEW s \in Threads
    PROVE  \/ call'[s] = call[s]
           \/ call'[s] = NoCall
           \/ BeginCall(s) /\ UNCHANGED fileVars
           \/ KeyStep(s) /\ KeyWork(s)
<1>a. call \in [Threads -> Call]
  BY DEF TypeInv, TypeOK, KeyTypeOK
<1>1. ASSUME NEW t \in Threads, BeginCall(t) \/ KeyStep(t), t # s
      PROVE  call'[s] = call[s]
  BY <1>a, <1>1 DEF BeginCall, Lookup, KeyStep, Generate, GenerateFails, Fetch
<1>2. ASSUME NEW t \in Threads, Leave(t)
      PROVE  call'[s] = call[s] \/ call'[s] = NoCall
  BY <1>a, <1>2 DEF Leave
<1>3. ASSUME NEW p \in Procs, Restart(p)
      PROVE  call'[s] = call[s] \/ call'[s] = NoCall
  BY <1>3 DEF Restart
<1> QED
  BY <1>1, <1>2, <1>3, KeySteps DEF keyVars

\* A thread that waits for a key stays where it is until it has left the store.
LEMMA WaitersStay ==
    ASSUME TypeInv, [Next]_vars, NEW s \in Threads,
           pc[s] \in {"wrap", "unwrap"}, call'[s].at # "out"
    PROVE  pc'[s] = pc[s] /\ req'[s] = req[s]
<1>a. call \in [Threads -> Call]
  BY DEF TypeInv, TypeOK, KeyTypeOK
<1>1. CASE Rests(s)
  BY <1>1 DEF Rests
<1>2. CASE FinishWrap(s) \/ FinishUnwrap(s)
  BY <1>a, <1>2 DEF FinishWrap, FinishUnwrap, Leave, NoCall
<1>3. CASE Ends(s) /\ \E p \in Procs : Crash(p)
  <2>1. PICK p \in Procs : Crash(p)
    BY <1>3
  <2>2. CASE ProcOf[s] = p
    BY <2>1, <2>2 DEF Crash, Restart, NoCall
  <2>3. CASE ProcOf[s] # p
    BY <2>1, <2>3 DEF Crash, EndRequests
  <2> QED
    BY <2>2, <2>3
<1>4. CASE StartUpload(s) \/ StartDownload(s)
  BY <1>4 DEF StartUpload, StartDownload
<1>5. CASE UploadStep(s) /\ ~ BeginWrap(s) /\ ~ FinishWrap(s)
  BY <1>5 DEF UploadStep, WriteTmp, Rename, Record, Refresh
<1>6. CASE DownloadStep(s) /\ ~ BeginUnwrap(s) /\ ~ FinishUnwrap(s)
  BY <1>6 DEF DownloadStep, ReadBlob, Deny, WriteBuffer, Send, Cleanup,
              LogIntegrity, LogDownload
<1> QED
  BY <1>1, <1>2, <1>3, <1>4, <1>5, <1>6, ThreadMoves

\* A thread inside the key store was there before or has just entered.
LEMMA CallsServeStep ==
    ASSUME TypeInv, CallsServeRequests, [Next]_vars, NEW s \in Threads,
           call'[s].at # "out"
    PROVE  /\ pc[s] \in {"wrap", "unwrap"}
           /\ pc'[s] = pc[s] /\ req'[s] = req[s]
           /\ call'[s].user = IF pc[s] = "wrap" THEN req[s].receiver ELSE req[s].user
<1>a. call \in [Threads -> Call]
  BY DEF TypeInv, TypeOK, KeyTypeOK
<1>1. CASE call'[s] = call[s]
  BY <1>1, WaitersStay DEF CallsServeRequests
<1>2. CASE BeginCall(s)
  BY <1>a, <1>2, WaitersStay DEF BeginCall, Lookup
<1>3. CASE KeyStep(s)
  <2>1. call[s].at # "out" /\ call'[s].user = call[s].user
    BY <1>a, <1>3 DEF KeyStep, Generate, GenerateFails, Fetch, Call
  <2> QED
    BY <2>1, WaitersStay DEF CallsServeRequests
<1> QED
  BY <1>1, <1>2, <1>3, CallMoves DEF NoCall

\* A thread with a pair to record got it from the key store.
LEMMA RecordersWrapped ==
    ASSUME TypeInv, [Next]_vars, NEW s \in Threads, pc'[s] = "record"
    PROVE  \/ Rests(s)
           \/ /\ pc[s] = "wrap" /\ call[s].at = "returned"
              /\ req'[s].pair = call[s].pair /\ req'[s].receiver = req[s].receiver
<1>a. /\ pc \in [Threads -> Stages] /\ req \in [Threads -> Request]
      /\ call \in [Threads -> Call]
  BY DEF TypeInv, TypeOK, KeyTypeOK
<1>b. ~ EndRequest(s)
  BY DEF EndRequest, EndRequests
<1>1. CASE Ends(s)
  BY <1>1 DEF Ends
<1>2. CASE StartUpload(s) \/ StartDownload(s)
  BY <1>a, <1>2 DEF StartUpload, StartDownload, Goto
<1>3. CASE UploadStep(s) /\ ~ BeginWrap(s)
  <2>1. FinishWrap(s)
    BY <1>a, <1>b, <1>3 DEF UploadStep, WriteTmp, Rename, Record, Refresh,
                            Discard, Goto
  <2>2. /\ pc[s] = "wrap" /\ call[s].at = "returned"
        /\ req' = [req EXCEPT ![s].pair = call[s].pair]
    BY <1>b, <2>1 DEF FinishWrap, Discard
  <2> QED
    BY <1>a, <2>2 DEF Request
<1>4. CASE DownloadStep(s) /\ ~ BeginUnwrap(s)
  BY <1>a, <1>b, <1>4
     DEF DownloadStep, FinishUnwrap, ReadBlob, Deny, WriteBuffer, Send, Cleanup,
         LogIntegrity, LogDownload, Goto
<1> QED
  BY <1>1, <1>2, <1>3, <1>4, ThreadMoves

\* A file is only found not to open when the key store has answered.
LEMMA LosersUnwrapped ==
    ASSUME TypeInv, [Next]_vars, NEW s \in Threads, pc'[s] = "undecryptable"
    PROVE  \/ Rests(s)
           \/ FinishUnwrap(s) /\ ~ Opens(s)
<1>a. pc \in [Threads -> Stages] /\ req \in [Threads -> Request]
  BY DEF TypeInv, TypeOK
<1>b. ~ EndRequest(s)
  BY DEF EndRequest, EndRequests
<1>1. CASE Ends(s)
  BY <1>1 DEF Ends
<1>2. CASE StartUpload(s) \/ StartDownload(s)
  BY <1>a, <1>2 DEF StartUpload, StartDownload, Goto
<1>3. CASE UploadStep(s) /\ ~ BeginWrap(s)
  BY <1>a, <1>b, <1>3 DEF UploadStep, WriteTmp, Rename, FinishWrap, Record,
                          Refresh, Discard, Goto
<1>4. CASE DownloadStep(s) /\ ~ BeginUnwrap(s)
  BY <1>a, <1>b, <1>4
     DEF DownloadStep, FinishUnwrap, ReadBlob, Deny, WriteBuffer, Send, Cleanup,
         LogIntegrity, LogDownload, Goto
<1> QED
  BY <1>1, <1>2, <1>3, <1>4, ThreadMoves

LEMMA PairsStep ==
    ASSUME PlaintextInv, KeyFoundInv, CallsServeRequests, PairsAreMade,
           [Next]_vars
    PROVE  PairsAreMade'
<1>a. TypeInv /\ TypeInv'
  BY TypeStep DEF KeyFoundInv
<1>b. /\ call \in [Threads -> Call] /\ req \in [Threads -> Request]
      /\ req' \in [Threads -> Request]
      /\ made \in [Ids -> Pairs] /\ store \in [Procs -> [Ids -> Pairs]]
  BY <1>a DEF TypeInv, TypeOK, KeyTypeOK
<1>c. ASSUME NEW u \in Ids
      PROVE  /\ made[u] \in Nat /\ made'[u] \in Nat /\ made[u] <= made'[u]
             /\ \A p \in Procs : store'[p][u] <= made'[u]
  BY <1>a, <1>c, MadeStep, EntryStep
<1>d. \A u \in Ids : \A k \in 1 .. made[u] : k \in 1 .. made'[u]
  BY <1>c
<1>1. ASSUME NEW t \in Threads, call'[t].at = "returned"
      PROVE  call'[t].pair \in 1 .. made'[call'[t].user]
  <2>1. CASE call'[t] = call[t]
    BY <1>1, <1>a, <1>d, <2>1 DEF PairsAreMade, TypeInv, CallsHaveIds
  <2>2. CASE BeginCall(t)
    BY <1>1, <1>b, <2>2 DEF BeginCall, Lookup
  <2>3. CASE KeyStep(t)
    <3>1. Fetch(t)
      BY <1>1, <1>b, <2>3 DEF KeyStep, Generate, GenerateFails, Call
    <3>2. /\ call'[t].pair = Entry(t, call[t].user)
          /\ call'[t].user = call[t].user /\ call[t].user \in Ids
      BY <1>a, <1>b, <3>1 DEF Fetch, Call, TypeInv, CallsHaveIds
    <3>3. /\ Entry(t, call[t].user) \in 0 .. MaxPairs
          /\ Entry(t, call[t].user) # 0
          /\ Entry(t, call[t].user) <= made[call[t].user]
      BY <1>b, <3>1, <3>2, ThreadsHaveProcesses
         DEF Entry, Fetch, KeyFoundInv, ReturnFindsAPair, PairsAreMade, NoPair,
             Pairs
    <3>4. Entry(t, call[t].user) \in 1 .. made[call[t].user]
      BY <1>c, <3>2, <3>3, PairBound
    <3> QED
      BY <1>d, <3>2, <3>4
  <2> QED
    BY <1>1, <1>a, <2>1, <2>2, <2>3, CallMoves DEF NoCall
<1>2. ASSUME NEW t \in Threads, pc'[t] = "record"
      PROVE  req'[t].pair \in 1 .. made'[req'[t].receiver]
  <2>1. CASE Rests(t)
    BY <1>2, <1>a, <1>d, <2>1
       DEF Rests, PairsAreMade, TypeInv, RequestsComplete, UploadStages
  <2>2. CASE /\ pc[t] = "wrap" /\ call[t].at = "returned"
             /\ req'[t].pair = call[t].pair /\ req'[t].receiver = req[t].receiver
    <3>1. call[t].user = req[t].receiver
      BY <2>2 DEF CallsServeRequests
    <3> QED
      BY <1>a, <1>d, <2>2, <3>1 DEF PairsAreMade, TypeInv, CallsHaveIds
  <2> QED
    BY <1>2, <1>a, <2>1, <2>2, RecordersWrapped
<1>3. ASSUME NEW t \in Threads, pc'[t] = "undecryptable"
      PROVE  made'[req'[t].user] > 0
  <2>1. CASE Rests(t)
    BY <1>3, <1>a, <1>c, <2>1 DEF Rests, PairsAreMade, TypeInv, RequestsComplete
  <2>2. CASE FinishUnwrap(t)
    <3>1. /\ req'[t] = req[t] /\ req[t].user \in Ids
          /\ req[t].file \in Recorded
          /\ meta[req[t].file].receiver = req[t].user
      BY <1>a, <2>2 DEF FinishUnwrap, PlaintextInv, ReadersAreReceivers, TypeInv,
                        RequestsComplete
    <3>2. meta[req[t].file].pair \in 1 .. made[req[t].user]
      BY <3>1 DEF PairsAreMade
    <3> QED
      BY <1>c, <3>1, <3>2
  <2> QED
    BY <1>3, <1>a, <2>1, <2>2, LosersUnwrapped
<1>4. ASSUME NEW f \in Files, meta'[f] # NoRow
      PROVE  meta'[f].pair \in 1 .. made'[meta'[f].receiver]
  <2>1. CASE meta'[f] = meta[f]
    <3>1. meta[f].receiver \in Ids
      BY <1>4, <1>a, <2>1 DEF TypeInv, TypeOK, MetaRow
    <3> QED
      BY <1>4, <1>d, <2>1, <3>1 DEF PairsAreMade, Recorded
  <2>2. CASE meta'[f] # meta[f]
    <3>1. PICK t \in Threads : Record(t)
      BY <2>2, RowsAreRecorded
    <3>2. meta'[f] = [sender |-> req[t].user, receiver |-> req[t].receiver,
                      pair |-> req[t].pair]
      BY <1>a, <2>2, <3>1 DEF Record, TypeInv, TypeOK
    <3>3. req[t].receiver \in Ids /\ req[t].pair \in 1 .. made[req[t].receiver]
      BY <1>a, <3>1 DEF Record, PairsAreMade, TypeInv, RequestsComplete,
                        UploadStages
    <3> QED
      BY <1>d, <3>2, <3>3
  <2> QED
    BY <2>1, <2>2
<1>5. \A p \in Procs, u \in Ids : store'[p][u] <= made'[u]
  BY <1>c
<1> QED
  BY <1>1, <1>2, <1>3, <1>4, <1>5 DEF PairsAreMade, Recorded

LEMMA LostStep ==
    ASSUME LostInv, [Next]_vars
    PROVE  LostInv'
<1>a. /\ PlaintextInv' /\ KeyFoundInv' /\ PairsAreMade'
      /\ TypeInv /\ TypeInv' /\ PairsAreMade /\ CallsServeRequests
  BY PlaintextStep, KeyFoundStep, PairsStep DEF LostInv, KeyFoundInv
<1>b. ASSUME NEW s \in Threads, call'[s].at # "out"
      PROVE  /\ pc[s] \in {"wrap", "unwrap"}
             /\ pc'[s] = pc[s] /\ req'[s] = req[s]
             /\ call'[s].user = IF pc[s] = "wrap" THEN req[s].receiver ELSE req[s].user
  BY <1>a, <1>b, CallsServeStep
<1>1. CallsServeRequests'
  BY <1>b DEF CallsServeRequests
<1>c. call \in [Threads -> Call] /\ call' \in [Threads -> Call]
  BY <1>a DEF TypeInv, TypeOK, KeyTypeOK
<1>d. ASSUME NEW s \in Threads, call'[s].at = "raised"
      PROVE  call[s].at = "raised" \/ (GenerateFails(s) /\ KeyWork(s))
  <2>1. CASE BeginCall(s)
    BY <1>c, <1>d, <2>1 DEF BeginCall, Lookup
  <2>2. CASE KeyStep(s) /\ KeyWork(s)
    <3>1. ~ Generate(s) /\ ~ Fetch(s)
      BY <1>c, <1>d DEF Generate, Fetch, Call
    <3> QED
      BY <2>2, <3>1 DEF KeyStep
  <2>3. CASE call'[s] = call[s]
    BY <1>d, <2>3
  <2>4. call'[s] # NoCall
    BY <1>d DEF NoCall
  <2>5. TypeInv
    BY <1>a
  <2> QED
    BY <2>1, <2>2, <2>3, <2>4, <2>5, CallMoves
<1>2. FailuresAreFaults'
  <2>1. ASSUME NEW s \in Threads, GenerateFails(s), KeyWork(s)
        PROVE  call'[s].at = "raised" => "keygen" \in Faults
    <3>1. ~ Generate(s) /\ ~ Fetch(s)
      BY <1>c, <2>1 DEF GenerateFails, Generate, Fetch, Call
    <3> QED
      BY <2>1, <3>1 DEF KeyWork, Fault, Fail
  <2> QED
    BY <1>d, <2>1 DEF LostInv, FailuresAreFaults
<1>e. ASSUME NEW s \in Threads, NEW u \in Ids,
             made[u] > 0, made'[u] = 1, Entry(s, u) = NoPair
      PROVE  store'[ProcOf[s]][u] = NoPair
  <2>1. ProcOf[s] \in Procs
    BY ThreadsHaveProcesses
  <2>2. made'[u] # made[u] + 1
    BY <1>a, <1>e, MadeStep
  <2> QED
    BY <1>a, <1>e, <2>1, <2>2, EntryStep DEF Entry
<1>f. ASSUME NEW s \in Threads, pc[s] = "unwrap"
      PROVE  /\ req[s].user \in Ids /\ made[req[s].user] > 0
             /\ req[s].file \in Recorded
             /\ meta[req[s].file].receiver = req[s].user
             /\ meta[req[s].file].pair \in 1 .. made[req[s].user]
  <2>1. /\ req[s].user \in Ids /\ req[s].file \in Recorded
        /\ meta[req[s].file].receiver = req[s].user
    BY <1>a, <1>f DEF LostInv, PlaintextInv, ReadersAreReceivers, TypeInv,
                      RequestsComplete
  <2>2. meta[req[s].file].pair \in 1 .. made[req[s].user]
    BY <1>a, <2>1 DEF PairsAreMade
  <2>3. made[req[s].user] \in Nat
    BY <1>a, <2>1, PairBound DEF TypeInv, TypeOK, KeyTypeOK, Pairs, NoPair
  <2> QED
    BY <2>1, <2>2, <2>3
<1>g. \A u \in Ids : made[u] \in Nat /\ made'[u] \in Nat /\ made[u] <= made'[u]
  BY <1>a, MadeStep
<1>3. ASSUME NEW s \in Threads, pc'[s] = "unwrap",
             call'[s].at \in {"generate", "raised"}, made'[req'[s].user] = 1
      PROVE  store'[ProcOf[s]][req'[s].user] = NoPair
  <2>1. pc[s] = "unwrap" /\ req'[s] = req[s] /\ call'[s].user = req[s].user
    BY <1>3, <1>b
  <2>2. made[req[s].user] = 1
    BY <1>3, <1>f, <1>g, <2>1
  <2>3. Entry(s, req[s].user) = NoPair
    <3>1. CASE call[s].at \in {"generate", "raised"}
      BY <2>1, <2>2, <3>1 DEF LostInv, NoPairHere
    <3>2. CASE call[s].at \notin {"generate", "raised"}
      <4>1. BeginCall(s)
        <5>1. ~ KeyStep(s)
          BY <1>3, <1>c, <3>2 DEF KeyStep, Generate, GenerateFails, Fetch, Call
        <5>2. call'[s] # NoCall
          BY <1>3 DEF NoCall
        <5> QED
          BY <1>3, <1>a, <3>2, <5>1, <5>2, CallMoves
      <4> QED
        BY <1>3, <1>c, <2>1, <4>1 DEF BeginCall, Lookup
    <3> QED
      BY <3>1, <3>2
  <2> QED
    BY <1>3, <1>e, <1>f, <2>1, <2>3
<1>4. NoPairHere'
  BY <1>3 DEF NoPairHere, Entry
<1>5. ASSUME NEW s \in Threads, pc'[s] = "undecryptable"
      PROVE  \/ made'[req'[s].user] > 1
             \/ "keygen" \in Faults /\ store'[ProcOf[s]][req'[s].user] = NoPair
  <2>1. req'[s].user \in Ids /\ made'[req'[s].user] > 0
    BY <1>5, <1>a DEF PairsAreMade, TypeInv, RequestsComplete
  <2>2. CASE Rests(s)
    <3>1. made[req[s].user] > 0
      BY <1>5, <1>a, <2>2 DEF Rests, PairsAreMade
    <3>2. CASE made[req[s].user] > 1
      BY <1>g, <2>1, <2>2, <3>2 DEF Rests
    <3>3. CASE "keygen" \in Faults /\ Entry(s, req[s].user) = NoPair
      BY <1>e, <1>g, <2>1, <2>2, <3>1, <3>3 DEF Rests
    <3> QED
      BY <1>5, <2>2, <3>2, <3>3 DEF Rests, LostInv, LostFilesWereRaced
  <2>3. CASE FinishUnwrap(s) /\ ~ Opens(s)
    <3>1. pc[s] = "unwrap" /\ req'[s] = req[s] /\ UNCHANGED <<store, made>>
      BY <2>3 DEF FinishUnwrap, Leave
    <3>2. call[s].at \in {"returned", "raised"} /\ call[s].user = req[s].user
      BY <1>a, <2>3, <3>1 DEF FinishUnwrap, Leave, CallsServeRequests
    <3>3. CASE call[s].at = "returned"
      <4>1. call[s].pair \in 1 .. made[req[s].user]
        BY <1>a, <3>2, <3>3 DEF PairsAreMade
      <4>2. call[s].pair # meta[req[s].file].pair
        BY <1>f, <2>3, <3>1, <3>2, <3>3 DEF Opens
      <4> QED
        BY <1>f, <1>g, <3>1, <4>1, <4>2
    <3>4. CASE call[s].at = "raised"
      BY <1>f, <1>g, <2>1, <3>1, <3>4
         DEF LostInv, NoPairHere, FailuresAreFaults, Entry
    <3> QED
      BY <3>2, <3>3, <3>4
  <2> QED
    BY <1>5, <1>a, <2>2, <2>3, LosersUnwrapped
<1>6. LostFilesWereRaced'
  BY <1>5 DEF LostFilesWereRaced, Entry
<1> QED
  BY <1>a, <1>1, <1>2, <1>4, <1>6 DEF LostInv

\* A file that was committed for a user and does not open for that user is one
\* for whose receiver a second pair was made, by an overlapping first use, by
\* another process or after a restart, or the process could not make any.
THEOREM LostFilesHaveCauses == Spec => []LostFilesWereRaced
<1>1. Init => LostInv
  <2>1. ASSUME Init PROVE LostInv
    <3>1. PlaintextInv
      BY <2>1, StorageInit
         DEF Init, PlaintextInv, ReadersAreReceivers, PlaintextOnlyForReceiver
    <3>2. KeyFoundInv
      BY <2>1, TypeInit DEF Init, KeyInit, KeyFoundInv, ReturnFindsAPair, NoCall
    <3>3. PairsAreMade
      BY <2>1 DEF Init, KeyInit, PairsAreMade, Recorded, NoCall, NoPair
    <3> QED
      BY <2>1, <3>1, <3>2, <3>3
         DEF Init, KeyInit, LostInv, CallsServeRequests, NoPairHere,
             FailuresAreFaults, LostFilesWereRaced, NoCall
  <2> QED
    BY <2>1
<1>2. LostInv /\ [Next]_vars => LostInv'
  BY LostStep
<1>3. LostInv => LostFilesWereRaced
  BY DEF LostInv
<1> QED
  BY <1>1, <1>2, <1>3, PTL DEF Spec

=============================================================================
