-------------------------- MODULE FrontEndProofs --------------------------
(***************************************************************************)
(* The front end's session, for every set of users, messages and files and *)
(* every limit.                                                            *)
(***************************************************************************)
EXTENDS FrontEnd, FiniteSetTheorems, TLAPS

-----------------------------------------------------------------------------
(* Types                                                                   *)

Keys == {"token", "profile", "decrypted_inbox", "inbox_messages", "sent_messages",
         "audit_log", "active_file_id", "file_inbox_data", "login_attempts", "locked"}

LEMMA Limits ==
    /\ TokenLife \in Nat /\ Lockout \in Nat /\ Lockout > 0
    /\ MaxAttempts \in Nat /\ MaxAttempts > 0 /\ MaxId \in Nat
    /\ NoId \notin Ids
  BY TimesAreNat, SomeAttempts, MaxIdIsNat, NoIdIsNoUser

HasKeys(c) == c = [k \in Keys |-> c[k]]

LEMMA SessionByKeys ==
    ASSUME NEW c, HasKeys(c),
           c.token \in Token, c.profile \in Ids \cup {NoId},
           c.decrypted_inbox \in SUBSET RowIds, c.inbox_messages \in SUBSET RowIds,
           c.sent_messages \in SUBSET RowIds, c.audit_log \in SUBSET Ids,
           c.active_file_id \in Files \cup {NoFile},
           c.file_inbox_data \in (SUBSET Files) \cup {NotLoaded},
           c.login_attempts \in 0 .. MaxAttempts, c.locked \in 0 .. Lockout
    PROVE  c \in Session
  BY DEF Session, Keys, HasKeys

\* A session with some of its keys reset.
LEMMA ClearedIsSession ==
    ASSUME session \in Session, NEW n \in 1 .. Len(LogoutKeys)
    PROVE  /\ Cleared(n) \in Session /\ Cleared(n).token = NoToken
           /\ Cleared(n).login_attempts = session.login_attempts
           /\ Cleared(n).locked = session.locked
           /\ n = Len(LogoutKeys) =>
                 /\ Cleared(n).profile = NoId /\ Cleared(n).audit_log = {}
                 /\ Cleared(n).decrypted_inbox = {} /\ Cleared(n).inbox_messages = {}
                 /\ Cleared(n).sent_messages = {} /\ Cleared(n).active_file_id = NoFile
  <1> DEFINE c == Cleared(n)
  <1>1. DOMAIN session = Keys
    BY DEF Session, Keys
  <1>2. /\ c.token \in {NoToken, session.token}
        /\ c.profile \in {NoId, session.profile}
        /\ c.decrypted_inbox \in {{}, session.decrypted_inbox}
        /\ c.inbox_messages \in {{}, session.inbox_messages}
        /\ c.sent_messages \in {{}, session.sent_messages}
        /\ c.audit_log \in {{}, Audited}
        /\ c.active_file_id \in {NoFile, session.active_file_id}
        /\ c.file_inbox_data \in {NotLoaded, session.file_inbox_data}
        /\ c.login_attempts \in {0, session.login_attempts}
        /\ c.locked \in {0, session.locked}
    BY <1>1 DEF Cleared, Defaults, Keys
  <1>6. c.token = NoToken
    BY <1>1 DEF Cleared, Defaults, Keys, LogoutKeys
  <1>7. c.login_attempts = session.login_attempts /\ c.locked = session.locked
    BY <1>1 DEF Cleared, Defaults, Keys, LogoutKeys
  <1>8. n = Len(LogoutKeys) =>
           /\ c.profile = NoId /\ c.audit_log = {}
           /\ c.decrypted_inbox = {} /\ c.inbox_messages = {}
           /\ c.sent_messages = {} /\ c.active_file_id = NoFile
    BY <1>1 DEF Cleared, Defaults, Keys, LogoutKeys
  <1>3. HasKeys(c)
    BY <1>1 DEF Cleared, HasKeys
  <1>4. /\ c.token \in Token
        /\ c.profile \in Ids \cup {NoId}
        /\ c.decrypted_inbox \in SUBSET RowIds
        /\ c.inbox_messages \in SUBSET RowIds
        /\ c.sent_messages \in SUBSET RowIds
        /\ c.audit_log \in SUBSET Ids
        /\ c.active_file_id \in Files \cup {NoFile}
        /\ c.file_inbox_data \in (SUBSET Files) \cup {NotLoaded}
        /\ c.login_attempts \in 0 .. MaxAttempts
        /\ c.locked \in 0 .. Lockout
    BY <1>2, Limits DEF Session, Audited, NoToken, Token
  <1> HIDE DEF c
  <1>5. c \in Session
    BY <1>3, <1>4, SessionByKeys
  <1> QED
    BY <1>5, <1>6, <1>7, <1>8 DEF c

LEMMA LimitsAreCounts ==
    0 \in 0 .. MaxAttempts /\ 0 \in 0 .. Lockout /\ Lockout \in 0 .. Lockout
  BY Limits

LEMMA DefaultsAreASession == Defaults \in Session /\ NoToken \in Token
  BY Limits DEF Defaults, Session, NoToken, Token

LEMMA CallTypes ==
    /\ \A c \in Calls :
          /\ c.kind \in {"login", "send"} => c.of \in Ids
          /\ c.kind \in {"unlock", "delete"} => c.of \in RowIds
          /\ c.kind \in {"upload", "open"} => c.of \in Files
    /\ NoCall \in Calls /\ NoCall.kind = "none"
    /\ Directory \in Calls /\ Directory.kind = "directory"
    /\ \A k \in {"refresh_files", "refresh_inbox", "refresh_sent"} :
          Call(k, NoId) \in Calls /\ Call(k, NoId).kind = k
    /\ \A u \in Ids, k \in {"login", "send"} : Call(k, u) \in Calls /\ Call(k, u).kind = k
    /\ \A m \in RowIds, k \in {"unlock", "delete"} :
          Call(k, m) \in Calls /\ Call(k, m).kind = k
    /\ \A f \in Files, k \in {"upload", "open"} :
          Call(k, f) \in Calls /\ Call(k, f).kind = k
  <1>1. ASSUME NEW c \in Calls
        PROVE  /\ c.kind \in {"login", "send"} => c.of \in Ids
               /\ c.kind \in {"unlock", "delete"} => c.of \in RowIds
               /\ c.kind \in {"upload", "open"} => c.of \in Files
    BY DEF Calls, Call
  <1>2. \A k, of : Call(k, of).kind = k
    BY DEF Call
  <1>3. \A k \in {"none", "directory", "refresh_files", "refresh_inbox", "refresh_sent"} :
          Call(k, NoId) \in Calls
    BY DEF Calls
  <1>4. \A u \in Ids, k \in {"login", "send"} : Call(k, u) \in Calls
    BY DEF Calls
  <1>5. \A m \in RowIds, k \in {"unlock", "delete"} : Call(k, m) \in Calls
    BY DEF Calls
  <1>6. \A f \in Files, k \in {"upload", "open"} : Call(k, f) \in Calls
    BY DEF Calls
  <1> QED
    BY <1>1, <1>2, <1>3, <1>4, <1>5, <1>6 DEF NoCall, Directory

-----------------------------------------------------------------------------
(* What a script run may be doing                                          *)

Tabs == {"sidebar", "upload", "files", "send", "inbox", "sent"}

\* The requests each part of the page makes.
KindsAt(stage) ==
    CASE stage = "auth" -> {"none", "login"}
      [] stage = "upload" -> {"directory", "upload"}
      [] stage = "files" -> {"open", "refresh_files"}
      [] stage = "send" -> {"directory", "send"}
      [] stage = "inbox" -> {"refresh_inbox", "unlock", "delete"}
      [] stage = "sent" -> {"refresh_sent"}
      [] OTHER -> {}

\* The request under way is one of the part of the page that made it.
RequestsFit ==
    /\ run.status = "no" => run.call = NoCall /\ run.data = {}
    /\ run.status # "no" => run.call.kind \in KindsAt(run.stage)
    /\ IF run.call.kind \in {"refresh_inbox", "refresh_sent"}
       THEN run.data \subseteq RowIds ELSE run.data \subseteq Files

\* The page that is drawn fits the session.
PageFits ==
    /\ User = NoId => session.token = NoToken
    /\ run.stage = "auth" => User = NoId
    /\ run.stage \in Tabs => User # NoId
    /\ run.stage = "auth" /\ run.status # "no" =>
          ~ RateLimited /\ (run.status = "ok" => run.call.kind = "login")

RunInv == TypeOK /\ RequestsFit /\ PageFits

-----------------------------------------------------------------------------
(* The steps of the dashboard, by what they do                             *)

Keeps == UNCHANGED <<serverVars, historyVars>>
Passes == run' = Idle \/ \E stage \in Tabs : Proceed(stage)

\* A request is made; a file list that is fetched again is dropped first.
Asked ==
    /\ run.stage \in Tabs /\ run.call.kind # "send"
    /\ \E c \in Calls, clicked \in BOOLEAN :
          c.kind \in KindsAt(run.stage) /\ Ask(c, clicked)
    /\ \/ UNCHANGED session
       \/ session' = [session EXCEPT !.file_inbox_data = NotLoaded]

SignedOut == run.stage \in Tabs /\ run.status \in {"no", "unauthorized"} /\ SignOut

Passed ==
    /\ run.stage \in Tabs /\ run.call.kind # "send"
    /\ Passes /\ UNCHANGED session /\ Keeps

Logged ==
    /\ At("sidebar") /\ session' = [session EXCEPT !.audit_log = Audited]
    /\ Passes /\ Keeps

OpenedFile ==
    /\ At("files") /\ Rerun /\ Keeps
    /\ \E f \in Files \cup {NoFile} : session' = [session EXCEPT !.active_file_id = f]

KeptFiles ==
    /\ run.stage = "files" /\ run.status # "no" /\ Passes /\ Keeps
    /\ session' = [session EXCEPT !.file_inbox_data = run.data]

KeptInbox ==
    /\ Answered("inbox", {"ok"}) /\ run.call.kind = "refresh_inbox" /\ Passes /\ Keeps
    /\ session' = [session EXCEPT !.inbox_messages = run.data]

Unlocked ==
    /\ Answered("inbox", {"ok"}) /\ run.call.kind = "unlock" /\ Rerun /\ Keeps
    /\ session' = [session EXCEPT !.decrypted_inbox = @ \cup {run.call.of}]

KeptSent ==
    /\ Answered("sent", {"ok"}) /\ Passes /\ Keeps
    /\ session' = [session EXCEPT !.sent_messages = run.data]

DashboardMove ==
    \/ Asked \/ SignedOut \/ AnnounceSend \/ Deleted
    \/ Passed \/ Logged \/ OpenedFile \/ KeptFiles \/ KeptInbox \/ Unlocked \/ KeptSent

LEMMA DashboardMoves ==
    ASSUME RunInv, Dashboard PROVE DashboardMove
  <1> USE DEF RunInv, TypeOK, At, Answered, Failure, Tabs
  <1>1. ASSUME NEW c \in Calls, c.kind \in KindsAt(run.stage), run.stage \in Tabs,
               run.call.kind # "send", Fetch(c) \/ Button(c),
               \/ UNCHANGED session
               \/ session' = [session EXCEPT !.file_inbox_data = NotLoaded]
        PROVE  DashboardMove
    <2>1. run.clicked \in BOOLEAN
      BY DEF Run
    <2>2. \E clicked \in BOOLEAN : Ask(c, clicked)
      BY <1>1, <2>1 DEF Fetch, Button
    <2> QED
      BY <1>1, <2>2 DEF DashboardMove, Asked
  <1>2. ASSUME run.stage \in Tabs, AutoLogout PROVE DashboardMove
    BY <1>2 DEF AutoLogout, DashboardMove, SignedOut
  <1>3. ASSUME NEW stage \in Tabs, Step(stage), run.stage \in Tabs, run.call.kind # "send"
        PROVE  DashboardMove
    <2>1. Passes
      BY <1>3 DEF Step, Passes
    <2> QED
      BY <1>3, <2>1 DEF Step, Keeps, Passed, DashboardMove
  <1>4. run.status = "no" => run.call.kind = "none"
    BY CallTypes DEF RequestsFit
  <1>5. CASE Sidebar
    BY <1>5 DEF Sidebar, DashboardMove, SignedOut
  <1>6. CASE DashboardAccess
    BY <1>6 DEF DashboardAccess, DashboardMove, Logged, Passes, Keeps, Set
  <1>7. CASE UploadTab
    <2>1. run.status # "no" /\ run.stage = "upload" => run.call.kind # "send"
      BY DEF RequestsFit, KindsAt
    <2> QED
      BY <1>1, <1>2, <1>3, <1>4, <1>7, <2>1, CallTypes DEF UploadTab, KindsAt
  <1>8. CASE DownloadTab
    <2>1. run.status # "no" /\ run.stage = "files" => run.call.kind # "send"
      BY DEF RequestsFit, KindsAt
    <2>2. CASE ActiveFile
      <3>1. session.active_file_id \in Files
        BY <2>2 DEF ActiveFile, Session
      <3>2. AfterFiles \in Tabs
        BY DEF AfterFiles
      <3>3. CASE At("files") /\ Set("active_file_id", NoFile) /\ Rerun
                   /\ UNCHANGED <<serverVars, historyVars>>
        BY <3>3 DEF Set, DashboardMove, OpenedFile, Keeps
      <3> QED
        BY <1>1, <1>3, <1>4, <2>1, <2>2, <3>1, <3>2, <3>3, CallTypes DEF ActiveFile, KindsAt
    <2>3. CASE FileList
      <3>1. AfterFiles \in Tabs
        BY DEF AfterFiles
      <3>2. CASE /\ At("files")
                 /\ \/ Fetch(Call("refresh_files", NoId))
                    \/ Button(Call("refresh_files", NoId))
                 /\ Set("file_inbox_data", NotLoaded)
        BY <1>1, <1>4, <3>2, CallTypes DEF Set, KindsAt
      <3>3. CASE /\ Answered("files", {"ok"} \cup Failure)
                 /\ Set("file_inbox_data", run.data)
                 /\ Proceed(AfterFiles)
                 /\ UNCHANGED <<serverVars, historyVars>>
        BY <3>1, <3>3 DEF Set, DashboardMove, KeptFiles, Passes, Keeps
      <3>4. CASE At("files") /\ Step(AfterFiles)
        BY <1>3, <1>4, <3>1, <3>4
      <3>5. ASSUME NEW f \in session.file_inbox_data, session.file_inbox_data # NotLoaded,
                   At("files"), Set("active_file_id", f), Rerun,
                   UNCHANGED <<serverVars, historyVars>>
            PROVE  DashboardMove
        <4>1. f \in Files
          BY <3>5 DEF Session
        <4> QED
          BY <3>5, <4>1 DEF Set, DashboardMove, OpenedFile, Keeps
      <3> QED
        BY <2>3, <3>2, <3>3, <3>4, <3>5 DEF FileList
    <2> QED
      BY <1>2, <1>8, <2>2, <2>3 DEF DownloadTab
  <1>9. CASE SendTab
    <2>1. CASE AnnounceSend
      BY <2>1 DEF DashboardMove
    <2> QED
      BY <1>1, <1>2, <1>3, <1>4, <1>9, <2>1, CallTypes DEF SendTab, KindsAt
  <1>10. CASE InboxTab
    <2>1. run.status # "no" /\ run.stage = "inbox" => run.call.kind # "send"
      BY DEF RequestsFit, KindsAt
    <2>2. session.inbox_messages \subseteq RowIds
      BY DEF Session
    <2>3. CASE RefreshInbox
      <3>1. CASE Answered("inbox", {"ok"})
        <4>1. Passes \/ At("inbox")
          BY <2>3 DEF RefreshInbox, Passes
        <4> QED
          BY <2>3, <3>1, <4>1 DEF RefreshInbox, Set, DashboardMove, KeptInbox, Keeps
      <3> QED
        BY <1>1, <1>4, <2>3, <3>1, CallTypes DEF RefreshInbox, KindsAt
    <2>4. CASE Unlock
      <3>1. CASE Answered("inbox", {"ok"})
        BY <2>4, <3>1 DEF Unlock, Set, DashboardMove, Unlocked, Keeps
      <3> QED
        BY <1>1, <1>4, <2>2, <2>4, <3>1, CallTypes DEF Unlock, KindsAt
    <2>5. ASSUME NEW m \in session.inbox_messages, At("inbox"),
                 Button(Call("delete", m)), UNCHANGED session
          PROVE  DashboardMove
      BY <1>1, <1>4, <2>2, <2>5, CallTypes DEF KindsAt
    <2>6. CASE Deleted
      BY <2>6 DEF DashboardMove
    <2>7. CASE (At("inbox") \/ Answered("inbox", Failure)) /\ Step("sent")
      BY <1>3, <1>4, <2>1, <2>7
    <2>8. CASE run.stage = "inbox" /\ AutoLogout
      BY <1>2, <2>8
    <2> QED
      BY <1>10, <2>3, <2>4, <2>5, <2>6, <2>7, <2>8 DEF InboxTab
  <1>11. CASE SentTab
    <2>1. run.status # "no" /\ run.stage = "sent" => run.call.kind # "send"
      BY DEF RequestsFit, KindsAt
    <2>2. CASE At("sent") /\ Button(Call("refresh_sent", NoId)) /\ UNCHANGED session
      BY <1>1, <1>4, <2>2, CallTypes DEF KindsAt
    <2>3. CASE /\ At("sent") \/ Answered("sent", Failure)
               /\ Stop /\ UNCHANGED <<serverVars, session, historyVars>>
      BY <1>4, <2>1, <2>3 DEF Stop, DashboardMove, Passed, Passes, Keeps
    <2>4. CASE /\ Answered("sent", {"ok"})
               /\ Set("sent_messages", run.data)
               /\ Stop /\ UNCHANGED <<serverVars, historyVars>>
      BY <2>4 DEF Stop, Set, DashboardMove, KeptSent, Passes, Keeps
    <2>5. CASE run.stage = "sent" /\ AutoLogout
      BY <1>2, <2>5
    <2> QED
      BY <1>11, <2>2, <2>3, <2>4, <2>5 DEF SentTab
  <1> QED
    BY <1>5, <1>6, <1>7, <1>8, <1>9, <1>10, <1>11 DEF Dashboard

-----------------------------------------------------------------------------
(* The messages, and what a request does to them                           *)

Numbered == \E n \in 0 .. MaxId : Stored = 1 .. n

MailMoves ==
    \/ UNCHANGED box
    \/ \E s, r \in Ids : Post(s, r)
    \/ \E u \in Ids, m \in RowIds : Remove(u, m)

\* Stored messages stay, nothing but their flag changes, and that only once.
RowsStay ==
    \A m \in Stored :
        /\ m \in Stored' /\ box'[m].sender = box[m].sender
        /\ box'[m].receiver = box[m].receiver
        /\ box[m].deleted => box'[m].deleted

LEMMA NextIdIsNew ==
    ASSUME Numbered
    PROVE  /\ Cardinality(Stored) \in Nat /\ Cardinality(Stored) <= MaxId
           /\ NextId # 0 =>
                 /\ NextId = Cardinality(Stored) + 1
                 /\ NextId \in RowIds \ Stored /\ Stored \cup {NextId} = 1 .. NextId
                 /\ Cardinality(Stored \cup {NextId}) = NextId
  <1>1. PICK n \in 0 .. MaxId : Stored = 1 .. n
    BY DEF Numbered
  <1>2. Cardinality(Stored) = n
    BY <1>1, FS_Interval, Limits
  <1>3. n # MaxId => 1 .. n # 1 .. MaxId /\ n + 1 \in 1 .. MaxId
    BY Limits
  <1>4. NextId # 0 => NextId = n + 1 /\ n # MaxId
    BY <1>1, <1>2 DEF NextId, RowIds
  <1>5. (1 .. n) \cup {n + 1} = 1 .. (n + 1) /\ n + 1 \notin 1 .. n
    BY Limits
  <1>6. Cardinality(1 .. (n + 1)) = n + 1
    BY FS_Interval, Limits
  <1>7. ASSUME NextId # 0
        PROVE  /\ NextId = Cardinality(Stored) + 1
               /\ NextId \in RowIds \ Stored /\ Stored \cup {NextId} = 1 .. NextId
               /\ Cardinality(Stored \cup {NextId}) = NextId
    <2>1. NextId = n + 1 /\ n + 1 \in 1 .. MaxId
      BY <1>3, <1>4, <1>7
    <2>2. Stored \cup {NextId} = 1 .. NextId
      BY <1>1, <1>5, <2>1
    <2> QED
      BY <1>1, <1>2, <1>5, <1>6, <2>1, <2>2 DEF RowIds
  <1> QED
    BY <1>2, <1>7, Limits

LEMMA PostAdds ==
    ASSUME box \in [RowIds -> Row \cup {NoRow}], Numbered,
           NEW s \in Ids, NEW r \in Ids, Post(s, r)
    PROVE  /\ box' \in [RowIds -> Row \cup {NoRow}] /\ Numbered' /\ RowsStay
           /\ Cardinality(Stored') = Cardinality(Stored) + 1
  <1> DEFINE id == NextId
  <1>1. /\ id = Cardinality(Stored) + 1 /\ id \in RowIds \ Stored
        /\ Stored \cup {id} = 1 .. id /\ Cardinality(Stored \cup {id}) = id
    BY NextIdIsNew DEF Post
  <1>2. box' = [box EXCEPT ![id] = [sender |-> s, receiver |-> r, deleted |-> FALSE]]
    BY DEF Post
  <1>3. [sender |-> s, receiver |-> r, deleted |-> FALSE] \in Row
    BY DEF Row
  <1> HIDE DEF id
  <1>4. Stored' = Stored \cup {id}
    BY <1>1, <1>2, <1>3, NoRowIsNotARow DEF Stored
  <1>5. RowsStay
    <2>1. \A m \in Stored : m \in RowIds /\ m # id /\ box'[m] = box[m]
      BY <1>1, <1>2 DEF Stored
    <2> QED
      BY <1>4, <2>1 DEF RowsStay
  <1>6. id \in 0 .. MaxId
    BY <1>1, Limits DEF RowIds
  <1>7. Numbered'
    BY <1>1, <1>4, <1>6 DEF Numbered
  <1> QED
    BY <1>1, <1>2, <1>3, <1>4, <1>5, <1>7

LEMMA RemoveKeeps ==
    ASSUME box \in [RowIds -> Row \cup {NoRow}], Numbered,
           NEW u \in Ids, NEW m \in RowIds, Remove(u, m)
    PROVE  /\ box' \in [RowIds -> Row \cup {NoRow}] /\ Numbered' /\ RowsStay
           /\ Stored' = Stored /\ m \in Stored /\ box'[m].deleted
  <1>1. /\ box' = [box EXCEPT ![m].deleted = TRUE] /\ m \in Stored
    BY DEF Remove, MayDelete, Found
  <1>2. box[m] \in Row
    BY <1>1 DEF Stored
  <1>3. [box[m] EXCEPT !.deleted = TRUE] \in Row
    BY <1>2 DEF Row
  <1>4. /\ box'[m] = [box[m] EXCEPT !.deleted = TRUE]
        /\ \A k \in RowIds \ {m} : box'[k] = box[k]
        /\ box' \in [RowIds -> Row \cup {NoRow}]
    BY <1>1, <1>3
  <1>5. Stored' = Stored
    BY <1>1, <1>3, <1>4, NoRowIsNotARow DEF Stored
  <1>6. /\ box'[m].sender = box[m].sender /\ box'[m].receiver = box[m].receiver
        /\ box'[m].deleted
    BY <1>2, <1>4 DEF Row
  <1>7. RowsStay
    BY <1>4, <1>5, <1>6 DEF RowsStay, Stored
  <1> QED
    BY <1>1, <1>4, <1>5, <1>6, <1>7 DEF Numbered

LEMMA MailStays ==
    ASSUME box \in [RowIds -> Row \cup {NoRow}], Numbered, MailMoves
    PROVE  box' \in [RowIds -> Row \cup {NoRow}] /\ Numbered' /\ RowsStay
  <1>1. CASE UNCHANGED box
    BY <1>1 DEF Numbered, RowsStay, Stored
  <1> QED
    BY <1>1, PostAdds, RemoveKeeps DEF MailMoves

\* What a request leaves behind and what comes back from it.
Outcome(c, clicked, status, data) ==
    /\ run' = [run EXCEPT !.clicked = clicked, !.call = c,
                          !.status = status, !.data = data]
    /\ files' \in [Files -> Ids \cup {NoId}] /\ MailMoves
    /\ status # "ok" => data = {}
    /\ status = "ok" => data = Data(User, c) /\ Serve(User, c)
    /\ status = "ok" /\ c # Directory => User \in Ids /\ Accepts(User, c)
    /\ \/ UNCHANGED sends /\ ~ (c.kind = "send" /\ status = "ok")
       \/ /\ c.kind = "send" /\ status # "unauthorized"
          /\ User \in Ids /\ c.of \in Ids /\ Post(User, c.of)
          /\ sends' = [sends EXCEPT !.unannounced = @ + 1]
    /\ UNCHANGED <<failed, erased, cut>>

LEMMA AskServes ==
    ASSUME TypeOK, PageFits, NEW c \in Calls, NEW clicked \in BOOLEAN, Ask(c, clicked)
    PROVE  \E status \in Statuses \ {"no"}, data \in {{}, Data(User, c)} :
             Outcome(c, clicked, status, data)
  <1>1. PICK status \in Statuses \ {"no"} :
          \E data \in {{}, Data(User, c)} :
             /\ Request(c, status, data)
             /\ run' = [run EXCEPT !.clicked = clicked, !.call = c,
                                   !.status = status, !.data = data]
    BY DEF Ask, User
  <1>2. PICK data \in {{}, Data(User, c)} :
             /\ Request(c, status, data)
             /\ run' = [run EXCEPT !.clicked = clicked, !.call = c,
                                   !.status = status, !.data = data]
    BY <1>1
  <1> DEFINE granted == LetIn(session.token, c) /\ Accepts(User, c)
             served == granted /\ Serve(User, c)
  <1>3. /\ status # "ok" => data = {}
        /\ status = "ok" => data = Data(User, c) /\ served
        /\ (served /\ status # "unauthorized") \/ (Untouched /\ status # "ok")
    BY <1>2 DEF Request, User
  <1>4. LetIn(session.token, c) /\ c # Directory => User \in Ids
    BY DEF LetIn, Authorised, User
  <1>5. Serve(User, c) /\ c = Directory => Untouched
    BY CallTypes DEF Serve, Untouched
  <1>6. ASSUME served
        PROVE  /\ files' \in [Files -> Ids \cup {NoId}] /\ MailMoves
               /\ \/ UNCHANGED sends /\ c.kind # "send"
                  \/ /\ c.kind = "send"
                     /\ User \in Ids /\ c.of \in Ids /\ Post(User, c.of)
                     /\ sends' = [sends EXCEPT !.unannounced = @ + 1]
    <2>1. CASE c.kind = "send"
      <3>1. User \in Ids /\ c.of \in Ids
        BY <1>4, <1>6, <2>1, CallTypes
      <3> QED
        BY <1>6, <2>1, <3>1 DEF Serve, TypeOK, MailMoves
    <2>2. CASE c.kind = "delete"
      <3>1. User \in Ids /\ c.of \in RowIds
        BY <1>4, <1>6, <2>2, CallTypes
      <3> QED
        BY <1>6, <2>2, <3>1 DEF Serve, TypeOK, MailMoves
    <2>3. CASE c.kind = "upload"
      BY <1>6, <2>3 DEF Serve, TypeOK, MailMoves
    <2>4. CASE c.kind \notin {"send", "delete", "upload"}
      BY <1>6, <2>4 DEF Serve, TypeOK, MailMoves
    <2> QED
      BY <2>1, <2>2, <2>3, <2>4
  <1>7. Untouched => /\ files' \in [Files -> Ids \cup {NoId}] /\ MailMoves
                     /\ UNCHANGED sends
    BY DEF Untouched, TypeOK, MailMoves
  <1>8. UNCHANGED <<failed, erased, cut>>
    BY DEF Ask
  <1>9. /\ files' \in [Files -> Ids \cup {NoId}] /\ MailMoves
        /\ \/ UNCHANGED sends /\ ~ (c.kind = "send" /\ status = "ok")
           \/ /\ c.kind = "send" /\ status # "unauthorized"
              /\ User \in Ids /\ c.of \in Ids /\ Post(User, c.of)
              /\ sends' = [sends EXCEPT !.unannounced = @ + 1]
    BY <1>3, <1>6, <1>7
  <1>10. status = "ok" /\ c # Directory => User \in Ids /\ Accepts(User, c)
    BY <1>3, <1>4
  <1> HIDE DEF granted
  <1> QED
    BY <1>2, <1>3, <1>8, <1>9, <1>10 DEF Outcome

-----------------------------------------------------------------------------
(* The login limiter                                                       *)

\* While nothing is locked every failure shown in the window is counted; what is
\* locked stays locked until all of them have left the window.
LimitInv ==
    /\ IsFiniteSet(failed)
    /\ session.locked = 0 => Cardinality(failed) <= session.login_attempts
    /\ session.locked > 0 =>
          /\ Cardinality(failed) <= MaxAttempts
          /\ \A f \in failed : f.age + session.locked >= Lockout

LEMMA LimitKept ==
    ASSUME LimitInv, UNCHANGED failed, session'.locked = session.locked,
           session'.login_attempts = session.login_attempts
    PROVE  LimitInv'
  BY DEF LimitInv

LEMMA LimitBounds ==
    ASSUME TypeOK, LimitInv
    PROVE  Cardinality(failed) \in Nat /\ Cardinality(failed) <= MaxAttempts
  BY FS_CardinalityType, Limits DEF TypeOK, Session, LimitInv

\* There is always a number for one more failure.
LEMMA SomeNrIsUnused ==
    ASSUME TypeOK, LimitInv
    PROVE  UnusedNr \in 1 .. MaxAttempts + 1 /\ \A f \in failed : f.nr # UnusedNr
  <1> DEFINE used == {f.nr : f \in failed}
             nr == [f \in failed |-> f.nr]
  <1>1. nr \in Surjection(failed, used)
    BY DEF Surjection
  <1>2. IsFiniteSet(used) /\ Cardinality(used) <= Cardinality(failed)
    BY <1>1, FS_Surjection DEF LimitInv
  <1>3. Cardinality(used) \in Nat
    BY <1>2, FS_CardinalityType
  <1>4. Cardinality(1 .. MaxAttempts + 1) = MaxAttempts + 1
    BY FS_Interval, Limits
  <1>5. ~ (1 .. MaxAttempts + 1 \subseteq used)
    <2> HIDE DEF used
    <2>1. 1 .. MaxAttempts + 1 \subseteq used =>
            Cardinality(1 .. MaxAttempts + 1) <= Cardinality(used)
      BY <1>2, FS_Subset
    <2> QED
      BY <1>2, <1>3, <1>4, <2>1, LimitBounds, Limits
  <1>6. \E n \in 1 .. MaxAttempts + 1 : \A f \in failed : f.nr # n
    BY <1>5
  <1> QED
    BY <1>6 DEF UnusedNr

LEMMA FailureCounts ==
    ASSUME TypeOK, PageFits, LimitInv, RecordLoginFailure
    PROVE  /\ session' \in Session /\ session'.token = session.token
           /\ failed' \subseteq LoginFailure /\ LimitInv'
  <1> DEFINE new == [nr |-> UnusedNr, age |-> 0]
  <1>1. /\ run.stage = "auth" /\ run.status = "refused"
        /\ session' = [session EXCEPT !.login_attempts = session.login_attempts + 1]
        /\ failed' \in {failed, failed \cup {new}}
    BY DEF RecordLoginFailure, Answered, Set
  <1>2. session.locked = 0 /\ session.login_attempts < MaxAttempts
    <2>1. session.locked \in 0 .. Lockout /\ session.login_attempts \in 0 .. MaxAttempts
      BY DEF TypeOK, Session
    <2> QED
      BY <1>1, <2>1, Limits DEF PageFits, RateLimited
  <1>3. new \in LoginFailure
    BY SomeNrIsUnused, Limits DEF LoginFailure
  <1>4. /\ session' \in Session /\ session'.token = session.token
        /\ session'.locked = 0
        /\ session'.login_attempts = session.login_attempts + 1
    BY <1>1, <1>2, Limits DEF TypeOK, Session
  <1> HIDE DEF new
  <1>5. IsFiniteSet(failed) /\ Cardinality(failed) \in Nat
    BY FS_CardinalityType DEF LimitInv
  <1>6. /\ IsFiniteSet(failed \cup {new})
        /\ Cardinality(failed \cup {new})
              = IF new \in failed THEN Cardinality(failed) ELSE Cardinality(failed) + 1
    BY ONLY <1>5, FS_AddElement
  <1>7. Cardinality(failed \cup {new}) <= Cardinality(failed) + 1
    BY ONLY <1>5, <1>6
  <1>8. Cardinality(failed') <= session'.login_attempts
    <2>1. session.login_attempts \in Nat /\ Cardinality(failed) <= session.login_attempts
      BY <1>2, Limits DEF TypeOK, Session, LimitInv
    <2>2. Cardinality(failed \cup {new}) \in Nat
      BY <1>6, FS_CardinalityType
    <2>3. Cardinality(failed') <= Cardinality(failed) + 1
      BY <1>1, <1>5, <1>7
    <2>4. Cardinality(failed') \in Nat
      BY <1>1, <1>5, <2>2
    <2> QED
      BY <1>4, <1>5, <2>1, <2>3, <2>4
  <1>9. IsFiniteSet(failed') /\ failed' \subseteq LoginFailure
    BY <1>1, <1>3, <1>5, <1>6 DEF TypeOK
  <1> QED
    BY <1>4, <1>8, <1>9 DEF LimitInv

LEMMA TickCounts ==
    ASSUME TypeOK, PageFits, LimitInv, Tick
    PROVE  /\ session' \in Session /\ session'.token.user = User
           /\ User = NoId => session'.token = NoToken
           /\ \E token \in Token, locked \in 0 .. Lockout :
                 session' = [session EXCEPT !.token = token, !.locked = locked]
           /\ session.locked = 0 => session'.locked = 0
           /\ failed' \subseteq LoginFailure /\ LimitInv'
  <1>1. session.token \in Token /\ session.locked \in 0 .. Lockout
    BY DEF TypeOK, Session
  <1> DEFINE age == IF session.token # NoToken /\ session.token.age <= TokenLife
                    THEN session.token.age + 1 ELSE session.token.age
             token == [session.token EXCEPT !.age = age]
             locked == IF session.locked > 0 THEN session.locked - 1 ELSE session.locked
             old == {g \in failed : g.age + 1 < Lockout}
             older(f) == [f EXCEPT !.age = @ + 1]
             aged == [f \in old |-> older(f)]
  <1>2. session' = [session EXCEPT !.token = token, !.locked = locked]
    BY DEF Tick, TypeOK, Session
  <1>3. /\ token \in Token /\ token.user = User
        /\ User = NoId => token = NoToken
    BY <1>1, Limits DEF Token, NoToken, User, PageFits
  <1>4. locked \in 0 .. Lockout
    BY <1>1, Limits
  <1>5. /\ session' \in Session /\ session'.token = token /\ session'.locked = locked
        /\ session'.login_attempts = session.login_attempts
    <2> HIDE DEF token, locked
    <2> QED
      BY <1>2, <1>3, <1>4 DEF TypeOK, Session
  <1>6. failed' = {older(f) : f \in old}
    BY DEF Tick
  <1>7. \A f \in old : /\ older(f) \in LoginFailure
                       /\ older(f).age = f.age + 1 /\ older(f).age < Lockout
    BY Limits DEF TypeOK, LoginFailure
  <1>8. IsFiniteSet(failed') /\ Cardinality(failed') <= Cardinality(failed)
    <2>1. IsFiniteSet(failed) /\ old \in SUBSET failed
      BY DEF LimitInv
    <2>2. IsFiniteSet(old) /\ Cardinality(old) <= Cardinality(failed)
      BY <2>1, FS_Subset
    <2>3. aged \in Surjection(old, failed')
      BY <1>6 DEF Surjection
    <2>4. IsFiniteSet(failed') /\ Cardinality(failed') <= Cardinality(old)
      BY <2>2, <2>3, FS_Surjection
    <2>5. /\ Cardinality(failed') \in Nat /\ Cardinality(old) \in Nat
          /\ Cardinality(failed) \in Nat
      BY <2>1, <2>2, <2>4, FS_CardinalityType
    <2> QED
      BY <2>2, <2>4, <2>5
  <1>9. Cardinality(failed') \in Nat /\ Cardinality(failed) \in Nat
    BY <1>8, FS_CardinalityType DEF LimitInv
  <1>10. session.login_attempts \in Nat
    BY Limits DEF TypeOK, Session
  <1>11. ASSUME session.locked = 0 PROVE LimitInv'
    BY <1>1, <1>5, <1>8, <1>9, <1>10, <1>11 DEF LimitInv
  <1>12. ASSUME session.locked = 1 PROVE LimitInv'
    <2>1. old = {}
      BY <1>12, Limits DEF LimitInv, TypeOK, LoginFailure
    <2>2. Cardinality(failed') = 0
      BY <1>6, <2>1, FS_EmptySet
    <2> QED
      BY <1>1, <1>5, <1>8, <1>10, <1>12, <2>2 DEF LimitInv
  <1>13. ASSUME session.locked > 1 PROVE LimitInv'
    <2>1. locked = session.locked - 1 /\ locked > 0 /\ locked \in Nat
      BY <1>1, <1>13, Limits
    <2>2. ASSUME NEW g \in failed' PROVE g.age + locked >= Lockout
      <3>1. PICK f \in old : g = older(f)
        BY <1>6
      <3>2. g.age = f.age + 1 /\ f.age \in Nat
        BY <1>7, <3>1, Limits DEF TypeOK, LoginFailure
      <3>3. f.age + session.locked >= Lockout
        BY <1>1, <1>13, Limits DEF LimitInv
      <3> QED
        BY <1>1, <2>1, <3>2, <3>3, Limits
    <2>3. Cardinality(failed) <= MaxAttempts
      BY <1>1, <1>13, Limits DEF LimitInv
    <2>4. Cardinality(failed') <= MaxAttempts
      BY <1>8, <1>9, <2>3, Limits
    <2> HIDE DEF locked
    <2> QED
      BY <1>5, <1>8, <2>1, <2>2, <2>3, <2>4 DEF LimitInv
  <1>14. LimitInv'
    BY <1>1, <1>11, <1>12, <1>13, Limits
  <1>15. failed' \subseteq LoginFailure
    BY <1>6, <1>7
  <1>16. session.locked = 0 => locked = 0
    OBVIOUS
  <1> HIDE DEF token, locked
  <1> QED
    BY <1>2, <1>3, <1>4, <1>5, <1>14, <1>15, <1>16

-----------------------------------------------------------------------------
(* The types and the page, step by step                                    *)

Base == RunInv /\ Numbered /\ LimitInv

\* What the server keeps and the histories that have no invariant of their own here.
Rest ==
    /\ box \in [RowIds -> Row \cup {NoRow}] /\ Numbered
    /\ files \in [Files -> Ids \cup {NoId}]
    /\ sends \in [unannounced : Int, doubt : 0 .. MaxId]
    /\ erased \subseteq RowIds /\ cut \in BOOLEAN

LEMMA RestKept ==
    ASSUME Rest, UNCHANGED <<box, files, sends, erased, cut>> PROVE Rest'
  BY DEF Rest, Numbered, Stored

LEMMA CountsAreTyped ==
    ASSUME sends \in [unannounced : Int, doubt : 0 .. MaxId]
    PROVE  /\ InDoubt \in [unannounced : Int, doubt : 0 .. MaxId]
           /\ [sends EXCEPT !.unannounced = @ + 1]
                 \in [unannounced : Int, doubt : 0 .. MaxId]
           /\ [sends EXCEPT !.unannounced = @ - 1]
                 \in [unannounced : Int, doubt : 0 .. MaxId]
  BY Limits DEF InDoubt

\* A run that starts, or has ended, fits any session.
LEMMA NewRunFits ==
    ASSUME session' \in Session, session'.token.user = NoId => session'.token = NoToken,
           \/ run' = Idle
           \/ \E clicked \in BOOLEAN : run' = Fresh(clicked, session'.token)
    PROVE  run' \in Run /\ RequestsFit' /\ PageFits'
  <1>1. PICK clicked \in BOOLEAN, stage \in {"idle", "auth", "sidebar"} :
          /\ run' = [stage |-> stage, clicked |-> clicked, call |-> NoCall,
                     status |-> "no", data |-> {}]
          /\ stage = "auth" => session'.token = NoToken
          /\ stage = "sidebar" => session'.token # NoToken
    BY DEF Idle, Fresh
  <1>2. run' \in Run
    BY <1>1, CallTypes DEF Run, Stages, Statuses
  <1>3. RequestsFit'
    BY <1>1, CallTypes DEF RequestsFit
  <1>4. PageFits'
    BY <1>1 DEF PageFits, User, Tabs, NoToken
  <1> QED
    BY <1>2, <1>3, <1>4

\* So does a run that proceeds to the next part of the dashboard.
LEMMA PassingFits ==
    ASSUME RunInv, run.stage \in Tabs, Passes, session' \in Session,
           session'.token = session.token
    PROVE  run' \in Run /\ RequestsFit' /\ PageFits'
  <1>1. CASE run' = Idle
    BY <1>1, NewRunFits DEF RunInv, PageFits, User
  <1>2. ASSUME NEW stage \in Tabs, Proceed(stage)
        PROVE  run' \in Run /\ RequestsFit' /\ PageFits'
    <2>1. /\ run' \in Run /\ run'.stage = stage /\ run'.status = "no"
          /\ run'.call = NoCall /\ run'.data = {}
      BY <1>2, CallTypes DEF Proceed, RunInv, TypeOK, Run, Stages, Statuses, Tabs
    <2>2. RequestsFit'
      BY <2>1, CallTypes DEF RequestsFit
    <2>3. PageFits'
      BY <2>1 DEF RunInv, PageFits, User, Tabs
    <2> QED
      BY <2>1, <2>2, <2>3
  <1> QED
    BY <1>1, <1>2 DEF Passes

LEMMA AskedBase ==
    ASSUME Base, Rest, Asked PROVE Base' /\ Rest'
  <1> USE DEF Base, RunInv, TypeOK
  <1>1. PICK c \in Calls, clicked \in BOOLEAN :
          c.kind \in KindsAt(run.stage) /\ Ask(c, clicked)
    BY DEF Asked
  <1>2. PICK status \in Statuses \ {"no"}, data \in {{}, Data(User, c)} :
             Outcome(c, clicked, status, data)
    BY <1>1, AskServes
  <1>3. IF c.kind \in {"refresh_inbox", "refresh_sent"}
        THEN data \subseteq RowIds ELSE data \subseteq Files
    <2>1. Inbox(User) \subseteq RowIds /\ Sent(User) \subseteq RowIds
      BY DEF Inbox, Sent, Stored
    <2>2. /\ c.kind = "refresh_inbox" => Data(User, c) = Inbox(User)
          /\ c.kind = "refresh_sent" => Data(User, c) = Sent(User)
          /\ c.kind \notin {"refresh_inbox", "refresh_sent"} =>
                Data(User, c) \subseteq Files
      BY DEF Data
    <2> QED
      BY <2>1, <2>2
  <1>4. /\ run' \in Run /\ run'.stage = run.stage /\ run'.call = c
        /\ run'.status = status /\ run'.data = data /\ status # "no"
    BY <1>2, <1>3 DEF Run, Outcome
  <1>5. /\ session' \in Session /\ session'.token = session.token
        /\ session'.login_attempts = session.login_attempts
        /\ session'.locked = session.locked
    BY DEF Asked, Session
  <1>6. RequestsFit'
    BY <1>1, <1>3, <1>4 DEF RequestsFit
  <1>7. PageFits'
    BY <1>4, <1>5 DEF PageFits, User, Asked, Tabs
  <1>8. LimitInv'
    BY <1>2, <1>5, LimitKept DEF Outcome
  <1>9. Rest'
    BY <1>2, MailStays, CountsAreTyped DEF Rest, Outcome
  <1> QED
    BY <1>2, <1>4, <1>5, <1>6, <1>7, <1>8, <1>9 DEF Rest, Outcome

LEMMA DashboardBase ==
    ASSUME Base, Rest, Dashboard PROVE Base' /\ Rest'
  <1> USE DEF Base, RunInv
  <1>1. ASSUME session' \in Session, UNCHANGED failed, Rest',
               session'.login_attempts = session.login_attempts,
               session'.locked = session.locked,
               run' \in Run /\ RequestsFit' /\ PageFits'
        PROVE  Base' /\ Rest'
    BY <1>1, LimitKept DEF Rest, TypeOK
  <1>2. run.stage \in Tabs => (User = NoId => session.token = NoToken)
    BY DEF PageFits
  <1>3. ASSUME Keeps, session' \in Session, session'.token = session.token,
               session'.login_attempts = session.login_attempts,
               session'.locked = session.locked,
               \/ run.stage \in Tabs /\ Passes
               \/ Rerun
        PROVE  Base' /\ Rest'
    <2>1. UNCHANGED <<box, files, failed, sends, erased, cut>>
      BY <1>3 DEF Keeps, serverVars, historyVars
    <2>2. session'.token.user = NoId => session'.token = NoToken
      BY <1>3 DEF PageFits, User
    <2>3. run' \in Run /\ RequestsFit' /\ PageFits'
      BY <1>3, <2>2, NewRunFits, PassingFits DEF Rerun
    <2> QED
      BY <1>1, <1>3, <2>1, <2>3, RestKept
  <1>4. CASE SignedOut
    <2>1. PICK n \in 1 .. Len(LogoutKeys) :
            session' = Cleared(n) /\ cut' = (n < Len(LogoutKeys))
      BY <1>4 DEF SignedOut, SignOut
    <2>2. run' = Idle /\ UNCHANGED <<box, files, failed, sends, erased>>
      BY <1>4 DEF SignedOut, SignOut, Stop, serverVars
    <2>3. /\ session' \in Session /\ session'.token = NoToken
          /\ session'.login_attempts = session.login_attempts
          /\ session'.locked = session.locked
      BY <2>1, ClearedIsSession DEF TypeOK
    <2>4. run' \in Run /\ RequestsFit' /\ PageFits'
      BY <2>2, <2>3, NewRunFits
    <2>5. Rest'
      BY <2>1, <2>2 DEF Rest, Numbered, Stored
    <2> QED
      BY <1>1, <2>2, <2>3, <2>4, <2>5
  <1>5. CASE AnnounceSend
    <2>1. /\ run.stage \in Tabs /\ Passes
          /\ UNCHANGED <<box, files, session, failed, erased, cut>>
          /\ \/ sends' = InDoubt
             \/ sends' = [sends EXCEPT !.unannounced = @ - 1]
      BY <1>5 DEF AnnounceSend, Answered, Tabs, Passes, serverVars
    <2>2. Rest'
      BY <2>1, CountsAreTyped DEF Rest, Numbered, Stored
    <2> QED
      BY <1>1, <2>1, <2>2, PassingFits DEF TypeOK
  <1>6. CASE Deleted
    <2>1. /\ run.stage = "inbox" /\ run.call.kind = "delete" /\ run.call \in Calls
      BY <1>6 DEF Deleted, Answered, TypeOK, Run
    <2>2. /\ run' = Idle \/ run' = Fresh(FALSE, session'.token)
          /\ UNCHANGED <<box, files, failed, sends, cut>>
          /\ erased' \in {erased, erased \cup {run.call.of}}
      BY <1>6 DEF Deleted, Stop, Rerun, serverVars
    <2>3. PICK inbox \in SUBSET RowIds, plain \in SUBSET RowIds :
            session' = [session EXCEPT !.decrypted_inbox = plain, !.inbox_messages = inbox]
      <3>1. /\ session.inbox_messages \in SUBSET RowIds
            /\ session.decrypted_inbox \in SUBSET RowIds
        BY DEF TypeOK, Session
      <3>2. \/ session' = [session EXCEPT !.decrypted_inbox = @ \ {run.call.of}]
            \/ session' = [[session EXCEPT !.decrypted_inbox = @ \ {run.call.of}]
                              EXCEPT !.inbox_messages = @ \ {run.call.of}]
        BY <1>6 DEF Deleted
      <3>3. CASE session' = [session EXCEPT !.decrypted_inbox = @ \ {run.call.of}]
        <4>1. session' = [session EXCEPT !.decrypted_inbox = @ \ {run.call.of},
                                         !.inbox_messages = session.inbox_messages]
          BY <3>3 DEF TypeOK, Session
        <4> QED
          BY <3>1, <4>1
      <3>4. CASE session' = [[session EXCEPT !.decrypted_inbox = @ \ {run.call.of}]
                              EXCEPT !.inbox_messages = @ \ {run.call.of}]
        <4>1. session' = [session EXCEPT !.decrypted_inbox = @ \ {run.call.of},
                                         !.inbox_messages = @ \ {run.call.of}]
          BY <3>4 DEF TypeOK, Session
        <4> QED
          BY <3>1, <4>1
      <3> QED
        BY <3>2, <3>3, <3>4
    <2>4. /\ session' \in Session /\ session'.token = session.token
          /\ session'.login_attempts = session.login_attempts
          /\ session'.locked = session.locked
      BY <2>3 DEF TypeOK, Session
    <2>5. Rest'
      BY <2>1, <2>2, CallTypes DEF Rest, Numbered, Stored
    <2>6. session'.token.user = NoId => session'.token = NoToken
      BY <2>4 DEF PageFits, User
    <2>7. run' \in Run /\ RequestsFit' /\ PageFits'
      BY <2>2, <2>4, <2>6, NewRunFits
    <2> QED
      BY <1>1, <2>2, <2>4, <2>5, <2>7
  <1>7. CASE Passed
    BY <1>3, <1>7 DEF Passed, TypeOK
  <1>8. CASE Logged
    <2>1. Audited \in SUBSET Ids
      BY DEF Audited, TypeOK, Session
    <2>2. /\ session' \in Session /\ session'.token = session.token
          /\ session'.login_attempts = session.login_attempts
          /\ session'.locked = session.locked
      BY <1>8, <2>1 DEF Logged, TypeOK, Session
    <2> QED
      BY <1>3, <1>8, <2>2 DEF Logged, At, Tabs
  <1>9. CASE OpenedFile
    <2>1. /\ session' \in Session /\ session'.token = session.token
          /\ session'.login_attempts = session.login_attempts
          /\ session'.locked = session.locked
      BY <1>9 DEF OpenedFile, TypeOK, Session
    <2> QED
      BY <1>3, <1>9, <2>1 DEF OpenedFile
  <1>10. CASE KeptFiles
    <2>1. run.data \in SUBSET Files
      BY <1>10 DEF KeptFiles, RequestsFit, KindsAt
    <2>2. /\ session' \in Session /\ session'.token = session.token
          /\ session'.login_attempts = session.login_attempts
          /\ session'.locked = session.locked
      BY <1>10, <2>1 DEF KeptFiles, TypeOK, Session
    <2> QED
      BY <1>3, <1>10, <2>2 DEF KeptFiles, Tabs
  <1>11. CASE KeptInbox
    <2>1. run.data \in SUBSET RowIds
      BY <1>11 DEF KeptInbox, RequestsFit
    <2>2. /\ session' \in Session /\ session'.token = session.token
          /\ session'.login_attempts = session.login_attempts
          /\ session'.locked = session.locked
      BY <1>11, <2>1 DEF KeptInbox, TypeOK, Session
    <2> QED
      BY <1>3, <1>11, <2>2 DEF KeptInbox, Answered, Tabs
  <1>12. CASE Unlocked
    <2>1. run.call.of \in RowIds
      BY <1>12, CallTypes DEF Unlocked, TypeOK, Run
    <2>2. /\ session' \in Session /\ session'.token = session.token
          /\ session'.login_attempts = session.login_attempts
          /\ session'.locked = session.locked
      BY <1>12, <2>1 DEF Unlocked, TypeOK, Session
    <2> QED
      BY <1>3, <1>12, <2>2 DEF Unlocked
  <1>13. CASE KeptSent
    <2>1. run.data \in SUBSET RowIds
      BY <1>13 DEF KeptSent, RequestsFit, KindsAt, Answered
    <2>2. /\ session' \in Session /\ session'.token = session.token
          /\ session'.login_attempts = session.login_attempts
          /\ session'.locked = session.locked
      BY <1>13, <2>1 DEF KeptSent, TypeOK, Session
    <2> QED
      BY <1>3, <1>13, <2>2 DEF KeptSent, Answered, Tabs
  <1> QED
    BY <1>4, <1>5, <1>6, <1>7, <1>8, <1>9, <1>10, <1>11, <1>12, <1>13,
       AskedBase, DashboardMoves
    DEF DashboardMove

LEMMA AuthBase ==
    ASSUME Base, Rest, AuthPage PROVE Base' /\ Rest'
  <1> USE DEF Base, RunInv
  <1>1. UNCHANGED <<box, files, sends, erased, cut>>
    BY DEF AuthPage, CheckLoginRateLimit, AskLogin, RecordLoginFailure, LoggedIn,
           LeaveAuth, serverVars, historyVars
  <1>2. Rest'
    BY <1>1, RestKept
  <1>3. run.stage = "auth" /\ User = NoId /\ session.token = NoToken
    BY DEF AuthPage, CheckLoginRateLimit, AskLogin, RecordLoginFailure, LoggedIn,
           LeaveAuth, At, Answered, PageFits
  <1>4. ASSUME session' \in Session, session'.token.user = NoId => session'.token = NoToken,
               failed' \subseteq LoginFailure, LimitInv', Stop \/ Rerun
        PROVE  Base' /\ Rest'
    <2>1. run' \in Run /\ RequestsFit' /\ PageFits'
      BY <1>4, NewRunFits DEF Stop, Rerun
    <2> QED
      BY <1>2, <1>4, <2>1 DEF Rest, TypeOK
  <1>5. CASE CheckLoginRateLimit
    <2>1. session.locked \in 0 .. Lockout /\ session.login_attempts \in 0 .. MaxAttempts
      BY DEF TypeOK, Session
    <2>2. CASE session.locked > 0
      BY <1>3, <1>4, <1>5, <2>2
      DEF CheckLoginRateLimit, TypeOK, LimitInv, historyVars
    <2>3. CASE session.locked = 0
      <3>1. \/ session' = [session EXCEPT !.locked = Lockout]
            \/ session' = [session EXCEPT !.locked = Lockout, !.login_attempts = 0]
        BY <1>5, <2>3 DEF CheckLoginRateLimit, TypeOK, Session
      <3>2. /\ session' \in Session /\ session'.token = session.token
            /\ session'.locked = Lockout
        BY <3>1, LimitsAreCounts DEF TypeOK, Session
      <3>3. Cardinality(failed) <= MaxAttempts
        BY LimitBounds
      <3>4. UNCHANGED failed /\ \A f \in failed : f.age \in Nat
        BY <1>5, Limits DEF CheckLoginRateLimit, historyVars, TypeOK, LoginFailure
      <3>5. \A f \in failed : f.age + Lockout >= Lockout
        BY <3>4, Limits
      <3>6. LimitInv'
        BY <3>2, <3>3, <3>4, <3>5, Limits DEF LimitInv
      <3> QED
        BY <1>3, <1>4, <1>5, <3>2, <3>4, <3>6 DEF CheckLoginRateLimit, TypeOK
    <2> QED
      BY <2>1, <2>2, <2>3, Limits
  <1>6. CASE AskLogin
    <2>1. PICK u \in Ids, status \in {"ok", "refused", "silent"} :
            run' = [run EXCEPT !.clicked = FALSE, !.status = status,
                      !.call = IF status = "ok" THEN Call("login", u) ELSE NoCall]
      BY <1>6 DEF AskLogin, Failure
    <2>2. UNCHANGED <<session, failed>> /\ ~ RateLimited /\ run.data = {}
      BY <1>6 DEF AskLogin, historyVars, At, RequestsFit
    <2> DEFINE c == IF status = "ok" THEN Call("login", u) ELSE NoCall
    <2>3. c \in Calls /\ c.kind \in {"none", "login"} /\ (status = "ok" => c.kind = "login")
      BY CallTypes
    <2> HIDE DEF c
    <2>4. /\ run' \in Run /\ run'.stage = "auth" /\ run'.call = c
          /\ run'.status = status /\ run'.data = {}
      BY <1>3, <2>1, <2>2, <2>3 DEF TypeOK, Run, Statuses, c
    <2>5. RequestsFit'
      BY <2>3, <2>4 DEF RequestsFit, KindsAt
    <2>6. PageFits'
      BY <1>3, <2>2, <2>3, <2>4 DEF PageFits, User, Tabs, RateLimited
    <2> QED
      BY <1>2, <2>2, <2>4, <2>5, <2>6 DEF Rest, TypeOK, LimitInv
  <1>7. CASE RecordLoginFailure
    BY <1>3, <1>4, <1>7, FailureCounts DEF RecordLoginFailure
  <1>8. CASE LoggedIn
    <2>1. run.call.of \in Ids
      BY <1>3, <1>8, CallTypes DEF LoggedIn, Answered, PageFits, TypeOK, Run
    <2> DEFINE token == create_access_token(run.call.of)
               named == [session EXCEPT !.token = token]
               known == [named EXCEPT !.profile = run.call.of]
               reset == [known EXCEPT !.login_attempts = 0, !.locked = 0]
    <2>2. token \in Token /\ token.user = run.call.of /\ token.user # NoId
      BY <2>1, Limits DEF create_access_token, Token
    <2>3. \/ session' \in {named, known} /\ Stop /\ UNCHANGED failed
          \/ session' = reset /\ failed' = {} /\ (Stop \/ Rerun)
      BY <1>8 DEF LoggedIn
    <2> HIDE DEF token
    <2>4. /\ named \in Session /\ named.token = token
          /\ named.login_attempts = session.login_attempts
          /\ named.locked = session.locked
      BY <2>2 DEF TypeOK, Session
    <2> HIDE DEF named
    <2>5. /\ known \in Session /\ known.token = token
          /\ known.login_attempts = session.login_attempts
          /\ known.locked = session.locked
      BY <2>1, <2>4 DEF Session
    <2> HIDE DEF known
    <2>6. /\ reset \in Session /\ reset.token = token
          /\ reset.login_attempts = 0 /\ reset.locked = 0
      BY <2>5, LimitsAreCounts DEF Session
    <2> HIDE DEF reset
    <2>7. CASE session' \in {named, known} /\ Stop /\ UNCHANGED failed
      BY <1>4, <2>2, <2>4, <2>5, <2>7, LimitKept DEF TypeOK
    <2>8. CASE session' = reset /\ failed' = {} /\ (Stop \/ Rerun)
      <3>1. LimitInv'
        BY <2>6, <2>8, FS_EmptySet DEF LimitInv
      <3> QED
        BY <1>4, <2>2, <2>6, <2>8, <3>1
    <2> QED
      BY <2>3, <2>7, <2>8
  <1>9. CASE LeaveAuth
    BY <1>3, <1>4, <1>9 DEF LeaveAuth, historyVars, TypeOK, LimitInv
  <1> QED
    BY <1>5, <1>6, <1>7, <1>8, <1>9 DEF AuthPage

LEMMA WorldBase ==
    ASSUME Base, Rest, Click \/ Tick \/ Elsewhere \/ UNCHANGED vars
    PROVE  Base' /\ Rest'
  <1> USE DEF Base, RunInv
  <1>1. CASE Click
    <2>1. /\ UNCHANGED <<box, files, session, failed, erased, cut>>
          /\ run' = Fresh(TRUE, session.token) /\ sends' \in {sends, InDoubt}
      BY <1>1 DEF Click, serverVars
    <2>2. run' \in Run /\ RequestsFit' /\ PageFits'
      BY <2>1, NewRunFits DEF TypeOK, PageFits, User
    <2>3. Rest'
      BY <2>1, CountsAreTyped DEF Rest, Numbered, Stored
    <2> QED
      BY <2>1, <2>2, <2>3, LimitKept DEF Rest, TypeOK
  <1>2. CASE Tick
    <2>1. UNCHANGED <<box, files, run, sends, erased, cut>>
      BY <1>2 DEF Tick, serverVars
    <2>2. /\ session' \in Session /\ session'.token.user = User
          /\ User = NoId => session'.token = NoToken
          /\ session.locked = 0 => session'.locked = 0
          /\ failed' \subseteq LoginFailure /\ LimitInv'
      BY <1>2, TickCounts
    <2>3. session'.login_attempts = session.login_attempts
      <3>1. \E token \in Token, locked \in 0 .. Lockout :
              session' = [session EXCEPT !.token = token, !.locked = locked]
        BY <1>2, TickCounts
      <3> QED
        BY <3>1 DEF TypeOK, Session
    <2>4. session.locked \in Nat /\ session'.locked \in Nat
      BY <2>2, Limits DEF TypeOK, Session
    <2>5. ~ RateLimited => ~ RateLimited'
      BY <2>2, <2>3, <2>4 DEF RateLimited
    <2>6. RequestsFit' /\ PageFits'
      BY <2>1, <2>2, <2>5 DEF RequestsFit, PageFits, User
    <2> QED
      BY <2>1, <2>2, <2>6, RestKept DEF TypeOK, Rest
  <1>3. CASE Elsewhere
    <2>1. UNCHANGED <<session, run, failed, sends, erased, cut>>
      BY <1>3 DEF Elsewhere, historyVars
    <2>2. MailMoves
      BY <1>3 DEF Elsewhere, MailNext, MailMoves
    <2>3. files' \in [Files -> Ids \cup {NoId}]
      BY <1>3 DEF Elsewhere, Rest
    <2>4. Rest'
      BY <2>1, <2>2, <2>3, MailStays DEF Rest
    <2> QED
      BY <2>1, <2>4 DEF Rest, TypeOK, LimitInv, RequestsFit, PageFits, User, RateLimited
  <1>4. CASE UNCHANGED vars
    BY <1>4
    DEF vars, Rest, TypeOK, Numbered, Stored, LimitInv, RequestsFit, PageFits, User,
        RateLimited
  <1> QED
    BY <1>1, <1>2, <1>3, <1>4

LEMMA BaseInit == Init => Base
  <1> SUFFICES ASSUME Init PROVE Base
    OBVIOUS
  <1>1. /\ session = Defaults /\ run = Idle /\ failed = {} /\ erased = {} /\ cut = FALSE
        /\ box = [m \in RowIds |-> NoRow] /\ files = [f \in Files |-> NoId]
        /\ sends = [unannounced |-> 0, doubt |-> 0]
    BY DEF Init, MailInit
  <1>2. session \in Session /\ session.token = NoToken /\ session.locked = 0
    BY <1>1, DefaultsAreASession DEF Defaults
  <1>3. /\ run = [stage |-> "idle", clicked |-> FALSE, call |-> NoCall,
                  status |-> "no", data |-> {}]
        /\ run \in Run
    BY <1>1, CallTypes DEF Idle, Fresh, Run, Stages, Statuses
  <1>4. sends \in [unannounced : Int, doubt : 0 .. MaxId]
    BY <1>1, Limits
  <1>5. TypeOK
    BY <1>1, <1>2, <1>3, <1>4 DEF TypeOK
  <1>6. RequestsFit
    BY <1>3, CallTypes DEF RequestsFit
  <1>7. PageFits
    BY <1>2, <1>3 DEF PageFits, User, Tabs
  <1>8. Stored = 1 .. 0
    BY <1>1 DEF Stored
  <1>9. Numbered
    BY <1>8, Limits DEF Numbered
  <1>10. LimitInv
    BY <1>1, <1>2, FS_EmptySet, Limits DEF LimitInv, Defaults
  <1> QED
    BY <1>5, <1>6, <1>7, <1>9, <1>10 DEF Base, RunInv

LEMMA BaseHolds == Spec => []Base
  <1>1. Base => Rest
    BY DEF Base, RunInv, TypeOK, Rest
  <1>2. Base /\ [Next]_vars => Base'
    BY <1>1, DashboardBase, AuthBase, WorldBase DEF Next
  <1> QED
    BY <1>2, BaseInit, PTL DEF Spec

\* The session, the script run and the tables keep their types: requests are made
\* where they belong, and answers go where they were asked for (frontend.py:190-230,
\* 493-567, 1371-1402).
THEOREM FrontEndTypes == Spec => []TypeOK
  <1>1. Base => TypeOK
    BY DEF Base, RunInv
  <1> QED
    BY <1>1, BaseHolds, PTL

\* Within _LOCKOUT_SECONDS no more than _MAX_LOGIN_ATTEMPTS attempts in a row are
\* shown to fail, whenever the lock is set and whenever failures leave the window
\* (frontend.py:98-116, 513-565).
THEOREM FrontEndLimits == Spec => []FailuresAreBounded
  <1>1. Base => FailuresAreBounded
    BY LimitBounds DEF Base, RunInv, FailuresAreBounded
  <1> QED
    BY <1>1, BaseHolds, PTL

-----------------------------------------------------------------------------
(* What the session shows of the tables                                    *)

\* A list on its way shows messages of the user, none that was announced as
\* deleted; a granted request is about a message of the user.
AnswerInv ==
    /\ run.call.kind = "refresh_inbox" =>
          \A m \in run.data : m \in Stored /\ box[m].receiver = User /\ m \notin erased
    /\ run.call.kind = "refresh_sent" =>
          \A m \in run.data : m \in Stored /\ box[m].sender = User
    /\ run.call.kind = "unlock" /\ run.status = "ok" =>
          /\ run.call.of \in Stored /\ box[run.call.of].receiver = User
          /\ run.call.of \notin erased
    /\ run.call.kind = "delete" /\ run.status = "ok" =>
          run.call.of \in Stored /\ box[run.call.of].deleted

\* A message that was announced as deleted is deleted, and shown nowhere.
ErasedInv ==
    /\ \A m \in erased : m \in Stored /\ box[m].deleted
    /\ ErasedStaysHidden

\* Until a logout is cut short the profile is that of the user.
OwnInv == NothingIsLeftBehind /\ (~ cut => session.profile \in {NoId, User})

DataInv == AnswerInv /\ ErasedInv /\ OwnInv

\* The session shows what it showed.
SameData ==
    /\ session'.profile = session.profile
    /\ session'.decrypted_inbox = session.decrypted_inbox
    /\ session'.inbox_messages = session.inbox_messages
    /\ session'.sent_messages = session.sent_messages
    /\ session'.audit_log = session.audit_log
    /\ session'.active_file_id = session.active_file_id
    /\ User' = User

LEMMA RowsKept == ASSUME Base, UNCHANGED box PROVE RowsStay
  BY DEF RowsStay, Stored

LEMMA SameDataKept ==
    ASSUME DataInv, RowsStay, SameData, UNCHANGED <<erased, cut>>
    PROVE  ErasedInv' /\ OwnInv'
  <1> USE DEF DataInv, RowsStay, SameData
  <1>1. ErasedInv'
    BY DEF ErasedInv, ErasedStaysHidden
  <1>2. OwnInv'
    BY DEF OwnInv, NothingIsLeftBehind
  <1> QED
    BY <1>1, <1>2

\* No request is under way that has an answer to show.
LEMMA NoAnswer ==
    ASSUME run'.call.kind \in {"none", "login"} PROVE AnswerInv'
  BY DEF AnswerInv

LEMMA ChangedRunHasNoCall ==
    ASSUME run \in Run,
           \/ Passes
           \/ \E clicked \in BOOLEAN, token \in Token : run' = Fresh(clicked, token)
    PROVE  run'.call.kind \in {"none", "login"}
  <1>1. NoCall.kind = "none"
    BY CallTypes
  <1>2. ASSUME NEW stage \in Tabs, Proceed(stage) PROVE run'.call = NoCall
    BY <1>2 DEF Proceed, Run
  <1>3. ASSUME NEW clicked \in BOOLEAN, NEW token \in Token, run' = Fresh(clicked, token)
        PROVE  run'.call = NoCall
    BY <1>3 DEF Fresh
  <1>4. run' = Idle => run'.call = NoCall
    BY DEF Idle, Fresh
  <1> QED
    BY <1>1, <1>2, <1>3, <1>4 DEF Passes

\* The answer that has come stays as true as it was.
LEMMA AnswerKept ==
    ASSUME DataInv, RowsStay, UNCHANGED <<run, erased>>, User' = User
    PROVE  AnswerInv'
  BY DEF DataInv, AnswerInv, RowsStay

LEMMA AskedData ==
    ASSUME Base, DataInv, Asked PROVE DataInv'
  <1> USE DEF Base, RunInv, TypeOK
  <1>1. PICK c \in Calls, clicked \in BOOLEAN :
          c.kind \in KindsAt(run.stage) /\ Ask(c, clicked)
    BY DEF Asked
  <1>2. PICK status \in Statuses \ {"no"}, data \in {{}, Data(User, c)} :
          Outcome(c, clicked, status, data)
    BY <1>1, AskServes
  <1>3. RowsStay
    BY <1>2, MailStays DEF Outcome
  <1>4. run'.call = c /\ run'.status = status /\ run'.data = data
    BY <1>2 DEF Run, Outcome
  <1>5. SameData
    BY DEF Asked, SameData, Session, User
  <1>6. UNCHANGED <<erased, cut>>
    BY <1>2 DEF Outcome
  <1>7. \A m \in RowIds : Found(m) => m \in Stored /\ m \notin erased
    BY DEF Found, DataInv, ErasedInv
  <1>8. CASE c.kind = "refresh_inbox"
    <2>1. data \in {{}, Inbox(User)}
      BY <1>8 DEF Data
    <2>2. \A m \in data : m \in Stored /\ box[m].receiver = User /\ m \notin erased
      BY <1>7, <2>1 DEF Inbox, MayRead
    <2>3. AnswerInv'
      BY <1>3, <1>4, <1>5, <1>6, <1>8, <2>2 DEF AnswerInv, RowsStay, SameData
    <2> QED
      BY <1>3, <1>5, <1>6, <2>3, SameDataKept DEF DataInv
  <1>9. CASE c.kind = "refresh_sent"
    <2>1. data \in {{}, Sent(User)}
      BY <1>9 DEF Data
    <2>2. \A m \in data : m \in Stored /\ box[m].sender = User
      BY <2>1 DEF Sent
    <2>3. AnswerInv'
      BY <1>3, <1>4, <1>5, <1>6, <1>9, <2>2 DEF AnswerInv, RowsStay, SameData
    <2> QED
      BY <1>3, <1>5, <1>6, <2>3, SameDataKept DEF DataInv
  <1>10. CASE c.kind = "unlock"
    <2>1. status = "ok" =>
            c.of \in Stored /\ box[c.of].receiver = User /\ c.of \notin erased
      BY <1>2, <1>7, <1>10, CallTypes DEF Outcome, Accepts, MayRead, Found
    <2>2. AnswerInv'
      BY <1>3, <1>4, <1>5, <1>6, <1>10, <2>1 DEF AnswerInv, RowsStay, SameData
    <2> QED
      BY <1>3, <1>5, <1>6, <2>2, SameDataKept DEF DataInv
  <1>11. CASE c.kind = "delete"
    <2>1. status = "ok" => c.of \in Stored' /\ box'[c.of].deleted
      <3> SUFFICES ASSUME status = "ok" PROVE c.of \in Stored' /\ box'[c.of].deleted
        OBVIOUS
      <3>1. User \in Ids /\ c.of \in RowIds /\ Remove(User, c.of)
        BY <1>2, <1>11, CallTypes DEF Outcome, Serve
      <3> QED
        BY <3>1, RemoveKeeps
    <2>2. AnswerInv'
      BY <1>4, <1>11, <2>1 DEF AnswerInv
    <2> QED
      BY <1>3, <1>5, <1>6, <2>2, SameDataKept DEF DataInv
  <1>12. CASE c.kind \notin {"refresh_inbox", "refresh_sent", "unlock", "delete"}
    <2>1. AnswerInv'
      BY <1>4, <1>12 DEF AnswerInv
    <2> QED
      BY <1>3, <1>5, <1>6, <2>1, SameDataKept DEF DataInv
  <1> QED
    BY <1>8, <1>9, <1>10, <1>11, <1>12

LEMMA DashboardData ==
    ASSUME Base, DataInv, Dashboard, Base' PROVE DataInv'
  <1> USE DEF Base, RunInv, TypeOK
  <1>1. ASSUME UNCHANGED box, SameData, UNCHANGED <<erased, cut>>, Passes \/ Rerun
        PROVE  DataInv'
    <2>1. session'.token \in Token
      BY DEF Session
    <2>2. AnswerInv'
      BY <1>1, <2>1, ChangedRunHasNoCall, NoAnswer DEF Rerun
    <2> QED
      BY <1>1, <2>2, RowsKept, SameDataKept DEF DataInv
  <1>2. ASSUME UNCHANGED box, ErasedInv', OwnInv', Passes \/ Rerun
        PROVE  DataInv'
    <2>1. session'.token \in Token
      BY DEF Session
    <2>2. AnswerInv'
      BY <1>2, <2>1, ChangedRunHasNoCall, NoAnswer DEF Rerun
    <2> QED
      BY <1>2, <2>2 DEF DataInv
  <1>3. Keeps => UNCHANGED <<box, erased, cut>> /\ Stored' = Stored
    BY DEF Keeps, serverVars, historyVars, Stored
  <1>4. CASE SignedOut
    <2>1. PICK n \in 1 .. Len(LogoutKeys) :
            session' = Cleared(n) /\ cut' = (n < Len(LogoutKeys))
      BY <1>4 DEF SignedOut, SignOut
    <2>2. run' = Idle /\ UNCHANGED <<box, erased>> /\ Passes
      BY <1>4 DEF SignedOut, SignOut, Stop, serverVars, Passes
    <2>3. /\ session'.inbox_messages \in {{}, session.inbox_messages}
          /\ session'.decrypted_inbox \in {{}, session.decrypted_inbox}
      BY <2>1 DEF Cleared, Session, Defaults
    <2>4. ErasedInv'
      BY <2>2, <2>3 DEF DataInv, ErasedInv, ErasedStaysHidden, Stored
    <2>5. OwnInv'
      <3>1. CASE n = Len(LogoutKeys)
        BY <2>1, <3>1, ClearedIsSession DEF OwnInv, NothingIsLeftBehind
      <3>2. CASE n # Len(LogoutKeys)
        <4>1. Len(LogoutKeys) = 7
          BY DEF LogoutKeys
        <4>2. n < Len(LogoutKeys)
          BY <3>2, <4>1
        <4>3. cut' = TRUE
          BY <2>1, <4>2
        <4> QED
          BY <4>3 DEF OwnInv, NothingIsLeftBehind
      <3> QED
        BY <3>1, <3>2
    <2> QED
      BY <1>2, <2>2, <2>4, <2>5
  <1>5. CASE AnnounceSend
    BY <1>1, <1>5 DEF AnnounceSend, Passes, Tabs, serverVars, SameData, User
  <1>6. CASE Deleted
    <2>1. /\ run.call.kind = "delete" /\ run.status = "ok" /\ UNCHANGED <<box, cut>>
          /\ Passes \/ Rerun
      BY <1>6 DEF Deleted, Answered, Stop, Passes, serverVars
    <2>2. run.call.of \in Stored /\ box[run.call.of].deleted
      BY <2>1 DEF DataInv, AnswerInv
    <2>3. /\ session'.decrypted_inbox = session.decrypted_inbox \ {run.call.of}
          /\ session'.profile = session.profile /\ session'.token = session.token
          /\ session'.sent_messages = session.sent_messages
          /\ session'.audit_log = session.audit_log
          /\ session'.active_file_id = session.active_file_id
      BY <1>6 DEF Deleted, Session
    <2>4. \/ UNCHANGED erased /\ session'.inbox_messages = session.inbox_messages
          \/ /\ erased' = erased \cup {run.call.of}
             /\ session'.inbox_messages = session.inbox_messages \ {run.call.of}
      BY <1>6 DEF Deleted, Session
    <2>5. Stored' = Stored
      BY <2>1 DEF Stored
    <2>6. ErasedInv'
      BY <2>1, <2>2, <2>3, <2>4, <2>5 DEF DataInv, ErasedInv, ErasedStaysHidden
    <2>7. OwnInv'
      BY <2>1, <2>3, <2>4, <2>5 DEF DataInv, OwnInv, NothingIsLeftBehind, User
    <2> QED
      BY <1>2, <2>1, <2>6, <2>7
  <1>7. CASE Passed
    BY <1>1, <1>3, <1>7 DEF Passed, SameData, User
  <1>8. CASE Logged
    <2>1. /\ session'.audit_log = Audited
          /\ session'.profile = session.profile /\ session'.token = session.token
          /\ session'.decrypted_inbox = session.decrypted_inbox
          /\ session'.inbox_messages = session.inbox_messages
          /\ session'.sent_messages = session.sent_messages
          /\ session'.active_file_id = session.active_file_id
      BY <1>8 DEF Logged, Session
    <2>2. ErasedInv'
      BY <1>3, <1>8, <2>1 DEF Logged, DataInv, ErasedInv, ErasedStaysHidden
    <2>3. OwnInv'
      BY <1>3, <1>8, <2>1 DEF Logged, DataInv, OwnInv, NothingIsLeftBehind, User, Audited
    <2> QED
      BY <1>2, <1>3, <1>8, <2>2, <2>3 DEF Logged
  <1>9. CASE OpenedFile
    <2>1. /\ session'.profile = session.profile /\ session'.token = session.token
          /\ session'.decrypted_inbox = session.decrypted_inbox
          /\ session'.inbox_messages = session.inbox_messages
          /\ session'.sent_messages = session.sent_messages
          /\ session'.audit_log = session.audit_log
      BY <1>9 DEF OpenedFile, Session
    <2>2. User # NoId
      BY <1>9 DEF OpenedFile, At, PageFits, Tabs
    <2>3. ErasedInv'
      BY <1>3, <1>9, <2>1 DEF OpenedFile, DataInv, ErasedInv, ErasedStaysHidden
    <2>4. OwnInv'
      BY <1>3, <1>9, <2>1, <2>2 DEF OpenedFile, DataInv, OwnInv, NothingIsLeftBehind, User
    <2> QED
      BY <1>2, <1>3, <1>9, <2>3, <2>4 DEF OpenedFile
  <1>10. CASE KeptFiles
    BY <1>1, <1>3, <1>10 DEF KeptFiles, SameData, User, Session
  <1>11. CASE KeptInbox
    <2>1. /\ session'.inbox_messages = run.data
          /\ session'.profile = session.profile /\ session'.token = session.token
          /\ session'.decrypted_inbox = session.decrypted_inbox
          /\ session'.sent_messages = session.sent_messages
          /\ session'.audit_log = session.audit_log
          /\ session'.active_file_id = session.active_file_id
      BY <1>11 DEF KeptInbox, Session
    <2>2. \A m \in run.data : m \in Stored /\ box[m].receiver = User /\ m \notin erased
      BY <1>11 DEF KeptInbox, DataInv, AnswerInv
    <2>3. ErasedInv'
      BY <1>3, <1>11, <2>1, <2>2 DEF KeptInbox, DataInv, ErasedInv, ErasedStaysHidden
    <2>4. OwnInv'
      BY <1>3, <1>11, <2>1, <2>2 DEF KeptInbox, DataInv, OwnInv, NothingIsLeftBehind, User
    <2> QED
      BY <1>2, <1>3, <1>11, <2>3, <2>4 DEF KeptInbox
  <1>12. CASE Unlocked
    <2>1. /\ session'.decrypted_inbox = session.decrypted_inbox \cup {run.call.of}
          /\ session'.profile = session.profile /\ session'.token = session.token
          /\ session'.inbox_messages = session.inbox_messages
          /\ session'.sent_messages = session.sent_messages
          /\ session'.audit_log = session.audit_log
          /\ session'.active_file_id = session.active_file_id
      BY <1>12 DEF Unlocked, Session
    <2>2. /\ run.call.of \in Stored /\ box[run.call.of].receiver = User
          /\ run.call.of \notin erased
      BY <1>12 DEF Unlocked, Answered, DataInv, AnswerInv
    <2>3. ErasedInv'
      BY <1>3, <1>12, <2>1, <2>2 DEF Unlocked, DataInv, ErasedInv, ErasedStaysHidden
    <2>4. OwnInv'
      BY <1>3, <1>12, <2>1, <2>2 DEF Unlocked, DataInv, OwnInv, NothingIsLeftBehind, User
    <2> QED
      BY <1>2, <1>3, <1>12, <2>3, <2>4 DEF Unlocked
  <1>13. CASE KeptSent
    <2>1. /\ session'.sent_messages = run.data
          /\ session'.profile = session.profile /\ session'.token = session.token
          /\ session'.decrypted_inbox = session.decrypted_inbox
          /\ session'.inbox_messages = session.inbox_messages
          /\ session'.audit_log = session.audit_log
          /\ session'.active_file_id = session.active_file_id
      BY <1>13 DEF KeptSent, Session
    <2>2. run.call.kind = "refresh_sent"
      BY <1>13 DEF KeptSent, Answered, RequestsFit, KindsAt
    <2>3. \A m \in run.data : m \in Stored /\ box[m].sender = User
      BY <2>2 DEF DataInv, AnswerInv
    <2>4. ErasedInv'
      BY <1>3, <1>13, <2>1 DEF KeptSent, DataInv, ErasedInv, ErasedStaysHidden
    <2>5. OwnInv'
      BY <1>3, <1>13, <2>1, <2>3 DEF KeptSent, DataInv, OwnInv, NothingIsLeftBehind, User
    <2> QED
      BY <1>2, <1>3, <1>13, <2>4, <2>5 DEF KeptSent
  <1> QED
    BY <1>4, <1>5, <1>6, <1>7, <1>8, <1>9, <1>10, <1>11, <1>12, <1>13,
       AskedData, DashboardMoves
    DEF DashboardMove

LEMMA AuthData ==
    ASSUME Base, DataInv, AuthPage, Base' PROVE DataInv'
  <1> USE DEF Base, RunInv, TypeOK
  <1>1. UNCHANGED <<box, erased, cut>> /\ Stored' = Stored
    BY DEF AuthPage, CheckLoginRateLimit, AskLogin, RecordLoginFailure, LoggedIn,
           LeaveAuth, serverVars, historyVars, Stored
  <1>2. AnswerInv'
    <2>1. session'.token \in Token /\ run.stage = "auth"
      BY DEF Session, AuthPage, CheckLoginRateLimit, AskLogin, RecordLoginFailure,
             LoggedIn, LeaveAuth, At, Answered
    <2>2. CASE Stop \/ Rerun
      BY <2>1, <2>2, ChangedRunHasNoCall, NoAnswer DEF Rerun, Stop, Passes
    <2>3. CASE AskLogin
      <3>1. run'.stage = "auth" /\ run'.status # "no"
        BY <2>1, <2>3 DEF AskLogin, Failure, Run
      <3>2. run'.call.kind \in {"none", "login"}
        BY <3>1 DEF RequestsFit, KindsAt
      <3> QED
        BY <3>2, NoAnswer
    <2> QED
      BY <2>2, <2>3 DEF AuthPage, CheckLoginRateLimit, RecordLoginFailure, LoggedIn, LeaveAuth
  <1>3. CASE ~ LoggedIn
    <2>1. SameData
      BY <1>3 DEF AuthPage, CheckLoginRateLimit, AskLogin, RecordLoginFailure, LeaveAuth,
                  Set, SameData, Session, User
    <2> QED
      BY <1>1, <1>2, <2>1, RowsKept, SameDataKept DEF DataInv
  <1>4. CASE LoggedIn
    <2>1. User = NoId
      BY <1>4 DEF LoggedIn, Answered, PageFits
    <2>2. /\ session'.decrypted_inbox = session.decrypted_inbox
          /\ session'.inbox_messages = session.inbox_messages
          /\ session'.sent_messages = session.sent_messages
          /\ session'.audit_log = session.audit_log
          /\ session'.active_file_id = session.active_file_id
          /\ User' = run.call.of
          /\ session'.profile \in {session.profile, run.call.of}
      <3> DEFINE token == create_access_token(run.call.of)
                 named == [session EXCEPT !.token = token]
                 known == [named EXCEPT !.profile = run.call.of]
      <3>1. session' \in {named, known, [known EXCEPT !.login_attempts = 0, !.locked = 0]}
        BY <1>4 DEF LoggedIn
      <3>2. token.user = run.call.of
        BY DEF create_access_token
      <3> HIDE DEF token
      <3>3. CASE session' = named
        BY <3>2, <3>3 DEF Session, User
      <3>4. CASE session' = known
        BY <3>2, <3>4 DEF Session, User
      <3>5. CASE session' = [known EXCEPT !.login_attempts = 0, !.locked = 0]
        BY <3>2, <3>5 DEF Session, User
      <3> QED
        BY <3>1, <3>3, <3>4, <3>5
    <2>3. \A m \in Stored : box[m].receiver # NoId /\ box[m].sender # NoId
      BY Limits DEF Stored, Row
    <2>4. ~ cut =>
            /\ session.inbox_messages = {} /\ session.decrypted_inbox = {}
            /\ session.sent_messages = {} /\ session.audit_log = {}
            /\ session.active_file_id = NoFile /\ session.profile = NoId
      <3> SUFFICES ASSUME ~ cut
                   PROVE  /\ session.inbox_messages = {} /\ session.decrypted_inbox = {}
                          /\ session.sent_messages = {} /\ session.audit_log = {}
                          /\ session.active_file_id = NoFile /\ session.profile = NoId
        OBVIOUS
      <3>1. session.profile = NoId /\ NothingIsLeftBehind
        BY <2>1 DEF DataInv, OwnInv
      <3>2. session.audit_log = {}
        BY <3>1, Limits DEF NothingIsLeftBehind, Session
      <3> QED
        BY <2>1, <2>3, <3>1, <3>2 DEF NothingIsLeftBehind
    <2>5. OwnInv'
      BY <1>1, <2>2, <2>4 DEF OwnInv, NothingIsLeftBehind
    <2>6. ErasedInv'
      BY <1>1, <2>2 DEF DataInv, ErasedInv, ErasedStaysHidden
    <2> QED
      BY <1>2, <2>5, <2>6 DEF DataInv
  <1> QED
    BY <1>3, <1>4

LEMMA WorldData ==
    ASSUME Base, DataInv, Click \/ Tick \/ Elsewhere \/ UNCHANGED vars PROVE DataInv'
  <1> USE DEF Base, RunInv, TypeOK
  <1>1. MailMoves
    BY DEF Click, Tick, Elsewhere, MailNext, MailMoves, vars, serverVars
  <1>2. RowsStay
    BY <1>1, MailStays
  <1>3. UNCHANGED <<erased, cut>>
    BY DEF Click, Tick, Elsewhere, vars, historyVars
  <1>4. SameData
    <2>1. CASE Tick
      <3>1. PICK token \in Token, locked \in 0 .. Lockout :
              session' = [session EXCEPT !.token = token, !.locked = locked]
        BY <2>1, TickCounts
      <3>2. session'.token.user = User
        BY <2>1, TickCounts
      <3> QED
        BY <3>1, <3>2 DEF SameData, Session, User
    <2> QED
      BY <2>1 DEF Click, Elsewhere, vars, SameData, User
  <1>5. AnswerInv'
    <2>1. CASE Click
      <3>1. session.token \in Token /\ run' = Fresh(TRUE, session.token)
        BY <2>1 DEF Click, Session
      <3> QED
        BY <3>1, ChangedRunHasNoCall, NoAnswer
    <2>2. CASE UNCHANGED run
      BY <1>2, <1>3, <1>4, <2>2, AnswerKept DEF SameData
    <2> QED
      BY <2>1, <2>2 DEF Tick, Elsewhere, vars
  <1> QED
    BY <1>2, <1>3, <1>4, <1>5, SameDataKept DEF DataInv

LEMMA DataHolds == Spec => []DataInv
  <1>1. Init => DataInv
    BY CallTypes
    DEF Init, DataInv, AnswerInv, ErasedInv, ErasedStaysHidden, OwnInv,
        NothingIsLeftBehind, Defaults, User, NoToken, Idle, Fresh
  <1>2. Base /\ Base' /\ DataInv /\ [Next]_vars => DataInv'
    BY DashboardData, AuthData, WorldData DEF Next
  <1> QED
    BY <1>1, <1>2, BaseHolds, PTL DEF Spec

\* Neither logging out, nor a token that expires in the middle of a page, leaves
\* messages, their plaintext, the activity log or an open file of one user to
\* the next one, or to the login page -- unless the logout itself was cut short
\* (frontend.py:221-230, 373-377).
THEOREM LogoutsTakeEverything == Spec => []NothingIsLeftBehind
  <1>1. DataInv => NothingIsLeftBehind
    BY DEF DataInv, OwnInv
  <1> QED
    BY <1>1, DataHolds, PTL

\* A message of which the user was told that it is deleted does not come back in
\* this session: neither its entry nor its plaintext, whatever lists were on
\* their way (frontend.py:1232-1248).
THEOREM ErasedMessagesStayHidden == Spec => []ErasedStaysHidden
  <1>1. DataInv => ErasedStaysHidden
    BY DEF DataInv, ErasedInv
  <1> QED
    BY <1>1, DataHolds, PTL

-----------------------------------------------------------------------------
(* The messages this session has sent                                      *)

\* What was stored and not announced is a send in doubt, or the one under way.
SendsInv ==
    /\ DeliveriesAreBacked
    /\ sends.unannounced <= Cardinality(Stored)
    /\ run.call.kind = "send" /\ run.status = "ok" => sends.unannounced >= 1
    /\ run.call.kind = "send" /\ run.status = "unauthorized" =>
          sends.unannounced <= sends.doubt

LEMMA SendCounts ==
    ASSUME Base, SendsInv
    PROVE  /\ sends.unannounced \in Nat /\ sends.doubt \in Nat
           /\ sends.unannounced <= sends.doubt + 1 /\ sends.unannounced <= MaxId
           /\ run.call.kind # "send" => sends.unannounced <= sends.doubt
           /\ Cardinality(Stored) \in Nat
           /\ run.call.kind = "send" => run.stage = "send" /\ run.status # "no"
  <1> USE DEF Base, RunInv, TypeOK
  <1>1. sends.unannounced \in Int /\ sends.doubt \in Nat
    BY Limits
  <1>2. sends.unannounced \in 0 .. sends.doubt + (IF run.call.kind = "send" THEN 1 ELSE 0)
    BY DEF SendsInv, DeliveriesAreBacked
  <1>3. Cardinality(Stored) \in Nat /\ Cardinality(Stored) <= MaxId
    BY NextIdIsNew
  <1>4. run.call.kind = "send" => run.stage = "send" /\ run.status # "no"
    BY CallTypes DEF RequestsFit, KindsAt, Run, Stages
  <1>5. sends.unannounced <= sends.doubt + 1
    BY <1>1, <1>2
  <1>6. sends.unannounced <= MaxId
    BY <1>1, <1>3, Limits DEF SendsInv
  <1> QED
    BY <1>1, <1>2, <1>3, <1>4, <1>5, <1>6

LEMMA StoredGrows ==
    ASSUME Base, MailMoves
    PROVE  /\ Cardinality(Stored) \in Nat /\ Cardinality(Stored') \in Nat
           /\ Cardinality(Stored) <= Cardinality(Stored')
  <1> USE DEF Base, RunInv, TypeOK
  <1>1. Cardinality(Stored) \in Nat
    BY NextIdIsNew
  <1>2. CASE UNCHANGED box
    BY <1>1, <1>2 DEF Stored
  <1>3. ASSUME NEW s \in Ids, NEW r \in Ids, Post(s, r)
        PROVE  Cardinality(Stored') = Cardinality(Stored) + 1
    BY <1>3, PostAdds
  <1>4. ASSUME NEW u \in Ids, NEW m \in RowIds, Remove(u, m) PROVE Stored' = Stored
    BY <1>4, RemoveKeeps
  <1> QED
    BY <1>1, <1>2, <1>3, <1>4 DEF MailMoves

\* A send that ends without a 201 is in doubt from then on.
LEMMA DoubtCovers ==
    ASSUME Base, SendsInv, UNCHANGED box, sends' = InDoubt,
           run'.call.kind \in {"none", "login"}
    PROVE  SendsInv'
  <1>1. sends \in [unannounced : Int, doubt : 0 .. MaxId]
    BY DEF Base, RunInv, TypeOK
  <1>2. /\ sends'.unannounced = sends.unannounced
        /\ sends'.doubt = IF sends.doubt < MaxId THEN sends.doubt + 1 ELSE sends.doubt
    BY <1>1 DEF InDoubt
  <1>3. sends'.unannounced \in 0 .. sends'.doubt /\ sends'.doubt \in Nat
    BY <1>1, <1>2, SendCounts, Limits
  <1>4. Stored' = Stored
    BY DEF Stored
  <1> QED
    BY <1>2, <1>3, <1>4 DEF SendsInv, DeliveriesAreBacked

\* Where no send was under way, or it was refused, nothing is to be told.
LEMMA NothingToTell ==
    ASSUME Base, SendsInv, MailMoves, UNCHANGED sends,
           sends.unannounced <= sends.doubt, run'.call.kind \in {"none", "login"}
    PROVE  SendsInv'
  <1>1. sends'.unannounced \in 0 .. sends'.doubt /\ sends'.doubt \in Nat
    BY SendCounts
  <1>2. sends'.unannounced <= Cardinality(Stored')
    BY SendCounts, StoredGrows DEF SendsInv
  <1> QED
    BY <1>1, <1>2 DEF SendsInv, DeliveriesAreBacked

LEMMA AskedSends ==
    ASSUME Base, SendsInv, Asked PROVE SendsInv'
  <1> USE DEF Base, RunInv, TypeOK
  <1>1. PICK c \in Calls, clicked \in BOOLEAN :
          c.kind \in KindsAt(run.stage) /\ Ask(c, clicked)
    BY DEF Asked
  <1>2. PICK status \in Statuses \ {"no"}, data \in {{}, Data(User, c)} :
          Outcome(c, clicked, status, data)
    BY <1>1, AskServes
  <1>3. run'.call = c /\ run'.status = status
    BY <1>2 DEF Run, Outcome
  <1>4. sends.unannounced \in Nat /\ sends.doubt \in Nat /\ sends.unannounced <= sends.doubt
    BY SendCounts DEF Asked
  <1>5. CASE UNCHANGED sends /\ ~ (c.kind = "send" /\ status = "ok")
    <2>1. sends'.unannounced <= Cardinality(Stored')
      BY <1>2, <1>4, <1>5, StoredGrows DEF SendsInv, Outcome
    <2>2. sends'.unannounced \in 0 .. sends'.doubt + (IF c.kind = "send" THEN 1 ELSE 0)
      BY <1>4, <1>5
    <2> QED
      BY <1>3, <1>4, <1>5, <2>1, <2>2 DEF SendsInv, DeliveriesAreBacked
  <1>6. CASE /\ c.kind = "send" /\ status # "unauthorized"
             /\ User \in Ids /\ c.of \in Ids /\ Post(User, c.of)
             /\ sends' = [sends EXCEPT !.unannounced = @ + 1]
    <2>1. sends'.unannounced = sends.unannounced + 1 /\ sends'.doubt = sends.doubt
      BY <1>6
    <2>2. Cardinality(Stored') = Cardinality(Stored) + 1 /\ Cardinality(Stored) \in Nat
      BY <1>6, PostAdds, NextIdIsNew
    <2>3. sends'.unannounced <= Cardinality(Stored') /\ sends'.unannounced >= 1
      BY <1>4, <2>1, <2>2 DEF SendsInv
    <2>4. sends'.unannounced \in 0 .. sends'.doubt + 1
      BY <1>4, <2>1
    <2> QED
      BY <1>3, <1>6, <2>3, <2>4 DEF SendsInv, DeliveriesAreBacked
  <1> QED
    BY <1>2, <1>5, <1>6 DEF Outcome

LEMMA SendsStep ==
    ASSUME Base, SendsInv, [Next]_vars, Base' PROVE SendsInv'
  <1> USE DEF Base, RunInv, TypeOK
  <1>1. /\ sends.unannounced \in Nat /\ sends.doubt \in Nat
        /\ sends.unannounced <= sends.doubt + 1
        /\ run.call.kind # "send" => sends.unannounced <= sends.doubt
        /\ run.call.kind = "send" => run.stage = "send" /\ run.status # "no"
    BY SendCounts
  <1>2. ASSUME UNCHANGED <<box, sends>>, run.call.kind # "send", Passes \/ Rerun
        PROVE  SendsInv'
    <2>1. session'.token \in Token
      BY DEF Session
    <2>2. run'.call.kind \in {"none", "login"}
      BY <1>2, <2>1, ChangedRunHasNoCall DEF Rerun
    <2> QED
      BY <1>1, <1>2, <2>2, NothingToTell DEF MailMoves
  <1>3. CASE Dashboard
    <2>1. CASE SignedOut
      <3>1. run' = Idle /\ Passes /\ UNCHANGED <<box, sends>>
        BY <2>1 DEF SignedOut, SignOut, Stop, Passes, serverVars
      <3>2. sends.unannounced <= sends.doubt
        BY <1>1, <2>1 DEF SignedOut, SendsInv
      <3>3. run'.call.kind \in {"none", "login"}
        BY <3>1, ChangedRunHasNoCall
      <3> QED
        BY <3>1, <3>2, <3>3, NothingToTell DEF MailMoves
    <2>2. CASE AnnounceSend
      <3>1. /\ run.call.kind = "send" /\ UNCHANGED box /\ Passes
            /\ \/ run.status # "ok" /\ sends' = InDoubt
               \/ run.status = "ok" /\ sends' = [sends EXCEPT !.unannounced = @ - 1]
        BY <2>2 DEF AnnounceSend, Passes, Tabs, serverVars
      <3>2. run'.call.kind \in {"none", "login"}
        BY <3>1, ChangedRunHasNoCall
      <3>3. CASE run.status = "ok" /\ sends' = [sends EXCEPT !.unannounced = @ - 1]
        <4>1. sends'.unannounced = sends.unannounced - 1 /\ sends'.doubt = sends.doubt
          BY <3>3
        <4>2. sends.unannounced >= 1 /\ sends.unannounced <= Cardinality(Stored)
          BY <3>1, <3>3 DEF SendsInv
        <4>3. sends'.unannounced \in 0 .. sends'.doubt
          BY <1>1, <4>1, <4>2
        <4>4. Stored' = Stored /\ Cardinality(Stored) \in Nat
          BY <3>1, SendCounts DEF Stored
        <4>5. sends'.unannounced <= Cardinality(Stored')
          BY <1>1, <4>1, <4>2, <4>4
        <4> QED
          BY <1>1, <3>2, <4>1, <4>3, <4>5 DEF SendsInv, DeliveriesAreBacked
      <3> QED
        BY <3>1, <3>2, <3>3, DoubtCovers
    <2>3. CASE Deleted
      BY <1>2, <2>3 DEF Deleted, Stop, Passes, serverVars
    <2>4. CASE Passed
      BY <1>2, <2>4 DEF Passed, Keeps, serverVars, historyVars
    <2>5. CASE Logged \/ OpenedFile \/ KeptFiles \/ KeptInbox \/ Unlocked \/ KeptSent
      <3>1. run.stage # "send" /\ Keeps /\ (Passes \/ Rerun)
        BY <2>5
        DEF Logged, OpenedFile, KeptFiles, KeptInbox, Unlocked, KeptSent, At, Answered
      <3> QED
        BY <1>1, <1>2, <3>1 DEF Keeps, serverVars, historyVars
    <2> QED
      BY <1>3, <2>1, <2>2, <2>3, <2>4, <2>5, AskedSends, DashboardMoves DEF DashboardMove
  <1>4. CASE AuthPage
    <2>1. run.stage = "auth" /\ UNCHANGED <<box, sends>>
      BY <1>4 DEF AuthPage, CheckLoginRateLimit, AskLogin, RecordLoginFailure, LoggedIn,
                  LeaveAuth, At, Answered, serverVars, historyVars
    <2>2. CASE Stop \/ Rerun
      BY <1>1, <1>2, <2>1, <2>2 DEF Stop, Passes
    <2>3. CASE AskLogin
      <3>1. run'.stage = "auth" /\ run'.status # "no"
        BY <2>1, <2>3 DEF AskLogin, Failure, Run
      <3>2. run'.call.kind \in {"none", "login"}
        BY <3>1 DEF RequestsFit, KindsAt
      <3> QED
        BY <1>1, <2>1, <3>2, NothingToTell DEF MailMoves
    <2> QED
      BY <1>4, <2>2, <2>3
      DEF AuthPage, CheckLoginRateLimit, RecordLoginFailure, LoggedIn, LeaveAuth
  <1>5. CASE Click
    <2>1. session.token \in Token /\ run' = Fresh(TRUE, session.token) /\ UNCHANGED box
      BY <1>5 DEF Click, Session, serverVars
    <2>2. run'.call.kind \in {"none", "login"}
      BY <2>1, ChangedRunHasNoCall
    <2>3. CASE run.call.kind = "send"
      BY <1>5, <2>1, <2>2, <2>3, DoubtCovers DEF Click
    <2>4. CASE run.call.kind # "send"
      BY <1>1, <1>5, <2>1, <2>2, <2>4, NothingToTell DEF Click, MailMoves
    <2> QED
      BY <2>3, <2>4
  <1>6. CASE Tick \/ Elsewhere \/ UNCHANGED vars
    <2>1. UNCHANGED <<run, sends>> /\ MailMoves
      BY <1>6 DEF Tick, Elsewhere, vars, MailNext, MailMoves, serverVars, historyVars
    <2>2. sends'.unannounced <= Cardinality(Stored')
      BY <1>1, <2>1, StoredGrows DEF SendsInv
    <2> QED
      BY <2>1, <2>2 DEF SendsInv, DeliveriesAreBacked
  <1> QED
    BY <1>3, <1>4, <1>5, <1>6 DEF Next

\* Every message announced as delivered is one of its own in the table, and as
\* long as no send ended in an error, a timeout or a click there are no others
\* of this session (frontend.py:1093-1115, communication.py:142-158).
THEOREM AnnouncementsAreBacked == Spec => []DeliveriesAreBacked
  <1>1. Init => SendsInv
    <2> SUFFICES ASSUME Init PROVE SendsInv
      OBVIOUS
    <2>1. Cardinality(Stored) \in Nat
      BY BaseInit, NextIdIsNew DEF Base
    <2>2. run.call.kind = "none" /\ sends = [unannounced |-> 0, doubt |-> 0]
      BY CallTypes DEF Init, Idle, Fresh
    <2> QED
      BY <2>1, <2>2 DEF SendsInv, DeliveriesAreBacked
  <1>2. Base /\ Base' /\ SendsInv /\ [Next]_vars => SendsInv'
    BY SendsStep
  <1>3. SendsInv => DeliveriesAreBacked
    BY DEF SendsInv
  <1> QED
    BY <1>1, <1>2, <1>3, BaseHolds, PTL DEF Spec

=============================================================================
