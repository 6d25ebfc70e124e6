------------------------------ MODULE FrontEnd ------------------------------
(***************************************************************************)
(* One browser session of the Streamlit front end (frontend.py) in front of *)
(* the services, with its cached lists, its plaintext, its access token and *)
(* its own login limiter.                                                  *)
(*                                                                         *)
(* Whatever the user does runs the whole script from the top: the login    *)
(* page without a token, else the dashboard with its tabs one after the    *)
(* other.  A script waits for each answer of the backend, and the next     *)
(* thing the user does stops it where it next touches the session or the   *)
(* page: after an answer has come and before it is used, or half-way       *)
(* through a chain of assignments.  st.rerun() stops it too, and starts it *)
(* again.                                                                  *)
(*                                                                         *)
(* The message service is module Mailbox; files and accounts are reduced   *)
(* to who may see what.  Other browsers send, delete and upload meanwhile. *)
(***************************************************************************)
EXTENDS Mailbox, Integers, Sequences

CONSTANTS
    NoId,
    Files,          \* bound: files that ever get uploaded
    NoFile,
    NotLoaded,      \* file_inbox_data is not in the session
    TokenLife,      \* ACCESS_TOKEN_EXPIRE_MINUTES
    MaxAttempts,    \* _MAX_LOGIN_ATTEMPTS
    Lockout,        \* _LOCKOUT_SECONDS
    Faults          \* the kinds of failure this instance lets happen

ASSUME TimesAreNat == TokenLife \in Nat /\ Lockout \in Nat \ {0}
ASSUME SomeAttempts == MaxAttempts \in Nat \ {0}
ASSUME FaultsAreKinds == Faults \subseteq {"error", "lost"}
ASSUME NoIdIsNoUser == NoId \notin Ids

VARIABLES
    files,      \* the receiver of each file that is recorded, else NoId
    session,    \* st.session_state
    run,        \* the script run: what the user did, where it stands, the answer
    failed,     \* history: the login failures shown since the last success
    sends,      \* history: sends of this session stored and not announced, in doubt
    erased,     \* history: messages whose deletion was announced
    cut         \* history: a logout was stopped half-way

vars == <<box, files, session, run, failed, sends, erased, cut>>

-----------------------------------------------------------------------------
(* Access tokens                                                           *)

\* "age" counts the seconds since "iat".
Token == [user : Ids \cup {NoId}, age : 0 .. TokenLife + 1]
NoToken == [user |-> NoId, age |-> 0]

create_access_token(u) == [user |-> u, age |-> 0]

\* "exp" itself is still inside.
decode_access_token(t) == t.age <= TokenLife

\* get_current_user lets the request pass.
Authorised(t) == t.user \in Ids /\ decode_access_token(t)

-----------------------------------------------------------------------------
(* The session.  "profile" stands for role, department, username, user_id. *)

Session == [token : Token, profile : Ids \cup {NoId},
            decrypted_inbox : SUBSET RowIds, inbox_messages : SUBSET RowIds,
            sent_messages : SUBSET RowIds, audit_log : SUBSET Ids,
            active_file_id : Files \cup {NoFile},
            file_inbox_data : (SUBSET Files) \cup {NotLoaded},
            login_attempts : 0 .. MaxAttempts, locked : 0 .. Lockout]

Defaults == [token |-> NoToken, profile |-> NoId,
             decrypted_inbox |-> {}, inbox_messages |-> {}, sent_messages |-> {},
             audit_log |-> {}, active_file_id |-> NoFile,
             file_inbox_data |-> NotLoaded,
             login_attempts |-> 0, locked |-> 0]

\* Slip: the decrypted messages are not among the keys.
LogoutKeysButPlaintext == <<"token", "profile", "inbox_messages",
                            "sent_messages", "audit_log", "active_file_id">>

\* The keys _logout resets, in its order.
LogoutKeys == <<"token", "profile", "decrypted_inbox", "inbox_messages",
                "sent_messages", "audit_log", "active_file_id">>

\* The activity log with one more entry; it stands for the users it names.
Audited == session.audit_log \cup ({session.profile} \ {NoId})

\* The session once the logout is logged and the first n keys are reset.
Cleared(n) == [k \in DOMAIN session |->
    IF \E i \in 1 .. n : LogoutKeys[i] = k THEN Defaults[k]
    ELSE IF k = "audit_log" THEN Audited
    ELSE session[k]]

-----------------------------------------------------------------------------
(* What the user can do, and the script runs it starts                     *)

\* A request to the backend, or the button behind it.
Call(kind, of) == [kind |-> kind, of |-> of]
NoCall == Call("none", NoId)

Calls ==
    {Call(k, NoId) : k \in {"none", "directory", "refresh_files",
                            "refresh_inbox", "refresh_sent"}}
    \cup {Call(k, u) : k \in {"login", "send"}, u \in Ids}
    \cup {Call(k, m) : k \in {"unlock", "delete"}, m \in RowIds}
    \cup {Call(k, f) : k \in {"upload", "open"}, f \in Files}

Stages == {"idle", "auth", "sidebar", "upload", "files", "send", "inbox", "sent"}

\* "unauthorized" is 401 to a request with a token, "refused" any other status
\* but 2xx, "silent" a connection error or the timeout.
Statuses == {"no", "ok", "unauthorized", "refused", "silent"}

Run == [stage : Stages, clicked : BOOLEAN, call : Calls, status : Statuses,
        data : SUBSET (RowIds \cup Files)]

\* "clicked": some button started the run and has not been met yet; which one is
\* decided where it is met.  "call", "status", "data": the request under way and
\* its answer.
Fresh(clicked, token) ==
    [stage |-> IF token = NoToken THEN "auth" ELSE "sidebar", clicked |-> clicked,
     call |-> NoCall, status |-> "no", data |-> {}]

Idle == [Fresh(FALSE, NoToken) EXCEPT !.stage = "idle"]

Init ==
    /\ MailInit
    /\ files = [f \in Files |-> NoId]
    /\ session = Defaults
    /\ run = Idle
    /\ failed = {}
    /\ sends = [unannounced |-> 0, doubt |-> 0]
    /\ erased = {}
    /\ cut = FALSE

serverVars == <<box, files>>
historyVars == <<failed, sends, erased, cut>>

At(stage) == run.stage = stage /\ run.status = "no"
Answered(stage, statuses) == run.stage = stage /\ run.status \in statuses
Failure == {"refused", "silent"}

Proceed(stage) ==
    run' = [run EXCEPT !.stage = stage, !.call = NoCall, !.status = "no", !.data = {}]
Stop == run' = Idle
Rerun == run' = Fresh(FALSE, session'.token)
Set(key, value) == session' = [session EXCEPT ![key] = value]

\* One more send without a 201, counted up to MaxId.
InDoubt == [sends EXCEPT !.doubt = IF @ < MaxId THEN @ + 1 ELSE @]

\* The user does something; a script that still runs is dropped.
Click ==
    /\ run' = Fresh(TRUE, session.token)
    /\ sends' = IF run.call.kind = "send" THEN InDoubt ELSE sends
    /\ UNCHANGED <<serverVars, session, failed, erased, cut>>

-----------------------------------------------------------------------------
(* APIClient.request                                                       *)

\* The backend grants user u the request c.
Accepts(u, c) ==
    CASE c.kind = "send" -> c.of # u /\ NextId # 0
      [] c.kind = "unlock" -> MayRead(u, c.of)
      [] c.kind = "delete" -> MayDelete(u, c.of)
      [] c.kind = "open" -> files[c.of] = u
      [] c.kind = "upload" -> files[c.of] = NoId
      [] OTHER -> TRUE

Data(u, c) ==
    CASE c.kind = "refresh_inbox" -> Inbox(u)
      [] c.kind = "refresh_sent" -> Sent(u)
      [] c.kind = "refresh_files" -> {f \in Files : files[f] = u}
      [] OTHER -> {}

\* What the request changes on the server.
Serve(u, c) ==
    CASE c.kind = "send" ->
             /\ Post(u, c.of)
             /\ sends' = [sends EXCEPT !.unannounced = @ + 1]
             /\ UNCHANGED files
      [] c.kind = "delete" -> Remove(u, c.of) /\ UNCHANGED <<files, sends>>
      [] c.kind = "upload" ->
             /\ \E r \in Ids : files' = [files EXCEPT ![c.of] = r]
             /\ UNCHANGED <<box, sends>>
      [] OTHER -> UNCHANGED <<box, files, sends>>

Fault(kind) == kind \in Faults
Untouched == UNCHANGED <<box, files, sends>>

\* GET /auth/directory is the one request that needs no token.
Directory == Call("directory", NoId)
LetIn(t, c) == c = Directory \/ Authorised(t)

\* A request with the token of the session: what becomes of it, and what the
\* script gets to see.  An error may come after the commit (the refresh of a
\* message or of a file).  A request the server serves after the client's timeout
\* is a request from elsewhere.
Request(c, status, data) ==
    LET t == session.token
        granted == LetIn(t, c) /\ Accepts(t.user, c) IN
    \/ ~ LetIn(t, c) /\ status = "unauthorized" /\ data = {} /\ Untouched
    \/ granted /\ status = "ok" /\ data = Data(t.user, c) /\ Serve(t.user, c)
    \/ granted /\ Fault("error") /\ c.kind \in {"send", "upload"}
          /\ status = "refused" /\ data = {} /\ Serve(t.user, c)
    \/ granted /\ Fault("lost") /\ status = "silent" /\ data = {} /\ Serve(t.user, c)
    \/ LetIn(t, c) /\ (~ granted \/ Fault("error"))
          /\ status = "refused" /\ data = {} /\ Untouched
    \/ Fault("lost") /\ status = "silent" /\ data = {} /\ Untouched

Ask(c, clicked) ==
    /\ \E status \in Statuses \ {"no"} :
       \E data \in {{}, Data(session.token.user, c)} :
          /\ Request(c, status, data)
          /\ run' = [run EXCEPT !.clicked = clicked, !.call = c,
                                !.status = status, !.data = data]
    /\ UNCHANGED <<failed, erased, cut>>

\* A request the page makes by itself, and one behind a button.
Fetch(c) == Ask(c, run.clicked)
Button(c) == run.clicked /\ Ask(c, FALSE)

\* _logout and st.rerun(); stopped after n of the keys.
SignOut ==
    /\ \E n \in 1 .. Len(LogoutKeys) :
          /\ session' = Cleared(n)
          /\ cut' = (n < Len(LogoutKeys))
    /\ Stop
    /\ UNCHANGED <<serverVars, failed, sends, erased>>

\* 401: the session has expired.
AutoLogout == run.status = "unauthorized" /\ SignOut

-----------------------------------------------------------------------------
(* The login page                                                          *)

\* Slip: off by one.
RateLimitedLate == session.locked > 0 \/ session.login_attempts > MaxAttempts

RateLimited == session.locked > 0 \/ session.login_attempts >= MaxAttempts

\* Slip: the attempts are reset and nothing is locked.
CheckLoginRateLimitOnce ==
    /\ At("auth") /\ run.clicked /\ RateLimited
    /\ Set("login_attempts", 0)
    /\ Stop
    /\ UNCHANGED <<serverVars, historyVars>>

\* _check_login_rate_limit refuses the attempt.  It locks, then resets the
\* attempts.
CheckLoginRateLimit ==
    /\ At("auth") /\ run.clicked
    /\ \/ session.locked > 0 /\ UNCHANGED session
       \/ /\ session.locked = 0 /\ session.login_attempts >= MaxAttempts
          /\ LET lockedOut == [session EXCEPT !.locked = Lockout] IN
             session' \in {lockedOut, [lockedOut EXCEPT !.login_attempts = 0]}
    /\ Stop
    /\ UNCHANGED <<serverVars, historyVars>>

\* POST /auth/login.  A wrong password is refused, and the backend may refuse the
\* right one: its own limiter counts by client address, which is that of the
\* front end for all its users.
AskLogin ==
    /\ At("auth") /\ run.clicked /\ ~ RateLimited
    /\ \E u \in Ids, status \in {"ok"} \cup Failure :
          /\ status = "silent" => "lost" \in Faults
          /\ run' = [run EXCEPT !.clicked = FALSE, !.status = status,
                        !.call = IF status = "ok" THEN Call("login", u) ELSE NoCall]
    /\ UNCHANGED <<serverVars, session, historyVars>>

\* A failure, by a number that keeps it apart from others of its age, and the
\* seconds since it was shown; older ones are of no interest.
LoginFailure == [nr : 1 .. MaxAttempts + 1, age : 0 .. Lockout - 1]
UnusedNr == CHOOSE n \in 1 .. MaxAttempts + 1 : \A f \in failed : f.nr # n

\* _record_login_failure counts the failure, then it is shown.
RecordLoginFailure ==
    /\ Answered("auth", {"refused"})
    /\ Set("login_attempts", session.login_attempts + 1)
    /\ failed' \in {failed, failed \cup {[nr |-> UnusedNr, age |-> 0]}}
    /\ Stop
    /\ UNCHANGED <<serverVars, sends, erased, cut>>

\* The token, the profile and _reset_login_counter, in this order.
LoggedIn ==
    /\ Answered("auth", {"ok"})
    /\ LET named == [session EXCEPT !.token = create_access_token(run.call.of)]
           known == [named EXCEPT !.profile = run.call.of] IN
       \/ session' \in {named, known} /\ Stop /\ UNCHANGED failed
       \/ /\ session' = [known EXCEPT !.login_attempts = 0, !.locked = 0]
          /\ failed' = {}
          /\ Stop \/ Rerun
    /\ UNCHANGED <<serverVars, sends, erased, cut>>

\* No answer, or nothing was submitted.
LeaveAuth ==
    /\ Answered("auth", {"silent"}) \/ (At("auth") /\ ~ run.clicked)
    /\ Stop
    /\ UNCHANGED <<serverVars, session, historyVars>>

AuthPage ==
    \/ CheckLoginRateLimit \/ AskLogin \/ RecordLoginFailure
    \/ LoggedIn \/ LeaveAuth

-----------------------------------------------------------------------------
(* The sidebar, and the tabs for sending                                   *)

\* A session without a role sees three tabs: nothing to upload, nothing to send.
FullView == session.profile # NoId

Sidebar == At("sidebar") /\ run.clicked /\ SignOut

DashboardAccess ==
    /\ At("sidebar")
    /\ Set("audit_log", Audited)
    /\ Proceed(IF FullView THEN "upload" ELSE "files")
    /\ UNCHANGED <<serverVars, historyVars>>

\* Nothing but where the script stands changes.
Step(stage) == Proceed(stage) /\ UNCHANGED <<serverVars, session, historyVars>>

\* The directory is asked for when the document type has a recipient to choose.
UploadTab ==
    \/ At("upload") /\ Fetch(Directory) /\ UNCHANGED session
    \/ /\ At("upload") \/ Answered("upload", {"ok"})
       /\ \E f \in Files : Button(Call("upload", f)) /\ UNCHANGED session
    \/ At("upload") /\ Step("files")
    \/ Answered("upload", {"ok"} \cup Failure) /\ Step("files")
    \/ run.stage = "upload" /\ AutoLogout

\* Slip: whatever is not an error has been delivered.
AnnounceUnlessRefused ==
    /\ Answered("send", {"ok"} \cup Failure) /\ run.call.kind = "send"
    /\ sends' = IF run.status # "refused" THEN [sends EXCEPT !.unannounced = @ - 1]
                ELSE InDoubt
    /\ Proceed("inbox")
    /\ UNCHANGED <<serverVars, session, failed, erased, cut>>

\* What the user is told of a message; "doubt" after anything but 201.
AnnounceSend ==
    /\ Answered("send", {"ok"} \cup Failure) /\ run.call.kind = "send"
    /\ sends' = IF run.status = "ok" THEN [sends EXCEPT !.unannounced = @ - 1]
                ELSE InDoubt
    /\ Proceed("inbox")
    /\ UNCHANGED <<serverVars, session, failed, erased, cut>>

SendTab ==
    \/ At("send") /\ Fetch(Directory) /\ UNCHANGED session
    \/ /\ Answered("send", {"ok"}) /\ run.call = Directory
       /\ \E u \in Ids : Button(Call("send", u)) /\ UNCHANGED session
    \/ /\ Answered("send", {"ok"} \cup Failure) /\ run.call = Directory
       /\ Step("inbox")
    \/ AnnounceSend
    \/ run.stage = "send" /\ AutoLogout

-----------------------------------------------------------------------------
(* The file inbox                                                          *)

AfterFiles == IF FullView THEN "send" ELSE "inbox"

\* With an active file every run asks for its plaintext again, whatever the user
\* did; the answer is shown and forgotten.
ActiveFile ==
    /\ session.active_file_id # NoFile
    /\ \/ /\ At("files") /\ run.clicked
          /\ Set("active_file_id", NoFile)
          /\ Rerun /\ UNCHANGED <<serverVars, historyVars>>
       \/ /\ At("files")
          /\ Fetch(Call("open", session.active_file_id)) /\ UNCHANGED session
       \/ Answered("files", {"ok"} \cup Failure) /\ Step(AfterFiles)

\* The list is asked for when it is not in the session, and an answer that is
\* not 200, or none, is kept as an empty list.
FileList ==
    /\ session.active_file_id = NoFile
    /\ \/ /\ At("files")
          /\ \/ session.file_inbox_data = NotLoaded /\ Fetch(Call("refresh_files", NoId))
             \/ Button(Call("refresh_files", NoId))
          /\ Set("file_inbox_data", NotLoaded)
       \/ /\ Answered("files", {"ok"} \cup Failure)
          /\ Set("file_inbox_data", run.data)
          /\ Proceed(AfterFiles)
          /\ UNCHANGED <<serverVars, historyVars>>
       \/ /\ At("files") /\ session.file_inbox_data # NotLoaded
          /\ \/ Step(AfterFiles)
             \/ \E f \in session.file_inbox_data :
                   /\ run.clicked /\ Set("active_file_id", f)
                   /\ Rerun /\ UNCHANGED <<serverVars, historyVars>>

DownloadTab == ActiveFile \/ FileList \/ (run.stage = "files" /\ AutoLogout)

-----------------------------------------------------------------------------
(* The message lists                                                       *)

\* Without a good answer to a refresh the messages are not rendered.
RefreshInbox ==
    \/ At("inbox") /\ Button(Call("refresh_inbox", NoId)) /\ UNCHANGED session
    \/ /\ Answered("inbox", {"ok"}) /\ run.call.kind = "refresh_inbox"
       /\ Set("inbox_messages", run.data)
       /\ Proceed("sent") /\ UNCHANGED <<serverVars, historyVars>>

Unlock ==
    \/ \E m \in session.inbox_messages \ session.decrypted_inbox :
          At("inbox") /\ Button(Call("unlock", m)) /\ UNCHANGED session
    \/ /\ Answered("inbox", {"ok"}) /\ run.call.kind = "unlock"
       /\ Set("decrypted_inbox", session.decrypted_inbox \cup {run.call.of})
       /\ Rerun /\ UNCHANGED <<serverVars, historyVars>>

\* Slip: only the list is updated.
DeletedKeepingPlaintext ==
    /\ Answered("inbox", {"ok"}) /\ run.call.kind = "delete"
    /\ session' = [session EXCEPT !.inbox_messages = @ \ {run.call.of}]
    /\ Rerun /\ erased' = erased \cup {run.call.of}
    /\ UNCHANGED <<serverVars, failed, sends, cut>>

\* The plaintext goes, then the entry of the list, then the user is told.
Deleted ==
    /\ Answered("inbox", {"ok"}) /\ run.call.kind = "delete"
    /\ LET relocked == [session EXCEPT !.decrypted_inbox = @ \ {run.call.of}]
           unlisted == [relocked EXCEPT !.inbox_messages = @ \ {run.call.of}] IN
       \/ session' = relocked /\ Stop /\ UNCHANGED erased
       \/ session' = unlisted /\ Rerun /\ erased' = erased \cup {run.call.of}
    /\ UNCHANGED <<serverVars, failed, sends, cut>>

InboxTab ==
    \/ RefreshInbox \/ Unlock
    \/ \E m \in session.inbox_messages :
          At("inbox") /\ Button(Call("delete", m)) /\ UNCHANGED session
    \/ Deleted
    \/ (At("inbox") \/ Answered("inbox", Failure)) /\ Step("sent")
    \/ run.stage = "inbox" /\ AutoLogout

SentTab ==
    \/ At("sent") /\ Button(Call("refresh_sent", NoId)) /\ UNCHANGED session
    \/ /\ At("sent") \/ Answered("sent", Failure)
       /\ Stop /\ UNCHANGED <<serverVars, session, historyVars>>
    \/ /\ Answered("sent", {"ok"})
       /\ Set("sent_messages", run.data)
       /\ Stop /\ UNCHANGED <<serverVars, historyVars>>
    \/ run.stage = "sent" /\ AutoLogout

Dashboard ==
    \/ Sidebar \/ DashboardAccess \/ UploadTab \/ DownloadTab
    \/ SendTab \/ InboxTab \/ SentTab

-----------------------------------------------------------------------------
(* The world around                                                        *)

\* A second passes.
Tick ==
    /\ session' = [session EXCEPT
          !.token.age = IF session.token # NoToken /\ @ <= TokenLife THEN @ + 1 ELSE @,
          !.locked = IF @ > 0 THEN @ - 1 ELSE @]
    /\ failed' = {[f EXCEPT !.age = @ + 1] : f \in {g \in failed : g.age + 1 < Lockout}}
    /\ UNCHANGED <<serverVars, run, sends, erased, cut>>

\* Someone else's browser: a message is sent or deleted, a file uploaded.
Elsewhere ==
    /\ \/ MailNext /\ UNCHANGED files
       \/ \E f \in Files, r \in Ids :
             /\ files[f] = NoId /\ files' = [files EXCEPT ![f] = r]
             /\ UNCHANGED box
    /\ UNCHANGED <<session, run, historyVars>>

Next ==
    \/ Click
    \/ AuthPage \/ Dashboard
    \/ Tick \/ Elsewhere

Spec == Init /\ [][Next]_vars

-----------------------------------------------------------------------------

\* Types of the variables.
TypeOK ==
    /\ box \in [RowIds -> Row \cup {NoRow}]
    /\ files \in [Files -> Ids \cup {NoId}]
    /\ session \in Session /\ run \in Run
    /\ failed \subseteq LoginFailure
    /\ sends \in [unannounced : Int, doubt : 0 .. MaxId]
    /\ erased \subseteq RowIds
    /\ cut \in BOOLEAN

User == session.token.user

\* Neither logging out, nor a token that expires in the middle of a page, leaves
\* messages, their plaintext, the activity log or an open file of one user to
\* the next one, or to the login page -- unless the logout itself was cut short
\* (frontend.py:221-230, 373-377).
NothingIsLeftBehind == ~ cut =>
    /\ \A m \in session.inbox_messages \cup session.decrypted_inbox :
          m \in Stored /\ box[m].receiver = User
    /\ \A m \in session.sent_messages : m \in Stored /\ box[m].sender = User
    /\ session.audit_log \subseteq {session.profile}
    /\ session.active_file_id # NoFile => User # NoId

\* Caption of the file inbox, frontend.py:996: "Secure files sent to you."
FileListIsOwn ==
    User # NoId /\ session.file_inbox_data # NotLoaded =>
        \A f \in session.file_inbox_data : files[f] = User

\* A message of which the user was told that it is deleted does not come back in
\* this session: neither its entry nor its plaintext, whatever lists were on
\* their way (frontend.py:1232-1248).
ErasedStaysHidden ==
    erased \cap (session.inbox_messages \cup session.decrypted_inbox) = {}

\* Within _LOCKOUT_SECONDS no more than _MAX_LOGIN_ATTEMPTS attempts in a row are
\* shown to fail, wherever a click stops the counting and the locking.  A failure
\* the user clicked away before it was shown is not among them (frontend.py:98-116,
\* 513-565).
FailuresAreBounded == Cardinality(failed) <= MaxAttempts

\* Every message announced as delivered is one of its own in the table, and as
\* long as no send ended in an error, a timeout or a click there are no others
\* of this session (frontend.py:1093-1115, communication.py:142-158).
DeliveriesAreBacked ==
    sends.unannounced \in
        0 .. sends.doubt + (IF run.call.kind = "send" THEN 1 ELSE 0)

=============================================================================
