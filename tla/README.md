# Verification of the Secure Digital Examination Management System

TLA+ modules, TLC configurations and TLAPS proofs for the portal in `src/`:
a FastAPI backend (registration, login, encrypted files, encrypted messages)
with a Streamlit front end. Paths and line numbers below are those of `src/`.

## 1. Inventory

### Components, their state and their operations

| Component | Code | State | Operations |
|---|---|---|---|
| User table | `models.py` User | rows under two unique keys, username and (role, department) | insert |
| Registration | `routers/auth.py` register_user | the request in flight | check username, check HOD, hash and make keys, insert + commit, refresh |
| Login and limiter | `routers/auth.py` login_user | `_failed_logins`, a list of times per address, in memory | filter and replace, count, verify, append |
| Mock KMS | `routers/files.py` MockExternalKMS | `_key_store`, a dictionary in memory | test, generate, store, return |
| Files | `routers/files.py` | `file_metadata`, `encrypted_keys`, blobs and buffers in the storage directory | upload, download, inbox, sent |
| Messages | `routers/communication.py` | `messages` | send, read, soft-delete, inbox, sent |
| Audit log | `models.py` FileAccessLog | `file_access_log` | append (files and messages, each in its own way) |
| Access tokens | `auth_service.py`, get_current_user | none on the server | issue, verify, look the user up |
| Crypto service | `crypto_service.py` | none | AES-GCM, RSA-OAEP, hashes |
| Front end | `frontend.py` | one Streamlit session per browser: token, profile, cached lists and plaintext, activity log, login counter and lockout | login page, sidebar, five tabs that call the API, logout |
| Database layer, settings, application, migrations | `database.py`, `config.py`, `main.py`, `alembic/` | engines, constants | sessions, health check, wiring |

### How they interact

Every handler is a plain `def`: FastAPI runs it in a pool thread, so the
handlers of one process interleave between any two statements, and several
processes share the database and the storage directory. Each request has a
database session of its own; a statement sees what is committed. What is kept
in the memory of a process (`_key_store`, `_failed_logins`) has no lock, is not
shared between processes and is lost by a restart. Uploads and downloads call
the key store; the key pairs that registration puts in the user's row are used
by messages only. A download answers with a `FileResponse` and a chain of
background tasks that runs after it.

The front end is one script. Whatever the user does runs it from the top, and it
waits for each answer of the API. Streamlit (`requirements.txt` pins 1.58) accepts
the next interaction at every call to `st` and every access to the session, so a
click ends the run there: after an answer has come and before it is used, or
between two assignments of a chain such as `_logout`. The session lives as long as
the browser tab and passes from one user to the next. A 401 in any tab logs out.

### What is hard, and what correctness means

* *Registration*: checks and insert are seconds apart; only the unique keys
  keep two requests apart. The table must keep its keys and every answer must
  be the truth.
* *Key store*: test, store and return are three steps. A key wrapped under a
  pair that is replaced, or that lives in another process, is lost.
* *Files*: three stores (disk, database, key store) are written one after the
  other, with an error path after each, and a crash can come anywhere. A row
  must have its blob, a blob without a row must have an explanation, plaintext
  must go to the receiver alone and not stay on disk, and the log must be true.
* *Messages*: lookups, deletions and reads of two users race. A deletion that
  has been answered must hold.
* *Login*: counting and verifying are separated by a slow step.
* *Front end*: the cached data belong to a user, the session does not. What is cached
  must leave with its user, by the button, by an expired token or by both; what the
  user was told (deleted, delivered, locked out) must be true of the server.

`PROJECT.json` lists each hazard at its line with the properties aimed at it.

## 2. Modules

| Module | Models | Uses |
|---|---|---|
| `UserDirectory` | what the user table promises (abstract specification) | |
| `Registration` | POST /auth/register | `UserDirectory` (refinement) |
| `Login` | POST /auth/login for one client address | |
| `KeyStore` | MockExternalKMS | |
| `FileTransfer` | the file handlers, storage directory and audit log | extends `KeyStore`, uses `UserDirectory` for the rows its routing reads |
| `Mailbox` | what the message service promises (abstract specification) | |
| `Messaging` | the message handlers | `Mailbox` (refinement) |
| `FrontEnd` | one browser session: `_logout`, the request client, the login page, the dashboard and its tabs; issue and check of tokens | extends `Mailbox`, the service it talks to |
| `RegistrationProofs`, `MessagingProofs`, `LoginProofs`, `FrontEndProofs` | theorems about the module of that name | extend it |
| `FileTransferProofs`, `FileRecordsProofs`, `FileKeysProofs` | theorems about `FileTransfer`: types, blobs and plaintext; lists, routing, log and disk; the key store | each extends the one before |
| `MC...` | instances for TLC | |

### Correspondence of state and actions

`Registration`: `pc[r]` is the statement a thread is at, `payload[r]` the
validated `UserCreate`, `users` the committed rows. One action per statement
that reads or writes the database; `GenerateKeys` stands for `hash_password` and
`generate_rsa_keys`, which can raise; `Insert` is `db.add` and `db.commit`, whose
three outcomes are the row, `IntegrityError` (409) and any other exception (500
by the application's handler). Names and departments are typed in a raw form
and stored in a normal form, `NormName` and `NormDept` being the validators on
the small set of raw forms.

`KeyStore`: pairs are numbered in the order in which they were generated for a
user; 0 is "no entry". `Lookup`, `Generate` and `Fetch` are lines 77, 78-79 and 80 of
`routers/files.py`. The RSA generation and the assignment after it are one step,
because nothing can be seen between them.

`FileTransfer`: a file stands for its content, UUID, blob, AES key and row id, which
are made once per upload. `blob` is what the storage directory holds of it (`tmp`
before the rename, `bad` when it no longer parses or authenticates), `meta` is the
`file_metadata` row with the `encrypted_keys` row of the same transaction, `buffer` the
`.dl_*` file of a running download and `leftover` those whose request is over.
`delivered` and `faults` are history; `faults` keeps the failures some property makes an
exception for (`Excuses`). Everything before the first change (routing,
size, MIME and malware checks, encryption) is one action, `StartUpload`, whose refusals
change nothing. Every later step has its success and its error path in one action. The
error paths of an upload end in `Discard`: the file is unlinked, or the unlink itself (lines
262, 270 and 295), or the rollback before the last of them, raises and the file stays.
The comparison of hashes after a successful AES-GCM check cannot fail unless the
row changes, which no code does, so that branch of the download has no action of
its own.

`Mailbox`: `box` is the table `messages` with sender, receiver and flag. `Post` and
`Remove` are whole requests.

`Messaging`: `box` is the same table with the user whose public key the content is
wrapped under and the state of the content: intact, no JSON, JSON without its fields, or
altered. These are the three ways in which line 213 and the lines after it can fail: 500
with an audit row, 500 without one (no handler catches it), 422. `req[t].msg` is the
message asked for or, in a send, the row it has stored. `late` remembers that a request
arrived after a deletion of its message had been answered. `FileIds`, the ids in
`file_metadata`, is a constant, because nothing here depends on it but the finding below.
`mail` is the refinement mapping to `Mailbox`: it forgets key and content.

`FrontEnd`: `session` is `st.session_state` under its own key names, `profile` standing
for the four keys of the user. `run` is the script run: the `stage` the script has reached,
the request under way (`call`) and its answer. One request is one action that asks, and
what the script does with the answer is the next; `Click` may come between them.
Chains of assignments that are cut short are alternatives of one action: `SignOut`
(the first n keys of `_logout`), `LoggedIn`, `Deleted`, `CheckLoginRateLimit` (locked, and
the attempts not yet reset, so that a second lockout follows), `RecordLoginFailure` (counted
and not shown). `Request` gives the answers a
request can have: 401, what the service answers, an error after or before its effect, and
silence after or before its effect. `GET /auth/directory` has no `get_current_user` and
needs no token. Files are reduced to their receiver, accounts to their id, lists to sets of
ids. `failed`, `sends`, `erased` and `cut` are history: login failures are counted when they are
shown, as a set of records that carry their age and an unused number each; `sends` counts messages stored and not yet announced against the sends the user
was not told 201 about, `erased` the deletions that were announced.

`Login`: `failed` is the list of the address, `kept` the filtered copy a thread is
about to put in its place. The code filters the list, appends to it and takes its
length; its order plays no part, so it is a set of entries, and each entry has the number
of the 401 it was appended for, which keeps equal times apart. Reading and replacing are two steps. `append` is one
step on the current list. An append to a list that is replaced between the lookup of the
list and the call is the same lost failure as one between snapshot and
replacement, which the model has. `rejected` is history: the
entries of all attempts answered 401. `restarted` and `overlapped` are history too.

Definitions introduced by "Slip:" are variants of the definition after them with a
plausible bug. They belong to no specification; `PROJECT.json` pairs each with the
property that tells it from the code.

## 3. Runs

TLC checks deadlock in every run; the specifications cannot stop.

| Configuration | Instance | Shows |
|---|---|---|
| `MCRegistration` | 2 requests, 3 raw names for 2 users, 2 departments, HOD and FACULTY | types, one HOD per department, honest answers, refinement of `UserDirectory`, every registration ends |
| `MCFileTransferUpload` | 2 threads of 1 process, 2 files, 2 users, transaction and refresh failures | uploads are separate, rows keep blobs, failed uploads (also for receivers who do not exist) leave none, lists are complete, plaintext stays with its receiver; the key store returns a pair to everyone and a settled pair stays; a file that does not open is one whose receiver got a second pair |
| `MCFileTransferFaults` | 2 processes that crash, 1 file for an existing receiver, failures of writes, key generation, refresh, unlink, connections and the audit log | types, rows keep blobs, storage is accounted for, true success rows, and the same about files that do not open |
| `MCFileTransferLive` | 2 threads, exam papers of a department with two would-be HODs and of one without any, damaged blobs, failures of writes, key generation, transaction and refresh | a paper is committed for the one HOD although a second one tries to register meanwhile, uploads settle, deliveries are logged, plaintext is removed |
| `MCFileTransferRace` | 2 threads, no failure | **violated**: the receiver can decrypt |
| `MCFileTransferRefresh` | a refresh fails after its commit | **violated**: every row has its content on disk |
| `MCMessaging` | 2 threads, 3 users, 1 message, every failure, crashes | inbox and read agree, messages outlive restarts, the log is true, deletions hold, only parties delete, senders are told the truth, refinement of `Mailbox` |
| `MCMessagingAudit` | | **violated**: an audit row refers to a file |
| `MCLogin` | 2 threads, 4 clock readings, limit 2, window 2, restarts | no failure on the list that did not happen; without overlap the limit holds in every window and no lockout is undeserved |
| `MCLoginName` | a name with a capital letter | **violated**: the announced name logs in |
| `MCFrontEnd` | 2 users of one browser, 1 message, 1 file, tokens that expire after a second, requests that are lost or fail late | a full logout takes the user's data with it, announced deletions and deliveries are true, failures in a window are limited |
| `MCFrontEndFiles` | the same | **violated**: the file list is the user's own |

A file whose receiver has one pair only can always be opened: `LostFilesWereRaced` says so of
every interleaving, of two processes and of restarts. It has one exception, which the attempt to
prove it brought to light: a process without a pair of the receiver (another one, or the same
after a restart) that fails to generate one. The handler gives that failure the same answer,
500 "KMS unwrapping failed." (routers/files.py:359-364), and the file is not lost. `RecipientCanDecrypt` (run
`MCFileTransferRace`) is violated by the one case that remains inside a process, two first
uses of the key store for the same receiver, and `SettledPairStays` says that it is
over once those first uses are through.

The file list (`MCFrontEndFiles`) stays because `_logout` does not reset `file_inbox_data`
(frontend.py:223-229): the next user of the browser sees the names of the previous user's
files under the caption that they were sent to them. Opening one is refused by the API.
`NothingIsLeftBehind` covers the keys that are reset, for logouts that run to their
end; a click in the middle of `_logout` leaves the rest in place until the next one.

Two things met while modelling have no run. The answer 409 "Username already registered."
is also given when the name is free and the row clashes in (role, department), which
models.py:136 makes unique for every role; and the module comment of the front end
(frontend.py:10) announces an exponential back-off of login attempts, where the code has
one fixed lockout. The limiter of the server counts by client address, which for
all users of one front end is the address of the front end.

The login limit does not hold for attempts that overlap: a failure is appended only
after the slow verification, so attempts verified at the same time have all passed
the check, and a list that is replaced in between loses a failure or brings an expired one
back. `FailuresAreLimited` and `LockoutIsEarned` therefore carry the condition `~ overlapped`;
`FailuresAreReal` needs none. Two server processes have key stores of their own, so a file
uploaded through one cannot be opened through the other (README.md:126 says the
backend scales horizontally); `RecipientCanDecrypt` is a property of one process.

The violated properties each quote a text of the repository; `PROJECT.json`
"findings" has the quotations.

### Bounds, and why they are enough

* Two threads: every race here is between a thread that has tested something
  and one that changes it.
* Two files are needed where uploads could be confused with each other; the
  other runs follow one file, since the handlers of different files share only
  the key store.
* `MaxPairs` = 2: one pair and the one that replaces it, by a race or after a restart.
* `MCMessaging` has one message: no statement of a handler reads a row other than its own,
  and the one thing messages share, the next id, is proved about for any number.
* `MCFrontEnd` has two users, because one session has a user and a next one; one message
  and one file, because the pages treat their entries alike; a token life of 0, so that
  any token may expire between any two requests; two attempts and a lockout of two
  seconds in place of 5 and 300, so that a lockout is seen to begin, to age and to end.
* Three users (sender, receiver, anyone else) where access is the question; two
  departments where routing is.
* `Faults` names the failures a run allows. A run that allows all of them at once
  is too large, so each run takes those its properties are about; the theorems hold
  for every choice. `Posted` limits the document types in the same way.
* The limiter has limit 2 and window 2 in place of 5 and 60. `MaxTime` and `MaxRejected`
  let a window fill, run out, and fill again.
* `MaxId` is the number of message ids a run hands out.

Symmetry is used for threads, files and (in `Messaging` and `FrontEnd`) users where no liveness
property is checked and the constants do not tell them apart; with two processes the
threads change places together with their processes.

### Fairness

`FairSpec` asks weak fairness of the steps of each thread: a pool thread that has
started a handler, and the chain of background tasks behind a response, keep
running. It asks nothing of arrivals, registrations, crashes or faults. A crash
may end a request at any time, so `MCFileTransferLive` checks its properties without
crashes and without the failures that excuse a missing log row, a buffer or a blob that
stays (`send`, `unlink`, `audit`); a failed `write` is in the run and excused in
`PlaintextIsRemoved`. What the excused cases leave behind is in the safety property
`StorageIsAccountedFor`.

## 4. Proofs

All for every value of the constants under the named assumptions on them
(normalisers map into stored forms; profiles are rows with distinct names; null
values are not data and no user is the missing one; there is a name to type; limits and
windows are positive, bounds natural numbers). None of them relates two sizes: threads,
processes, users, files, messages and every limit are arbitrary.

`RegistrationProofs`
* `TypeCorrect`.
* `RegistrationImplementsDirectory`: every step adds one row that does not clash, or
  changes nothing (`TableStep`). `DepartmentsHaveOneHod` is then a fact of the
  abstract specification alone: `KeysAreUnique` is inductive for it.
* `CreatedIsTrue`: `CreatedMeansStored` is not inductive, since a request owns its row
  from the insert on, before it has answered. `OwnRows` says so of all requests
  that have inserted.
* `RefusalIsTrue`: inductive together with `OnlyHodsAreChecked`, because rows are never
  removed.

`FileTransferProofs`
* `TypeCorrect`: needs that a thread in a key store call asks for a real user and that
  stages past the start have complete requests (`TypeInv`).
* `UploadsAreSeparate` and `RecordedFilesStayStored`: one invariant (`StorageInv`) for
  both. That a row keeps its blob rests on no other upload holding the same file,
  and on the blob being there from the rename to the commit.
* `PlaintextStaysWithReceiver`: readers past the check are receivers, and rows are final
  (`RowsAreFinal`).

`MessagingProofs`, all properties of `MCMessaging`:
* `Base` is the common invariant: types; ids without gaps (`Numbered`), so that the id of
  a new row is new; what each thread may rely on past its lookup (`Grounded`); rows
  that name registered users. `TableStep` says that a step inserts one row, sets one flag,
  spoils one content or leaves the table alone, `ThreadStep` what it does to a thread.
* `MessagingImplementsMailbox`: an insert is a `Post`, a flag a `Remove` or, when another
  deletion was faster, nothing. `PartiesDelete` and `InboxMatchesRead` follow from `Base`.
* `ReceiversOpen` needs that a row's key is its receiver's (`RowsOpen`); `DeletionsHold` that a
  late request never gets past its lookup (`GoneIsFlagged`).
* `SendersAreTold` is not inductive: a send owns its row from the insert on
  (`SendsOwnRows`). `ReadsAreLogged` uses `RowsOpen` for the failure rows and `SendsOwnRows` to
  know that a thread at work has no old answer.

`FileRecordsProofs`, the rest of the file tables. It first says once how a thread moves
(`ThreadMoves`: by its own step or the crash of its process) and who writes rows, users,
blobs and the log; each theorem uses these facts and one invariant of its own.
* `FilesAreListed`: the parties of a row exist because the uploader of every upload under
  way exists and users are never removed (`PartiesInv`); the receiver is looked at in the
  transaction itself.
* `ExamPapersReachHods`, an action property of the committed row, which is written long after
  the lookup. What saves it is that no second HOD of the department can register meanwhile
  (`HodStays`, from the unique key), so that the receiver of an upload under way stays the
  one HOD (`PapersAreRouted`), and that the row a step commits is that of the one upload
  which owns the file (`UploadsOwnTheirFiles`).
* `AuditedSuccessesAreEarned`: not inductive without the order of the background tasks, that
  the second log task runs behind the first and both behind the delivery
  (`LogsFollowDeliveries`).
* `DiskIsAccountedFor`: uses the invariant of the plaintext proof and that an upload past its
  commit has its row (`CommittedUploadsAreRecorded`). Every other upload that ends takes its
  blob with it, or its process has died, or the unlink has failed (`UploadsEnd`); only an
  unlink that fails can leave a blob where none was (`BlobsAreUploaded`).

`FileKeysProofs`, the key store under the handlers that call it:
* `SettledPairsStay`, an action property: an entry is only assigned between test and return
  (`EntriesStay`), so nobody between the two means nobody who assigns.
* `ReturnsFindPairs`: a thread past the test has seen an entry or made one, and no thread of
  the process removes one.
* `LostFilesHaveCauses`: by counting. Every pair in use is one of the `made` pairs of its user
  (`PairsAreMade`); if that is one pair, two pairs of the user are equal, so a download that
  holds a pair has the right one, and a download that is about to make a second one finds
  its process without an entry (`NoPairHere`). Calls serve the party of their request
  (`CallsServeRequests`).

`LoginProofs`, all properties of `MCLogin`:
* `LoginTypes`: with `Numbered`, that the number of the next 401 is new; sets can then be
  counted where the code takes the length of a list.
* `ListHoldsFailures`: without any condition, since filtered copies are copies of parts of
  the list (`CopiesAreReal`), however old they are when they replace it.
* `LimiterLimits` rests on `SerialInv`, whose parts hold while attempts do not overlap: one
  attempt at a time, after everything on record (`OneAtATime`); what is no longer on
  the list has left the window of the attempt being served (`InOrder`); that attempt has seen the list
  filtered and short (`Filtered`). Then a failure that is recorded finds every other one
  of its window on the list (`RecordIsLimited`).
* `LockoutsAreEarned`: the list an attempt was refused over is part of `rejected` and inside
  the window; it stays so because the history only grows and the attempt keeps its time
  until the next one (`LockoutInv`).

`FrontEndProofs`, all properties of `MCFrontEnd`:
* A step of the dashboard is one of eleven kinds, whichever tab makes it (`DashboardMoves`);
  each invariant is then shown for the kinds. `Base` is common: types; the request under
  way is one the part of the page makes (`RequestsFit`), and the page fits the session
  (`PageFits`); message ids without gaps; `LimitInv`.
* `FrontEndLimits`: without a lockout the failures that count are no more than the
  session's counter, during one every failure is old enough to leave the window
  before it ends (`LimitInv`). The counter is reset after the lock is set, or not at all when a
  click comes between, so the first half says nothing of a lockout, and neither half can be
  dropped.
* `LogoutsTakeEverything` and `ErasedMessagesStayHidden` share `DataInv`: what an answer that
  has come holds (`AnswerInv`) is of the user whose session it is and not announced as
  deleted, although the table changes before the script uses it.
* `AnnouncementsAreBacked`: an answered send is in the count until it is announced or given up
  (`SendsInv`), and the count never exceeds the stored messages, so doubt does not run past
  its bound.

Only model-checked: liveness, because fairness is beyond the prover (`EveryRequestEnds`,
`UploadSettles`, `DeliveryIsAudited`, `PlaintextIsRemoved`). Every invariant and every action property
of the passing runs has a theorem. The violated properties are refuted by TLC.

## 5. Not modelled

* Tokens that are malformed or carry another signature: refused like an expired one.
  Outside `FrontEnd`, handlers start for any user whose row exists.
* The crypto service: other modules assume what it promises, that a session key
  opens only under the pair it was wrapped under and that damaged content does not
  authenticate.
* Blob parsing, the MIME check and the malware scan: guards without effects.
* In the front end: the registration form, validation of uploads before they are sent,
  the cache of user names (display only), widgets and layout.
* Health check, middleware, settings, migrations, the async engine (which has no
  caller), tests and scripts: no state that the handlers share, or no caller.
* `time.time()` going backwards, and more than one client address.

## 6. Plan

Done, in this order: registration and the abstract directory; key store; file
service with its proofs; messages; login; the mail service as an abstract
specification, its refinement and the proofs of `Messaging`; the front end; the proofs of the
remaining invariants of files and key store, of the login limiter and of the front end.

Next:
1. An abstract specification of the audit log that both services share, and the proof
   that the file service and the message service implement it.
2. `BlobFormat`: `_decode_blob` and the header as operators, round trip over bounded
   inputs.
