------------------------------ MODULE KeyStore ------------------------------
(***************************************************************************)
(* MockExternalKMS (routers/files.py): the key pairs under which session   *)
(* keys are wrapped, kept in a dictionary in the memory of each server     *)
(* process and made on first use.                                          *)
(*                                                                         *)
(* _ensure_keys_exist is entered by the pool threads that serve uploads    *)
(* (for the receiver's public key) and downloads (for the caller's private *)
(* key).  It has no lock: "is there a pair?", "store the one I made" and   *)
(* "return what is stored" are three steps, with an RSA key generation of  *)
(* some seconds between the first two.                                     *)
(***************************************************************************)
EXTENDS Naturals

CONSTANTS
    Threads,    \* pool threads, of all processes
    Procs,      \* server processes
    ProcOf,     \* the process each thread belongs to
    Ids,        \* the user ids keys are asked for
    NoId,       \* no user id
    MaxPairs    \* bound: pairs ever generated for one user

ASSUME ThreadsHaveProcesses == ProcOf \in [Threads -> Procs]
ASSUME NoIdIsNotAnId == NoId \notin Ids
ASSUME PairBound == MaxPairs \in Nat

VARIABLES
    store,      \* _key_store of each process: the pair of each user
    made,       \* how many pairs were ever generated for each user
    call        \* where each thread stands in _ensure_keys_exist

keyVars == <<store, made, call>>

(***************************************************************************)
(* The pairs of a user are numbered in the order in which they were        *)
(* generated; a key wrapped under one pair unwraps under that pair alone.  *)
(***************************************************************************)
NoPair == 0
Pairs == 0 .. MaxPairs

CallStages == {"out", "generate", "fetch", "returned", "raised"}
Call == [at : CallStages, user : Ids \cup {NoId}, pair : Pairs]
NoCall == [at |-> "out", user |-> NoId, pair |-> NoPair]

\* The dictionary entry thread t sees.
Entry(t, u) == store[ProcOf[t]][u]

KeyInit ==
    /\ store = [p \in Procs |-> [u \in Ids |-> NoPair]]
    /\ made = [u \in Ids |-> 0]
    /\ call = [t \in Threads |-> NoCall]

\* Slip: every call makes a new pair.
LookupToReplace(t, u) ==
    /\ call[t] = NoCall
    /\ call' = [call EXCEPT ![t] = [at |-> "generate", user |-> u, pair |-> NoPair]]
    /\ UNCHANGED <<store, made>>

\* Slip: nothing is made on first use.
LookupOnly(t, u) ==
    /\ call[t] = NoCall
    /\ call' = [call EXCEPT ![t] = [at |-> "fetch", user |-> u, pair |-> NoPair]]
    /\ UNCHANGED <<store, made>>

\* if user_id not in self._key_store
Lookup(t, u) ==
    /\ call[t] = NoCall
    /\ call' = [call EXCEPT ![t] =
          [at   |-> IF Entry(t, u) = NoPair THEN "generate" ELSE "fetch",
           user |-> u,
           pair |-> NoPair]]
    /\ UNCHANGED <<store, made>>

\* generate_rsa_keys, then the assignment into the dictionary.
Generate(t) ==
    /\ call[t].at = "generate"
    /\ LET u == call[t].user IN
          /\ made[u] < MaxPairs
          /\ made' = [made EXCEPT ![u] = @ + 1]
          /\ store' = [store EXCEPT ![ProcOf[t]][u] = made[u] + 1]
    /\ call' = [call EXCEPT ![t].at = "fetch"]

\* generate_rsa_keys raises CryptoError.
GenerateFails(t) ==
    /\ call[t].at = "generate"
    /\ call' = [call EXCEPT ![t].at = "raised"]
    /\ UNCHANGED <<store, made>>

\* return self._key_store[user_id]
Fetch(t) ==
    /\ call[t].at = "fetch"
    /\ call' = [call EXCEPT ![t].at = "returned", ![t].pair = Entry(t, call[t].user)]
    /\ UNCHANGED <<store, made>>

\* The caller has what it came for.
Leave(t) ==
    /\ call[t].at \in {"returned", "raised"}
    /\ call' = [call EXCEPT ![t] = NoCall]
    /\ UNCHANGED <<store, made>>

\* Process p stops and starts again with an empty dictionary.
Restart(p) ==
    /\ store' = [store EXCEPT ![p] = [u \in Ids |-> NoPair]]
    /\ call' = [t \in Threads |->
          IF ProcOf[t] = p THEN NoCall ELSE call[t]]
    /\ UNCHANGED made

KeyStep(t) == Generate(t) \/ GenerateFails(t) \/ Fetch(t)

-----------------------------------------------------------------------------

\* Types of the variables.
KeyTypeOK ==
    /\ store \in [Procs -> [Ids -> Pairs]]
    /\ made \in [Ids -> Pairs]
    /\ call \in [Threads -> Call]

\* The final "return self._key_store[user_id]" finds an entry whichever branch
\* led to it and whatever other threads stored meanwhile (files.py:80): no
\* KeyError, and nobody is handed "no key".
ReturnFindsAPair ==
    \A t \in Threads :
        /\ call[t].at = "fetch" => Entry(t, call[t].user) # NoPair
        /\ call[t].at = "returned" => call[t].pair # NoPair

\* No thread of process p is still between the test and the assignment for u.
Settled(p, u) ==
    /\ store[p][u] # NoPair
    /\ \A t \in Threads :
          ProcOf[t] = p /\ call[t].user = u => call[t].at # "generate"

\* Once the threads that raced for a user's first use are through, the user
\* keeps one pair for as long as the process lives (files.py:77).
SettledPairStays ==
    [][\A p \in Procs, u \in Ids :
          Settled(p, u) =>
              \/ store'[p][u] = store[p][u] /\ Settled(p, u)'
              \/ Restart(p)]_keyVars

=============================================================================
