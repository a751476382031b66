-------------------------- MODULE AerospikeStorage --------------------------
(***************************************************************************)
(* The Aerospike storage drivers of storage/aerospike_storage_threadpool.py *)
(* as seen by concurrent callers: setnx_value, set_value, get_value and    *)
(* del_value, each run in the thread pool as sync_set / sync_get /         *)
(* sync_del under the decorator                                            *)
(* run_with_retry_on_timeouts.                                              *)
(*                                                                         *)
(* The server holds one record per bucket.  AerospikeStorage is the case   *)
(* where every key is its own bucket (BucketOf injective, a record holds   *)
(* a single value and remove deletes it); AerospikeLayeredStorage stores   *)
(* the keys of a bucket as entries of the bucket record's map, and         *)
(* map_remove_by_key removes the entry but leaves the record.              *)
(*                                                                         *)
(* One attempt of a call either completes, or raises TimeoutError after    *)
(* the server applied it, or raises TimeoutError before it was applied.    *)
(***************************************************************************)
EXTENDS Naturals, FiniteSets

CONSTANTS
  Clients,     \* concurrent callers of the storage
  Keys,        \* storage keys
  Values,      \* values written
  Buckets,     \* record keys on the server
  BucketOf,    \* get_bucket_key: the record that holds a key
  Layered,     \* TRUE for AerospikeLayeredStorage
  RETRY_COUNT, \* the retry budget of run_with_retry_on_timeouts
  MaxCalls,    \* bound on the number of calls made
  NoValue,     \* a key without a value
  NoRecord     \* a record that does not exist

ASSUME BucketOf \in [Keys -> Buckets]
ASSUME Layered \in BOOLEAN
ASSUME RETRY_COUNT \in Nat \ {0}
ASSUME ~Layered => \A k1, k2 \in Keys : BucketOf[k1] = BucketOf[k2] => k1 = k2

VARIABLES
  records,  \* the server: bucket -> NoRecord or a map from keys to values
  call,     \* each caller's current (or last) call
  calls,    \* number of calls made so far
  winners   \* history: the setnx calls that returned True for a key since its last delete

vars == <<records, call, calls, winners>>

Ops == {"setnx", "set", "get", "del"}
Outcomes == {"ok", "timeout_applied", "timeout_unapplied"}
\* The Python results True and False, a value read (NoValue for None), or an
\* exception raised to the caller.
Results == {"True", "False", "raised"} \cup Values \cup {NoValue}

\* wrote is history: an attempt of this setnx call has put its value.
Call == [op : Ops, key : Keys, value : Values, attempt : 1 .. RETRY_COUNT,
         status : {"idle", "running", "returned"}, result : Results,
         wrote : BOOLEAN]

\* The value a key holds on the server.
Stored(k) ==
  IF records[BucketOf[k]] = NoRecord THEN NoValue ELSE records[BucketOf[k]][k]

EmptyMap == [k \in Keys |-> NoValue]

\* put / map_put of value under key k: creates the record if needed.
Put(k, v) ==
  [records EXCEPT ![BucketOf[k]] =
     [IF @ = NoRecord THEN EmptyMap ELSE @ EXCEPT ![k] = v]]

\* remove deletes the record; map_remove_by_key only the entry.
Remove(k) ==
  [records EXCEPT ![BucketOf[k]] = IF Layered THEN [@ EXCEPT ![k] = NoValue] ELSE NoRecord]

-----------------------------------------------------------------------------

\* get_value and del_value take no value; the call record holds a fixed one.
NoArgument == CHOOSE v \in Values : TRUE

Init ==
  /\ records = [b \in Buckets |-> NoRecord]
  /\ call = [c \in Clients |-> [op |-> "set", key |-> CHOOSE k \in Keys : TRUE,
                               value |-> NoArgument, attempt |-> 1,
                               status |-> "idle", result |-> "False",
                               wrote |-> FALSE]]
  /\ calls = 0
  /\ winners = [k \in Keys |-> {}]

\* setnx_value, set_value or del_value submitted to the thread pool.
Invoke(c, op, k, v) ==
  /\ call[c].status # "running"
  /\ calls < MaxCalls
  /\ op \in {"get", "del"} => v = NoArgument
  /\ call' = [call EXCEPT ![c] = [op |-> op, key |-> k, value |-> v, attempt |-> 1,
                                  status |-> "running", result |-> "False",
                                  wrote |-> FALSE]]
  /\ calls' = calls + 1
  /\ UNCHANGED <<records, winners>>

\* The call returns result.
Return(c, result) ==
  [call EXCEPT ![c].status = "returned", ![c].result = result]

\* Mutant: the retry loop does not count its attempts.
AfterTimeoutUncounted(c, failResult) == call

\* Mutant: the last attempt is not recognised (n_retries > count).
AfterTimeoutOffByOne(c, failResult) ==
  IF call[c].attempt > RETRY_COUNT
    THEN Return(c, failResult)
    ELSE [call EXCEPT ![c].attempt = @ + 1]

\* run_with_retry_on_timeouts after a TimeoutError: sleep and retry, or after
\* the last attempt re-raise (reraise_on_fail) or return fail_value.
AfterTimeout(c, failResult) ==
  IF call[c].attempt = RETRY_COUNT
    THEN Return(c, failResult)
    ELSE [call EXCEPT ![c].attempt = @ + 1]

\* Mutant: setnx is written with the default (IGNORE) policy.
CreateConflictIgnored(c) == FALSE

\* POLICY_EXISTS_CREATE fails with RecordExistsError: checked on the record,
\* so in the layered store on the whole bucket.
CreateConflict(c) ==
  call[c].op = "setnx" /\ records[BucketOf[call[c].key]] # NoRecord

\* One attempt of sync_set with the setnx (POLICY_EXISTS_CREATE) or set
\* (POLICY_EXISTS_IGNORE) write policy; RecordExistsError is caught in sync_set
\* and returns False, a timeout is retried by the decorator.
SetAttempt(c, outcome) ==
  /\ call[c].status = "running"
  /\ call[c].op \in {"setnx", "set"}
  /\ LET k == call[c].key
     IN IF CreateConflict(c)
          THEN /\ outcome = "ok"
               /\ call' = Return(c, "False")
               /\ UNCHANGED <<records, winners>>
          ELSE /\ records' = IF outcome = "timeout_unapplied" THEN records
                            ELSE Put(k, call[c].value)
               /\ call' = LET next == IF outcome = "ok" THEN Return(c, "True")
                                   ELSE AfterTimeout(c, "raised")
                       IN IF outcome # "timeout_unapplied" /\ call[c].op = "setnx"
                            THEN [next EXCEPT ![c].wrote = TRUE] ELSE next
               /\ winners' = IF outcome = "ok" /\ call[c].op = "setnx"
                             THEN [winners EXCEPT ![k] = @ \cup {c}] ELSE winners
  /\ UNCHANGED calls

\* Mutant: sync_get under the decorator of sync_del, returning None after the
\* last timeout instead of re-raising.
GetAttemptNoReraise(c, outcome) ==
  /\ call[c].status = "running"
  /\ call[c].op = "get"
  /\ outcome # "timeout_applied"
  /\ call' = IF outcome = "ok" THEN Return(c, Stored(call[c].key))
              ELSE AfterTimeout(c, NoValue)
  /\ UNCHANGED <<records, calls, winners>>

\* One attempt of sync_get: get / map_get_by_key returns the value, and
\* RecordNotFound (or an absent entry) None; a read changes nothing on the
\* server, so a timeout is only "timeout_unapplied".  The decorator re-raises
\* after the last timeout (reraise_on_fail=True).
GetAttempt(c, outcome) ==
  /\ call[c].status = "running"
  /\ call[c].op = "get"
  /\ outcome # "timeout_applied"
  /\ call' = IF outcome = "ok" THEN Return(c, Stored(call[c].key))
              ELSE AfterTimeout(c, "raised")
  /\ UNCHANGED <<records, calls, winners>>

\* One attempt of sync_del: remove / map_remove_by_key; RecordNotFound (or
\* an absent entry) returns False, and after the last timeout the decorator
\* returns fail_value False.  del_value discards the result.
DelAttempt(c, outcome) ==
  /\ call[c].status = "running"
  /\ call[c].op = "del"
  /\ LET k == call[c].key
         absent == IF Layered THEN Stored(k) = NoValue ELSE records[BucketOf[k]] = NoRecord
     IN IF absent
          THEN /\ outcome = "ok"
               /\ call' = Return(c, "False")
               /\ UNCHANGED <<records, winners>>
          ELSE /\ records' = IF outcome = "timeout_unapplied" THEN records ELSE Remove(k)
               /\ call' = IF outcome = "ok" THEN Return(c, "True") ELSE AfterTimeout(c, "False")
               /\ winners' = IF outcome = "timeout_unapplied" THEN winners
                             ELSE [winners EXCEPT ![k] = {}]
  /\ UNCHANGED calls

Next ==
  \/ \E c \in Clients, op \in Ops, k \in Keys, v \in Values : Invoke(c, op, k, v)
  \/ \E c \in Clients, outcome \in Outcomes : SetAttempt(c, outcome)
  \/ \E c \in Clients, outcome \in Outcomes : GetAttempt(c, outcome)
  \/ \E c \in Clients, outcome \in Outcomes : DelAttempt(c, outcome)

\* The thread pool runs every submitted call: each attempt completes or times
\* out (the client's socket timeout), so a running call keeps taking steps.
Fairness ==
  \A c \in Clients : WF_vars(\E outcome \in Outcomes :
                                     \/ SetAttempt(c, outcome)
                                     \/ GetAttempt(c, outcome)
                                     \/ DelAttempt(c, outcome))

Spec == Init /\ [][Next]_vars /\ Fairness

-----------------------------------------------------------------------------
(* Properties *)

TypeOK ==
  /\ records \in [Buckets -> {NoRecord} \cup [Keys -> Values \cup {NoValue}]]
  /\ call \in [Clients -> Call]
  /\ calls \in 0 .. MaxCalls
  /\ winners \in [Keys -> SUBSET Clients]

\* setnx_value is an exclusive create: between two deletes of a key, at most
\* one caller's setnx returns True for it, whatever retries after timeouts and
\* concurrent sets, setnx and deletes of keys in the same bucket happen.
SetnxSingleWinner ==
  \A k \in Keys : Cardinality(winners[k]) <= 1

\* setnx_value returns True exactly when it wrote its value (spec.md 4.1:
\* set_if_absent is "true iff written"), even when an attempt timed out after
\* the server applied the put and run_with_retry_on_timeouts retried it.
SetnxTrueIffWritten ==
  [][\A c \in Clients :
       /\ call[c].status = "running" /\ call[c].op = "setnx"
       /\ call'[c].status = "returned" /\ call'[c].result \in {"True", "False"}
       => (call'[c].result = "True" <=> call'[c].wrote)]_vars

\* get_value returns what its key holds on the server when it returns: a
\* value only if the key holds it, None only if the key holds nothing.  A get
\* whose every attempt timed out raises rather than answering None, which
\* get_committee_batch_info would take for a missing batch info.
GetReadsStored ==
  [][\A c \in Clients :
       /\ call[c].status = "running" /\ call[c].op = "get"
       /\ call'[c].status = "returned" /\ call'[c].result # "raised"
       => call'[c].result = Stored(call[c].key)]_vars

\* Every storage call returns (or raises) after at most RETRY_COUNT attempts.
CallsReturn ==
  \A c \in Clients : call[c].status = "running" ~> call[c].status = "returned"

=============================================================================
