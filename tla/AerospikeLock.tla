--------------------------- MODULE AerospikeLock ---------------------------
(***************************************************************************)
(* The distributed lock of storage/aerospike_lock.py: a lock is an         *)
(* Aerospike record created with POLICY_EXISTS_CREATE and a TTL.  lock()   *)
(* retries try_lock n_retries times; the lock object's extend() touches    *)
(* the record (resetting its TTL) and leaving the `async with` block       *)
(* removes it.  Neither touch nor remove looks at who created the record. *)
(*                                                                         *)
(* Time advances in ticks of the record TTL.  A holder does not observe    *)
(* time; lease[c] is the time left of the TTL it last set, i.e. how long   *)
(* it may rightly consider itself the holder.                              *)
(***************************************************************************)
EXTENDS Naturals

CONSTANTS
  Clients,        \* processes using the lock manager
  TTL,            \* the ttl of try_lock and extend, in ticks
  N_RETRIES,      \* AerospikeLockManager.n_retries
  MaxLocks,       \* bound on the number of lock() calls
  HoldersOnTime,  \* whether every holder extends or releases before its TTL runs out
  NoRecord        \* the lock record does not exist

ASSUME TTL \in Nat \ {0}
ASSUME N_RETRIES \in Nat \ {0}
ASSUME HoldersOnTime \in BOOLEAN

VARIABLES
  record,  \* the lock record: NoRecord or its creator and remaining TTL
  pc,      \* each client: "idle", "locking" (inside lock()) or "holding"
  tries,   \* the try_lock attempts of the current lock() call
  lease,   \* the TTL left of the record as the client last set it
  locks    \* number of lock() calls so far

vars == <<record, pc, tries, lease, locks>>

Record == [owner : Clients, ttl : 1 .. TTL]

-----------------------------------------------------------------------------

Init ==
  /\ record = NoRecord
  /\ pc = [c \in Clients |-> "idle"]
  /\ tries = [c \in Clients |-> 0]
  /\ lease = [c \in Clients |-> 0]
  /\ locks = 0

\* AerospikeLockManager.lock is called.
Lock(c) ==
  /\ pc[c] = "idle"
  /\ locks < MaxLocks
  /\ pc' = [pc EXCEPT ![c] = "locking"]
  /\ tries' = [tries EXCEPT ![c] = 0]
  /\ locks' = locks + 1
  /\ UNCHANGED <<record, lease>>

\* Mutant: try_lock writes with the default (IGNORE) policy.
AcquireIgnoringRecord(c) ==
  /\ pc[c] = "locking"
  /\ record' = [owner |-> c, ttl |-> TTL]
  /\ pc' = [pc EXCEPT ![c] = "holding"]
  /\ lease' = [lease EXCEPT ![c] = TTL]
  /\ UNCHANGED <<tries, locks>>

\* The try_lock put succeeds: the record is created with the TTL.
Acquire(c) ==
  /\ pc[c] = "locking"
  /\ record = NoRecord
  /\ record' = [owner |-> c, ttl |-> TTL]
  /\ pc' = [pc EXCEPT ![c] = "holding"]
  /\ lease' = [lease EXCEPT ![c] = TTL]
  /\ UNCHANGED <<tries, locks>>

\* Mutant: lock() retries until the put succeeds (no n_retries bound).
BusyUncounted(c) ==
  /\ pc[c] = "locking"
  /\ record # NoRecord
  /\ UNCHANGED <<record, pc, tries, lease, locks>>

\* Mutant: the retry bound is checked one attempt late.
BusyOffByOne(c) ==
  /\ pc[c] = "locking"
  /\ record # NoRecord
  /\ tries' = [tries EXCEPT ![c] = @ + 1]
  /\ pc' = [pc EXCEPT ![c] = IF tries[c] + 1 > N_RETRIES THEN "idle" ELSE "locking"]
  /\ UNCHANGED <<record, lease, locks>>

\* The put fails with RecordExistsError: LockError, sleep and retry, or after
\* n_retries attempts lock() raises LockError.
Busy(c) ==
  /\ pc[c] = "locking"
  /\ record # NoRecord
  /\ tries' = [tries EXCEPT ![c] = @ + 1]
  /\ pc' = [pc EXCEPT ![c] = IF tries[c] + 1 = N_RETRIES THEN "idle" ELSE "locking"]
  /\ UNCHANGED <<record, lease, locks>>

\* The put raises TimeoutError, which try_lock does not catch: lock() fails,
\* whether or not the server created the record.
AcquireTimeout(c, applied) ==
  /\ pc[c] = "locking"
  /\ record = NoRecord
  /\ record' = IF applied THEN [owner |-> c, ttl |-> TTL] ELSE record
  /\ pc' = [pc EXCEPT ![c] = "idle"]
  /\ UNCHANGED <<tries, lease, locks>>

\* AerospikeLockObject.extend: touch resets the TTL of whatever record exists;
\* on a missing record touch raises and the `async with` block is left.
Extend(c) ==
  /\ pc[c] = "holding"
  /\ IF record = NoRecord
       THEN /\ pc' = [pc EXCEPT ![c] = "idle"]
            /\ lease' = [lease EXCEPT ![c] = 0]
            /\ UNCHANGED record
       ELSE /\ record' = [record EXCEPT !.ttl = TTL]
            /\ lease' = [lease EXCEPT ![c] = TTL]
            /\ UNCHANGED pc
  /\ UNCHANGED <<tries, locks>>

\* Leaving the `async with` block: _unlock removes the record, whoever made it.
Unlock(c) ==
  /\ pc[c] = "holding"
  /\ record' = NoRecord
  /\ pc' = [pc EXCEPT ![c] = "idle"]
  /\ lease' = [lease EXCEPT ![c] = 0]
  /\ UNCHANGED <<tries, locks>>

\* One tick: TTLs count down and an expired record disappears.  With
\* HoldersOnTime no holder lets its lease run out.
Tick ==
  /\ HoldersOnTime => \A c \in Clients : pc[c] = "holding" => lease[c] > 1
  /\ record' = IF record = NoRecord \/ record.ttl = 1 THEN NoRecord
               ELSE [record EXCEPT !.ttl = @ - 1]
  /\ lease' = [c \in Clients |-> IF lease[c] > 0 THEN lease[c] - 1 ELSE 0]
  /\ UNCHANGED <<pc, tries, locks>>

Next ==
  \/ \E c \in Clients : Lock(c)
  \/ \E c \in Clients : Acquire(c)
  \/ \E c \in Clients : Busy(c)
  \/ \E c \in Clients : Extend(c)
  \/ \E c \in Clients : Unlock(c)
  \/ \E c \in Clients, applied \in BOOLEAN : AcquireTimeout(c, applied)
  \/ Tick

\* The event loop resumes a coroutine inside lock(), and each put completes
\* or raises: a locking client keeps making attempts.  Holders and new
\* callers are users of the lock and get no fairness.
Fairness ==
  \A c \in Clients : WF_vars(Acquire(c) \/ Busy(c) \/ \E applied \in BOOLEAN : AcquireTimeout(c, applied))

Spec == Init /\ [][Next]_vars /\ Fairness

-----------------------------------------------------------------------------
(* Properties *)

TypeOK ==
  /\ record \in Record \cup {NoRecord}
  /\ pc \in [Clients -> {"idle", "locking", "holding"}]
  /\ tries \in [Clients -> 0 .. N_RETRIES]
  /\ lease \in [Clients -> 0 .. TTL]
  /\ locks \in 0 .. MaxLocks

\* A client holds the lock while it is inside the `async with` block and the
\* TTL it set has not run out.
Holds(c) == pc[c] = "holding" /\ lease[c] > 0

\* Mutual exclusion: no two clients hold the lock at once, across retries,
\* timed-out creates, extends and releases.
MutualExclusion ==
  \A c1, c2 \in Clients : Holds(c1) /\ Holds(c2) => c1 = c2

\* lock() ends: a client inside lock() gets the lock or raises LockError
\* after n_retries busy attempts, however long another client holds it.
LockCallsEnd ==
  \A c \in Clients : pc[c] = "locking" ~> pc[c] # "locking"

=============================================================================
