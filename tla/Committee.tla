----------------------------- MODULE Committee -----------------------------
(***************************************************************************)
(* The batch validator loop of a data-availability committee member       *)
(* (committee/committee/committee.py, class Committee) together with the   *)
(* parts of its environment it interacts with: the availability gateway   *)
(* (the operator's batches and its record of approved claims) and the     *)
(* key-value storage that holds the committee's batch infos and its       *)
(* next_batch_id counter.                                                  *)
(*                                                                         *)
(* A Merkle root is abstracted to the content of the tree it commits to   *)
(* (a function from leaf index to leaf): the hash is assumed collision    *)
(* resistant, so two roots are equal iff the trees are.  The update of a  *)
(* tree by a batch of modifications is the operator Apply, whose Merkle   *)
(* implementation is checked separately in module MerkleTree.             *)
(*                                                                         *)
(* Every await of the loop that can fail or be interrupted is a step      *)
(* boundary: the process may crash and restart between any two steps,    *)
(* storage writes may fail after or before they took effect, and the      *)
(* gateway may process a signature whose answer is then lost.             *)
(***************************************************************************)
EXTENDS Integers, FiniteSets, Functions, TLC

CONSTANTS
  CommitteeObjects, \* names of the configured trees, e.g. {"vault", "order", "rollup_vault"}
  ValidateOrders,   \* config.validate_orders
  ValidateRollup,   \* config.validate_rollup: TRUE, FALSE or NONE
  NONE,             \* the Python None of validate_rollup
  MaxBatch,         \* the operator creates batches 0 .. MaxBatch-1
  Idx,              \* leaf indices of every tree
  Leaves,           \* leaf values
  EmptyLeaf,        \* StateBase.empty() of the leaf class
  AllowObsoleteRoot,\* whether the operator may declare OBSOLETE_ORDER_TREE_ROOT
  AllowUpgrade,     \* whether the committee may start over a store left by an older version
  OperatorModifications, \* the modification sets the operator puts in one tree's update
  MaxCrashes,       \* bound on process crashes and restarts
  OBSOLETE_ORDER_TREE_ROOT, \* the "DEADBEEF" * 8 sentinel
  NoInfo,           \* a missing storage key
  NotCreated        \* a batch id the operator has not created yet

\* CommitteeConfig.load accepts the configuration: validate_orders is a
\* RequiredBoolean, validate_rollup an Optional[bool] with no validator (and
\* the default None), committee_objects a list of named objects that nothing
\* checks against the two flags.
CommitteeConfigAccepts(objects, validate_orders, validate_rollup) ==
  /\ validate_orders \in BOOLEAN
  /\ validate_rollup \in {TRUE, FALSE, NONE}
  /\ objects \subseteq {"vault", "position", "order", "rollup_vault"}

ASSUME CommitteeConfigAccepts(CommitteeObjects, ValidateOrders, ValidateRollup)
ASSUME MaxBatch \in Nat \ {0}
ASSUME EmptyLeaf \in Leaves
ASSUME OperatorModifications \subseteq UNION {[D -> Leaves] : D \in SUBSET Idx}
ASSUME MaxCrashes \in Nat
\* compute_hash_availability_claim asserts that the configuration names exactly
\* two claimed trees, "order" and "vault" or "position", besides "rollup_vault".
ASSUME /\ "order" \in CommitteeObjects
       /\ Cardinality(CommitteeObjects \ {"rollup_vault"}) = 2
       /\ \/ "vault" \in CommitteeObjects
          \/ "position" \in CommitteeObjects

VARIABLES
  \* Persistent storage (Storage of the committee).
  storage_batch_info,     \* key new_committee_batch_info:<id>
  storage_old_batch_info, \* key committee_batch_info:<id> of older versions
  storage_next_batch_id,  \* key committee_next_batch_id
  \* The committee process (lost on a crash).
  pc,
  stopped,
  next_batch_id,
  state_update,           \* the update returned by get_batch_data
  prev_batch_info,        \* the batch info read for state_update.prev_batch_id
  availability_claim,     \* the claim signed for next_batch_id
  \* The availability gateway.
  gw_batches,             \* the operator's batches, by batch id
  gw_approved,            \* the claims the gateway accepted, by batch id
  crashes                 \* number of crashes so far (bounded by MaxCrashes)

storage_vars == <<storage_batch_info, storage_old_batch_info, storage_next_batch_id>>
process_vars == <<pc, stopped, next_batch_id, state_update, prev_batch_info, availability_claim>>
gateway_vars == <<gw_batches, gw_approved>>
vars == <<storage_vars, process_vars, gateway_vars, crashes>>

-----------------------------------------------------------------------------
(* Data *)

BatchIds == 0 .. MaxBatch - 1
InfoIds == -1 .. MaxBatch - 1
SeqNums == -1 .. MaxBatch - 1

TreeContent == [Idx -> Leaves]
Root == TreeContent \cup {OBSOLETE_ORDER_TREE_ROOT}
\* A collection of (index, leaf) modifications with unique indices.
Modifications == UNION {[D -> Leaves] : D \in SUBSET Idx}

EmptyRoot == [i \in Idx |-> EmptyLeaf]

\* MerkleTree.update: the tree with the modified leaves replaced.
Apply(root, mods) == [i \in Idx |-> IF i \in DOMAIN mods THEN mods[i] ELSE root[i]]

\* The objects an older committee version stored (before the rollup tree).
LegacyObjects == CommitteeObjects \ {"rollup_vault"}

CommitteeBatchInfo ==
  [merkle_roots : [CommitteeObjects -> Root] \cup [LegacyObjects -> Root],
   sequence_number : SeqNums]

Batch == [prev_batch_id : -1 .. MaxBatch - 2,
          objects : [CommitteeObjects -> Modifications],
          roots : [CommitteeObjects -> Root],
          state : [CommitteeObjects -> TreeContent]]

Claim == [vaults_root : Root, trades_root : Root, seq_num : SeqNums]

\* The operator's tree contents after batch p (-1 is the empty state).
OperatorState(p) ==
  IF p = -1 THEN [o \in CommitteeObjects |-> EmptyRoot] ELSE gw_batches[p].state

-----------------------------------------------------------------------------
(* Committee helpers *)

\* Committee.get_committee_batch_info: the new key, else the old key.
ReadBatchInfo(id) ==
  IF storage_batch_info[id] # NoInfo THEN storage_batch_info[id]
  ELSE storage_old_batch_info[id]

\* The object names whose roots the committee recomputes (list.remove raises
\* if the name is not configured; validate_rollup None asserts no rollup tree).
ValidatedObjectNames ==
  LET v == IF ValidateOrders THEN CommitteeObjects ELSE CommitteeObjects \ {"order"}
  IN IF ValidateRollup = FALSE THEN v \ {"rollup_vault"} ELSE v

ValidatedNamesFail ==
  \/ ~ValidateOrders /\ "order" \notin CommitteeObjects
  \/ ValidateRollup = FALSE /\ "rollup_vault" \notin CommitteeObjects
  \/ ValidateRollup = NONE /\ "rollup_vault" \in CommitteeObjects

\* Mutant: the empty rollup tree is not synthesised for a legacy info.
PrevRootsNoRollupInit(info) == info.merkle_roots

\* The previous roots, with an empty rollup tree when the info predates it.
PrevRoots(info) ==
  IF "rollup_vault" \in CommitteeObjects /\ "rollup_vault" \notin DOMAIN info.merkle_roots
  THEN info.merkle_roots @@ ("rollup_vault" :> EmptyRoot)
  ELSE info.merkle_roots

\* Committee.compute_hash_availability_claim: the rollup tree is excluded.
VaultsObjectName == IF "vault" \in CommitteeObjects THEN "vault" ELSE "position"

ComputeClaim(info) ==
  [vaults_root |-> info.merkle_roots[VaultsObjectName],
   trades_root |-> info.merkle_roots["order"],
   seq_num |-> info.sequence_number]

\* The outcome of a storage write: it took effect and returned, it took effect
\* but the call raised (a timeout after the record was written), or it raised
\* before anything was written.
WriteOutcomes == {"ok", "failed_written", "failed_unwritten"}
Written(outcome) == outcome \in {"ok", "failed_written"}

-----------------------------------------------------------------------------
(* Initial states *)

FreshStorage ==
  /\ storage_batch_info = [id \in InfoIds |-> NoInfo]
  /\ storage_old_batch_info = [id \in InfoIds |-> NoInfo]
  /\ storage_next_batch_id = NoInfo
  /\ gw_batches = [b \in BatchIds |-> NotCreated]
  /\ gw_approved = [b \in BatchIds |-> {}]

\* A store left by a version that kept only the vault and order roots under
\* the old key and had approved batch 0; batch 0 had no rollup tree yet.
UpgradedStorage ==
  \E mods \in [LegacyObjects -> OperatorModifications] :
    LET objs == [o \in CommitteeObjects |-> IF o \in LegacyObjects THEN mods[o] ELSE <<>>]
        state == [o \in CommitteeObjects |-> Apply(EmptyRoot, objs[o])]
        info == [merkle_roots |-> [o \in LegacyObjects |-> state[o]], sequence_number |-> 0]
    IN /\ gw_batches = [b \in BatchIds |->
                          IF b = 0 THEN [prev_batch_id |-> -1, objects |-> objs,
                                         roots |-> state, state |-> state]
                          ELSE NotCreated]
       /\ storage_batch_info = [id \in InfoIds |-> NoInfo]
       /\ storage_old_batch_info = [id \in InfoIds |-> IF id = 0 THEN info ELSE NoInfo]
       /\ storage_next_batch_id = 1
       /\ gw_approved = [b \in BatchIds |-> IF b = 0 THEN {ComputeClaim(info)} ELSE {}]

Init ==
  /\ \/ FreshStorage
     \/ AllowUpgrade /\ UpgradedStorage
  /\ pc = "start"
  /\ stopped = FALSE
  /\ next_batch_id = NoInfo
  /\ state_update = NoInfo
  /\ prev_batch_info = NoInfo
  /\ availability_claim = NoInfo
  /\ crashes = 0

-----------------------------------------------------------------------------
(* The committee process *)

\* Committee.compute_initial_batch_info: empty trees, sequence number -1.
ComputeInitialBatchInfo ==
  /\ pc = "start"
  /\ storage_batch_info' = [storage_batch_info EXCEPT ![-1] =
        [merkle_roots |-> [o \in CommitteeObjects |-> EmptyRoot], sequence_number |-> -1]]
  /\ pc' = "load_next"
  /\ UNCHANGED <<storage_old_batch_info, storage_next_batch_id, stopped, next_batch_id,
                 state_update, prev_batch_info, availability_claim, gateway_vars, crashes>>

\* Committee.run: load next_batch_id, storing 0 if it is absent.
LoadNextBatchId ==
  /\ pc = "load_next"
  /\ IF storage_next_batch_id = NoInfo
       THEN /\ next_batch_id' = 0
            /\ storage_next_batch_id' = 0
       ELSE /\ next_batch_id' = storage_next_batch_id
            /\ UNCHANGED storage_next_batch_id
  /\ pc' = "loop"
  /\ UNCHANGED <<storage_batch_info, storage_old_batch_info, stopped, state_update,
                 prev_batch_info, availability_claim, gateway_vars, crashes>>

\* The loop condition: the process exits once stopped.
ExitLoop ==
  /\ pc = "loop"
  /\ stopped
  /\ pc' = "exited"
  /\ UNCHANGED <<storage_vars, stopped, next_batch_id, state_update, prev_batch_info,
                 availability_claim, gateway_vars, crashes>>

\* AvailabilityGatewayClient.get_batch_data returned an update.  The data may
\* miss modifications (the operator withholding data); a None answer or a
\* raised request leaves the state unchanged and is not a step.
GetBatchData(complete) ==
  /\ pc = "loop"
  /\ ~stopped
  /\ next_batch_id \in BatchIds
  /\ gw_batches[next_batch_id] # NotCreated
  /\ LET batch == gw_batches[next_batch_id]
         Sent(o) == {Restrict(batch.objects[o], D) : D \in SUBSET DOMAIN batch.objects[o]}
     IN \E objects \in [CommitteeObjects -> Modifications] :
          /\ \A o \in CommitteeObjects : objects[o] \in Sent(o)
          /\ complete = (objects = batch.objects)
          /\ state_update' = [batch EXCEPT !.objects = objects]
  /\ pc' = "read_prev"
  /\ UNCHANGED <<storage_vars, stopped, next_batch_id, prev_batch_info,
                 availability_claim, gateway_vars, crashes>>

\* validate_data_availability, first await: get_committee_batch_info_or_fail
\* for prev_batch_id; an info found only under the old key is first copied to
\* the new key, and a failure of that write ends the iteration.
ReadPrevBatchInfo(outcome) ==
  /\ pc = "read_prev"
  /\ LET id == state_update.prev_batch_id
         info == ReadBatchInfo(id)
         migrate == storage_batch_info[id] = NoInfo
     IN /\ info # NoInfo
        /\ outcome # "ok" => migrate
        /\ storage_batch_info' = IF migrate /\ Written(outcome)
                                 THEN [storage_batch_info EXCEPT ![id] = info]
                                 ELSE storage_batch_info
        /\ prev_batch_info' = IF outcome = "ok" THEN info ELSE prev_batch_info
        /\ pc' = IF outcome = "ok" THEN "compute" ELSE "loop"
  /\ UNCHANGED <<storage_old_batch_info, storage_next_batch_id, stopped, next_batch_id,
                 state_update, availability_claim, gateway_vars, crashes>>

\* The previous roots (with the rollup tree initialised), the roots the committee
\* recomputes, and the checks of validate_data_availability.
PrevRootsOfUpdate == PrevRoots(prev_batch_info)

ComputedRoots ==
  [o \in ValidatedObjectNames |-> Apply(PrevRootsOfUpdate[o], state_update.objects[o])]

\* compute_merkle_root raises on a missing previous root or one that is not a
\* tree whose nodes the committee stored.
ComputeFails ==
  \E o \in ValidatedObjectNames :
    IF o \in DOMAIN PrevRootsOfUpdate THEN PrevRootsOfUpdate[o] \notin TreeContent ELSE TRUE

\* Mutant: only the order root is compared.
RootMismatchOrderOnly ==
  /\ ~ComputeFails
  /\ "order" \in ValidatedObjectNames
  /\ state_update.roots["order"] # OBSOLETE_ORDER_TREE_ROOT
  /\ ComputedRoots["order"] # state_update.roots["order"]

\* A validated root differs from the declared one, unless the declared order
\* root is the obsolete-root sentinel.
RootMismatch ==
  /\ ~ComputeFails
  /\ \E o \in CommitteeObjects \cap ValidatedObjectNames :
       /\ ~(o = "order" /\ state_update.roots[o] = OBSOLETE_ORDER_TREE_ROOT)
       /\ ComputedRoots[o] # state_update.roots[o]

\* Mutant: the sequence number skips one.
NewBatchInfoSeqSkip ==
  [merkle_roots |-> [o \in CommitteeObjects |->
                       IF o \in ValidatedObjectNames THEN ComputedRoots[o]
                       ELSE state_update.roots[o]],
   sequence_number |-> prev_batch_info.sequence_number + 2]

\* The new batch info: the declared roots, overwritten by the computed ones.
NewBatchInfo ==
  [merkle_roots |-> [o \in CommitteeObjects |->
                       IF o \in ValidatedObjectNames THEN ComputedRoots[o]
                       ELSE state_update.roots[o]],
   sequence_number |-> prev_batch_info.sequence_number + 1]

\* Mutant: set_value is moved before the root comparison.
ValidationFailsAfterWrite ==
  /\ pc = "compute"
  /\ ValidatedNamesFail \/ ComputeFails \/ RootMismatch
  /\ storage_batch_info' = IF ValidatedNamesFail \/ ComputeFails THEN storage_batch_info
                           ELSE [storage_batch_info EXCEPT ![next_batch_id] = NewBatchInfo]
  /\ pc' = "loop"
  /\ UNCHANGED <<storage_old_batch_info, storage_next_batch_id, stopped, next_batch_id,
                 state_update, prev_batch_info, availability_claim, gateway_vars, crashes>>

\* A failed assertion (or raised error) of validate_data_availability before
\* the batch info is written ends the iteration.
ValidationFails ==
  /\ pc = "compute"
  /\ ValidatedNamesFail \/ ComputeFails \/ RootMismatch
  /\ pc' = "loop"
  /\ UNCHANGED <<storage_vars, stopped, next_batch_id, state_update, prev_batch_info,
                 availability_claim, gateway_vars, crashes>>

\* Mutant: a failed set_value of the batch info is ignored.
ComputeAndStoreBatchInfoIgnoreFailure(outcome) ==
  /\ pc = "compute"
  /\ ~(ValidatedNamesFail \/ ComputeFails \/ RootMismatch)
  /\ storage_batch_info' = IF Written(outcome)
                           THEN [storage_batch_info EXCEPT ![next_batch_id] = NewBatchInfo]
                           ELSE storage_batch_info
  /\ availability_claim' = ComputeClaim(NewBatchInfo)
  /\ pc' = "send"
  /\ UNCHANGED <<storage_old_batch_info, storage_next_batch_id, stopped, next_batch_id,
                 state_update, prev_batch_info, gateway_vars, crashes>>

\* validate_data_availability after the checks passed: store the new batch
\* info and compute the claim to sign.
ComputeAndStoreBatchInfo(outcome) ==
  /\ pc = "compute"
  /\ ~(ValidatedNamesFail \/ ComputeFails \/ RootMismatch)
  /\ storage_batch_info' = IF Written(outcome)
                           THEN [storage_batch_info EXCEPT ![next_batch_id] = NewBatchInfo]
                           ELSE storage_batch_info
  /\ availability_claim' = IF outcome = "ok" THEN ComputeClaim(NewBatchInfo)
                           ELSE availability_claim
  /\ pc' = IF outcome = "ok" THEN "send" ELSE "loop"
  /\ UNCHANGED <<storage_old_batch_info, storage_next_batch_id, stopped, next_batch_id,
                 state_update, prev_batch_info, gateway_vars, crashes>>

\* Mutant: the "signature accepted" assertion is dropped, so a request that
\* never reached the gateway counts as accepted.
SendSignatureLostAsAcked(delivery) ==
  /\ pc = "send"
  /\ gw_approved' =
       IF delivery \in {"acked", "unacked"}
       THEN [gw_approved EXCEPT ![next_batch_id] = @ \cup {availability_claim}]
       ELSE gw_approved
  /\ pc' = IF delivery \in {"acked", "lost"} THEN "advance" ELSE "loop"
  /\ UNCHANGED <<storage_vars, stopped, next_batch_id, state_update, prev_batch_info,
                 availability_claim, gw_batches, crashes>>

\* AvailabilityGatewayClient.send_signature.  "acked": the gateway recorded the
\* claim and answered "signature accepted"; "unacked": it recorded the claim
\* but the answer was lost (the request timed out or the retries ran out);
\* "lost": the request never reached it.
SendSignature(delivery) ==
  /\ pc = "send"
  /\ gw_approved' =
       IF delivery \in {"acked", "unacked"}
       THEN [gw_approved EXCEPT ![next_batch_id] = @ \cup {availability_claim}]
       ELSE gw_approved
  /\ pc' = IF delivery = "acked" THEN "advance" ELSE "loop"
  /\ UNCHANGED <<storage_vars, stopped, next_batch_id, state_update, prev_batch_info,
                 availability_claim, gw_batches, crashes>>

\* next_batch_id += 1 and storage.set_int; a failed write leaves the
\* in-memory counter advanced.
AdvanceNextBatchId(outcome) ==
  /\ pc = "advance"
  /\ next_batch_id' = next_batch_id + 1
  /\ storage_next_batch_id' = IF Written(outcome) THEN next_batch_id + 1
                              ELSE storage_next_batch_id
  /\ pc' = "loop"
  /\ UNCHANGED <<storage_batch_info, storage_old_batch_info, stopped, state_update,
                 prev_batch_info, availability_claim, gateway_vars, crashes>>

\* Committee.stop.
Stop ==
  /\ ~stopped
  /\ pc # "exited"
  /\ stopped' = TRUE
  /\ UNCHANGED <<storage_vars, pc, next_batch_id, state_update, prev_batch_info,
                 availability_claim, gateway_vars, crashes>>

\* The process dies (or exits) and is started again: memory is lost.
CrashRestart ==
  /\ pc # "start"
  /\ crashes < MaxCrashes
  /\ crashes' = crashes + 1
  /\ pc' = "start"
  /\ stopped' = FALSE
  /\ next_batch_id' = NoInfo
  /\ state_update' = NoInfo
  /\ prev_batch_info' = NoInfo
  /\ availability_claim' = NoInfo
  /\ UNCHANGED <<storage_vars, gateway_vars>>

-----------------------------------------------------------------------------
(* The operator *)

\* The operator creates batch b on top of an earlier batch (skipping aborted
\* ones); its declared order root may be the obsolete-root sentinel.
CreateBatch(b) ==
  /\ gw_batches[b] = NotCreated
  /\ b > 0 => gw_batches[b - 1] # NotCreated
  /\ \E prev \in -1 .. b - 1, objects \in [CommitteeObjects -> OperatorModifications],
        obsolete \in IF AllowObsoleteRoot THEN BOOLEAN ELSE {FALSE} :
       LET state == [o \in CommitteeObjects |-> Apply(OperatorState(prev)[o], objects[o])]
           roots == [o \in CommitteeObjects |->
                       IF o = "order" /\ obsolete THEN OBSOLETE_ORDER_TREE_ROOT ELSE state[o]]
       IN gw_batches' = [gw_batches EXCEPT ![b] =
            [prev_batch_id |-> prev, objects |-> objects, roots |-> roots, state |-> state]]
  /\ UNCHANGED <<storage_vars, process_vars, gw_approved, crashes>>

-----------------------------------------------------------------------------

\* One step of the committee process's own code (not stop(), not the operator).
ProcessStep ==
  \/ ComputeInitialBatchInfo
  \/ LoadNextBatchId
  \/ ExitLoop
  \/ \E complete \in BOOLEAN : GetBatchData(complete)
  \/ \E outcome \in WriteOutcomes : ReadPrevBatchInfo(outcome)
  \/ ValidationFails
  \/ \E outcome \in WriteOutcomes : ComputeAndStoreBatchInfo(outcome)
  \/ \E delivery \in {"acked", "unacked", "lost"} : SendSignature(delivery)
  \/ \E outcome \in WriteOutcomes : AdvanceNextBatchId(outcome)

Next ==
  \/ ComputeInitialBatchInfo
  \/ LoadNextBatchId
  \/ ExitLoop
  \/ \E complete \in BOOLEAN : GetBatchData(complete)
  \/ \E outcome \in WriteOutcomes : ReadPrevBatchInfo(outcome)
  \/ ValidationFails
  \/ \E outcome \in WriteOutcomes : ComputeAndStoreBatchInfo(outcome)
  \/ \E delivery \in {"acked", "unacked", "lost"} : SendSignature(delivery)
  \/ \E outcome \in WriteOutcomes : AdvanceNextBatchId(outcome)
  \/ Stop
  \/ CrashRestart
  \/ \E b \in BatchIds : CreateBatch(b)

\* The process is weakly fair (run never blocks forever); the gateway eventually serves the
\* complete data and acknowledges, and storage writes eventually succeed,
\* which the loop's unbounded retries make strongly fair.  Crashes, stop()
\* and the operator are not fair.
Fairness ==
  /\ WF_vars(ProcessStep)
  /\ SF_vars(GetBatchData(TRUE))
  /\ SF_vars(ReadPrevBatchInfo("ok"))
  /\ SF_vars(ComputeAndStoreBatchInfo("ok"))
  /\ SF_vars(SendSignature("acked"))
  /\ SF_vars(AdvanceNextBatchId("ok"))

Spec == Init /\ [][Next]_vars /\ Fairness

-----------------------------------------------------------------------------
(* Properties *)

TypeOK ==
  /\ storage_batch_info \in [InfoIds -> CommitteeBatchInfo \cup {NoInfo}]
  /\ storage_old_batch_info \in [InfoIds -> CommitteeBatchInfo \cup {NoInfo}]
  /\ storage_next_batch_id \in 0 .. MaxBatch \cup {NoInfo}
  /\ pc \in {"start", "load_next", "loop", "read_prev", "compute", "send", "advance", "exited"}
  /\ stopped \in BOOLEAN
  /\ next_batch_id \in 0 .. MaxBatch \cup {NoInfo}
  /\ state_update \in Batch \cup {NoInfo}
  /\ prev_batch_info \in CommitteeBatchInfo \cup {NoInfo}
  /\ availability_claim \in Claim \cup {NoInfo}
  /\ gw_batches \in [BatchIds -> Batch \cup {NotCreated}]
  /\ gw_approved \in [BatchIds -> SUBSET Claim]

\* Every claim the gateway accepted for a batch is the claim of the batch info
\* the committee keeps for it, and the gateway never holds two different claims
\* for one batch: retries after a lost answer, crashes between the batch-info
\* write and the signature, and failed writes never make the committee sign
\* data it does not keep.
ApprovedClaimsStored ==
  \A b \in BatchIds :
    /\ Cardinality(gw_approved[b]) <= 1
    /\ \A c \in gw_approved[b] :
         /\ ReadBatchInfo(b) # NoInfo
         /\ c = ComputeClaim(ReadBatchInfo(b))

\* The persisted next_batch_id never runs ahead of the approvals: every batch
\* below it has a claim accepted by the gateway, whatever crashes and failed
\* writes happened between send_signature and set_int.
NextBatchIdSound ==
  storage_next_batch_id # NoInfo =>
    \A b \in BatchIds : b < storage_next_batch_id => gw_approved[b] # {}

\* get_committee_batch_info_or_fail never fails: whenever the loop reads the
\* info of the batch the operator built on, some committee iteration (or an
\* older version, under the old key) has stored it, even after failed writes
\* of the batch info or of next_batch_id and restarts between them.
PrevBatchInfoAvailable ==
  pc = "read_prev" => ReadBatchInfo(state_update.prev_batch_id) # NoInfo

\* Every tree root the committee stores for a batch it recomputes is the
\* operator's actual tree after that batch, so signed roots commit to data the
\* committee received, across aborted batches, legacy infos and retries.
StoredRootsCorrect ==
  \A b \in BatchIds :
    storage_batch_info[b] # NoInfo =>
      \A o \in ValidatedObjectNames \cap DOMAIN storage_batch_info[b].merkle_roots :
        storage_batch_info[b].merkle_roots[o] = gw_batches[b].state[o]

\* A batch info, once stored under its new key, is never changed: the retries of
\* an iteration (after a lost answer, a failed write or a crash) rewrite the
\* key with the same value, and compute_initial_batch_info at every startup
\* rewrites batch -1 with the same empty roots.
BatchInfoWriteOnce ==
  [][\A id \in InfoIds :
       storage_batch_info[id] # NoInfo => storage_batch_info'[id] = storage_batch_info[id]]_vars

\* Every batch the operator creates is eventually approved by the gateway
\* unless the committee is stopped.
Progress ==
  \A b \in BatchIds : gw_batches[b] # NotCreated ~> (gw_approved[b] # {} \/ stopped)

=============================================================================
