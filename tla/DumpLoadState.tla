---------------------------- MODULE DumpLoadState ----------------------------
(***************************************************************************)
(* The backup tools committee/dump_state and committee/load_state.  Each   *)
(* fills an asyncio.Queue with one task per file and runs n_processes      *)
(* worker coroutines; a worker takes a task, runs a subprocess for it and  *)
(* calls task_done in a `finally`.  main awaits queue.join(), cancels the  *)
(* workers and awaits their gather.                                        *)
(*                                                                         *)
(* dump_state writes orders_<i>.csv for the 2^d order subtrees, vaults.csv *)
(* and info.json into a tar archive; a failed subprocess is only printed.  *)
(* load_state extracts the archive, loads the tree files and then the info *)
(* with --set_next_batch_id; a failed subprocess makes it exit().          *)
(*                                                                         *)
(* A task ends with its subprocess exiting 0 ("ok"), exiting non-zero      *)
(* ("failed"), or with an exception out of create_subprocess_exec or       *)
(* tar.add ("raised"), which ends the worker coroutine.                    *)
(***************************************************************************)
EXTENDS Naturals, Sequences, SequencesExt

CONSTANTS
  Workers,       \* the n_processes worker coroutines
  OrderFiles,    \* orders_<i>.csv for i in n_order_dump_tasks .. 2 * n_order_dump_tasks - 1
  Vaults,        \* vaults.csv
  Info,          \* info.json
  Idle, Dead     \* a worker waiting on queue.get(), a worker that raised

Tools == {"dump", "load"}
Outcomes == {"ok", "failed", "raised"}

\* The queues as main fills them.  load_state names its order files from
\* len(order_subtree_roots) of info.json, which dump_info fills with
\* 2^order_node_depth = n_order_dump_tasks roots: the same files.
DumpTasks == OrderFiles \o <<Vaults, Info>>
LoadTasks == OrderFiles \o <<Vaults>>
Files == ToSet(DumpTasks)

VARIABLES
  pool,       \* per tool: its queue, workers, unfinished tasks, whether a worker raised, phase
  archive,    \* the files added to the tar archive
  loaded,     \* the tree files whose load subprocess completed
  next_batch_id_set  \* load_trees_from_file info --set_next_batch_id ran

vars == <<pool, archive, loaded, next_batch_id_set>>

Phases == {"not_started", "running", "info", "exit_ok", "exit_error"}
Exited(t) == pool[t].phase \in {"exit_ok", "exit_error"}

Pool(tasks, phase) ==
  [queue |-> tasks, worker |-> [w \in Workers |-> Idle], unfinished |-> Len(tasks),
   raised |-> FALSE, phase |-> phase]

-----------------------------------------------------------------------------

Init ==
  /\ pool = [t \in Tools |-> IF t = "dump" THEN Pool(DumpTasks, "running") ELSE Pool(<<>>, "not_started")]
  /\ archive = {}
  /\ loaded = {}
  /\ next_batch_id_set = FALSE

\* Mutant: queue.get() does not remove the task.
GetNoTail(t, w) ==
  /\ pool[t].phase = "running"
  /\ pool[t].worker[w] = Idle
  /\ pool[t].queue # <<>>
  /\ pool' = [pool EXCEPT ![t].worker[w] = Head(pool[t].queue)]
  /\ UNCHANGED <<archive, loaded, next_batch_id_set>>

\* worker_func: `cmd, filename = await queue.get()`.
Get(t, w) ==
  /\ pool[t].phase = "running"
  /\ pool[t].worker[w] = Idle
  /\ pool[t].queue # <<>>
  /\ pool' = [pool EXCEPT ![t].worker[w] = Head(pool[t].queue), ![t].queue = Tail(@)]
  /\ UNCHANGED <<archive, loaded, next_batch_id_set>>

\* The `finally: queue.task_done()` of a task, leaving the worker in state s.
TaskDone(t, w, s) ==
  [pool EXCEPT ![t].worker[w] = s, ![t].unfinished = @ - 1,
               ![t].raised = @ \/ s = Dead]

\* Mutant: task_done is called after tar.add instead of in the `finally`.
DumpFinishNoFinally(w, outcome) ==
  LET f == pool["dump"].worker[w]
  IN /\ pool["dump"].phase = "running"
     /\ f \in Files
     /\ pool' = IF outcome = "ok" THEN TaskDone("dump", w, Idle)
               ELSE [pool EXCEPT !["dump"].worker[w] = IF outcome = "raised" THEN Dead ELSE Idle,
                                 !["dump"].raised = @ \/ outcome = "raised"]
     /\ archive' = IF outcome = "ok" THEN archive \cup {f} ELSE archive
     /\ UNCHANGED <<loaded, next_batch_id_set>>

\* dump_state's worker: on exit code 0 tar.add and count; otherwise print.
DumpFinish(w, outcome) ==
  LET f == pool["dump"].worker[w]
  IN /\ pool["dump"].phase = "running"
     /\ f \in Files
     /\ pool' = TaskDone("dump", w, IF outcome = "raised" THEN Dead ELSE Idle)
     /\ archive' = IF outcome = "ok" THEN archive \cup {f} ELSE archive
     /\ UNCHANGED <<loaded, next_batch_id_set>>

\* dump_state's main after queue.join(): cancelling the gather and awaiting
\* it re-raises the exception of a worker that raised.  The `with` block
\* closes the archive either way.
DumpJoin ==
  /\ pool["dump"].phase = "running"
  /\ pool["dump"].unfinished = 0
  /\ pool' = [pool EXCEPT !["dump"].phase = IF pool["dump"].raised THEN "exit_error" ELSE "exit_ok"]
  /\ UNCHANGED <<archive, loaded, next_batch_id_set>>

\* load_state on an archive dump_state closed: extractall, then open
\* info.json, which raises when the info task's file is missing.
LoadStart ==
  /\ Exited("dump")
  /\ pool["load"].phase = "not_started"
  /\ pool' = [pool EXCEPT !["load"] =
                IF Info \in archive THEN Pool(LoadTasks, "running") ELSE [@ EXCEPT !.phase = "exit_error"]]
  /\ UNCHANGED <<archive, loaded, next_batch_id_set>>

\* load_state's worker: a file missing from the archive makes the loader
\* fail; a non-zero exit code makes the worker call exit(), which ends the
\* process (the `finally` still runs).
LoadFinish(w, outcome) ==
  LET f == pool["load"].worker[w]
  IN /\ pool["load"].phase = "running"
     /\ f \in Files
     /\ outcome = "ok" => f \in archive
     /\ pool' = IF outcome = "failed"
                  THEN [TaskDone("load", w, Idle) EXCEPT !["load"].phase = "exit_error"]
                  ELSE TaskDone("load", w, IF outcome = "raised" THEN Dead ELSE Idle)
     /\ loaded' = IF outcome = "ok" THEN loaded \cup {f} ELSE loaded
     /\ UNCHANGED <<archive, next_batch_id_set>>

\* exit() does not kill the loader subprocesses already started: they can
\* still complete after load_state has exited.
LoadOrphanFinishes(w) ==
  LET f == pool["load"].worker[w]
  IN /\ pool["load"].phase = "exit_error"
     /\ f \in archive
     /\ loaded' = loaded \cup {f}
     /\ pool' = [pool EXCEPT !["load"].worker[w] = Idle]
     /\ UNCHANGED <<archive, next_batch_id_set>>

\* Mutant: awaiting the cancelled gather swallows every exception.
LoadJoinIgnoringRaised ==
  /\ pool["load"].phase = "running"
  /\ pool["load"].unfinished = 0
  /\ pool' = [pool EXCEPT !["load"].phase = "info"]
  /\ UNCHANGED <<archive, loaded, next_batch_id_set>>

\* load_state's main after queue.join(): a worker's exception re-raised by
\* the gather ends the process; otherwise the info is loaded.
LoadJoin ==
  /\ pool["load"].phase = "running"
  /\ pool["load"].unfinished = 0
  /\ pool' = [pool EXCEPT !["load"].phase = IF pool["load"].raised THEN "exit_error" ELSE "info"]
  /\ UNCHANGED <<archive, loaded, next_batch_id_set>>

\* subprocess.check_call of load_trees_from_file info --set_next_batch_id.
LoadInfo(ok) ==
  /\ pool["load"].phase = "info"
  /\ pool' = [pool EXCEPT !["load"].phase = IF ok THEN "exit_ok" ELSE "exit_error"]
  /\ next_batch_id_set' = ok
  /\ UNCHANGED <<archive, loaded>>

Next ==
  \/ \E t \in Tools, w \in Workers : Get(t, w)
  \/ \E w \in Workers, o \in Outcomes : DumpFinish(w, o)
  \/ DumpJoin
  \/ LoadStart
  \/ \E w \in Workers, o \in Outcomes : LoadFinish(w, o)
  \/ \E w \in Workers : LoadOrphanFinishes(w)
  \/ LoadJoin
  \/ \E ok \in BOOLEAN : LoadInfo(ok)

\* The event loop runs every ready coroutine, and each subprocess ends.
\* Starting load_state is the operator's choice and gets no fairness.
Fairness ==
  /\ \A t \in Tools, w \in Workers : WF_vars(Get(t, w))
  /\ \A w \in Workers : /\ WF_vars(\E o \in Outcomes : DumpFinish(w, o))
                        /\ WF_vars(\E o \in Outcomes : LoadFinish(w, o))
  /\ WF_vars(DumpJoin) /\ WF_vars(LoadJoin) /\ WF_vars(\E ok \in BOOLEAN : LoadInfo(ok))

Spec == Init /\ [][Next]_vars /\ Fairness

-----------------------------------------------------------------------------
(* Properties *)

TypeOK ==
  /\ \A t \in Tools :
       /\ pool[t].queue \in Seq(Files)
       /\ pool[t].worker \in [Workers -> Files \cup {Idle, Dead}]
       /\ pool[t].unfinished \in 0 .. Len(DumpTasks)
       /\ pool[t].raised \in BOOLEAN
       /\ pool[t].phase \in Phases
  /\ archive \subseteq Files
  /\ loaded \subseteq Files
  /\ next_batch_id_set \in BOOLEAN

\* A restore is all or nothing: load_state sets committee_next_batch_id
\* only after every tree file of the backup was loaded, whatever failed in
\* dump_state (a failed dump task is only printed and the archive is closed
\* without its file) and whichever load workers failed or raised.
NextBatchIdOnlyIfComplete ==
  next_batch_id_set => ToSet(LoadTasks) \subseteq loaded

\* dump_state terminates: queue.join() returns once every task is done, so
\* main exits (with or without an error).
DumpTerminates ==
  <>Exited("dump")

\* Each tool, once running, exits unless every one of its workers raised:
\* task_done in the `finally` lets queue.join() return after failed as well
\* as successful subprocesses, one live worker drains the queue alone, and
\* the info load follows.  Only a pool whose workers all died hangs.
ToolsEnd ==
  \A t \in Tools :
    pool[t].phase = "running" ~> (Exited(t) \/ \A w \in Workers : pool[t].worker[w] = Dead)

=============================================================================
