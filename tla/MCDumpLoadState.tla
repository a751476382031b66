--------------------------- MODULE MCDumpLoadState ---------------------------
(* n_order_dump_tasks = 2 and n_processes = 2: four dump tasks and three   *)
(* load tasks for two workers, so a worker takes a second task.            *)
EXTENDS DumpLoadState, TLC

CONSTANTS w1, w2, o2, o3

MCWorkers == {w1, w2}
MCOrderFiles == <<o2, o3>>
MCSymmetry == Permutations(MCWorkers)
=============================================================================
