----------------------------- MODULE EngineOps -----------------------------
(* Arithmetic shared by the two worker pools of the engine. *)
EXTENDS Naturals

\* max_workers.max(1).min(total).min(32), with cap for 32
PoolSizeOf(requested, n, cap) ==
  LET atLeastOne == IF requested = 0 THEN 1 ELSE requested
      noMore     == IF atLeastOne > n THEN n ELSE atLeastOne
  IN  IF noMore > cap THEN cap ELSE noMore

\* InspectionProgress::task_completion_percentage
PercentOf(done, all) ==
  IF all = 0 THEN 0
  ELSE ((IF done > all THEN all ELSE done) * 100) \div all
=============================================================================
