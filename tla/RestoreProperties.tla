--------------------------- MODULE RestoreProperties ---------------------------
(***************************************************************************)
(* What makes the restores correct that run beside a manager.              *)
(***************************************************************************)
EXTENDS RestoreProcess, BackupProperties

\* A database file a restore hands over is never a mix of two states, also when
\* an earlier one to the same path was cut short; neither is one that a manager
\* opens after an attempt to restore that failed half way, unless the attempt
\* ended while it wrote that file (which auto_restore does not notice,
\* manager.rs:86-89).  Excepted is a target on which SQLite replayed the -wal file
\* of another restore (README.md:151, "to a new file").
HandedOverConsistent ==
  [][/\ rstep' \in {"done", "opened"} /\ rstep' # rstep
     /\ rstep' = "opened" => ~torn
     /\ ~mixed'
     => Consistent(target.pages, Replay(targetWal.blocks))]_allVars

\* A restore of the latest backup gives no less than an instantaneous restore
\* would have given at some moment while it ran, whatever sync_wal, checkpoint,
\* compact and enforce_retention do in between, if it got the manifest it asked for.
RestoreIsNotStale ==
  [][/\ rstep = "replay" /\ rstep' = "done" /\ found.gen = 0 /\ ~missed
     => \E pages \in couldGive : pages \subseteq target'.pages]_allVars

\* A restore to a point in time gives nothing that was committed after it...
NothingFromTheFuture ==
  [][/\ rstep = "replay" /\ rstep' = "done" /\ found.gen # 0
     /\ ~mixed'
     => target'.pages \subseteq 1..moment.commits]_allVars

\* ... and all that could be restored at that time, while the generation of that
\* time is still in the bucket, as it was then.
NothingForgotten ==
  [][/\ rstep = "replay" /\ rstep' = "done" /\ found.gen # 0 /\ ~missed
     => moment.restorable \subseteq target'.pages]_allVars

\* A generation with a manifest can be restored: a point in time never leads to
\* one whose snapshot or segments are missing.
ManifestsAreRestorable ==
  \A g \in Generations : Stored(ManifestKey(g)) => Restorable(g)
================================================================================
