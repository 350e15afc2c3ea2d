---- MODULE PublisherStep ----
(***************************************************************************)
(* One durable write of a repository publisher, the unit between which it  *)
(* may crash: write_atomically and write_optional_pointer of               *)
(* src/runtime/repository/RuntimeRepositoryUpdater.cpp, replace_file and   *)
(* remove_file of src/service/app/RuntimeRepositoryTrustedPlanState.cpp.   *)
(***************************************************************************)
CONSTANT Publishers

VARIABLE at     \* the step each publisher is about to make

\* A write replaces or removes a file by one rename or unlink and then syncs the
\* directory. It may fail before the file changes, or report a failure after.
Outcomes == {"done", "unsynced", "failed"}

Written(outcome, new, old) == IF outcome = "failed" THEN old ELSE new

Goto(p, where) == at' = [at EXCEPT ![p] = where]

\* p goes on to next when the write succeeded and to failure when it threw.
Continue(p, outcome, next, failure) == Goto(p, IF outcome = "done" THEN next ELSE failure)
====
