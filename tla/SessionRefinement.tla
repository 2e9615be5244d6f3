-------------------------- MODULE SessionRefinement --------------------------
(* SessionActor implements SessionContract: the job is the active turn or     *)
(* compaction, a turn's ending and a prompt's answer are what was sent.       *)
EXTENDS SessionActor

Job == IF active # None THEN "turn" ELSE IF comp # None THEN "compaction" ELSE "none"
Answers == [i \in 1 .. Len(sent) |-> sent[i].turn]

Contract == INSTANCE SessionContract WITH
  open <- alive, job <- Job, turns <- ended, answers <- Answers, leaving <- unloads

(* Whatever requests, events, tasks, failed writes and restarts do, a client  *)
(* sees one job at a time, each turn end once, its prompt answered with the   *)
(* turn that runs, and its unload answered only when nothing runs.            *)
ImplementsContract == Contract!ContractSpec
=============================================================================
