--------------------------- MODULE SessionContract ---------------------------
(* What a client of a session may rely on, without the actor, its tasks, its  *)
(* queues and the repository: one job at a time, a turn that ends once, a     *)
(* prompt answered with the turn that runs, and an unload answered when       *)
(* nothing runs any more. SessionRefinement shows that SessionActor does it.  *)
EXTENDS Naturals, Sequences

CONSTANT Callers   (* clients that may ask for the session to be unloaded    *)

VARIABLES
  open,      (* the session takes requests                                   *)
  job,       (* what it runs                                                 *)
  turns,     (* how each turn ended, or that it has not                      *)
  answers,   (* the turn each prompt was answered with; 0 when it failed     *)
  leaving    (* the answer to each client's unload                           *)

contractVars == <<open, job, turns, answers, leaving>>

NoTurn == 0
Endings == {"completed", "cancelled", "failed"}
Waiting == {c \in Callers : leaving[c] = "waiting"}

ContractInit ==
  /\ open = TRUE /\ job = "none"
  /\ turns = <<>> /\ answers = <<>>
  /\ leaving = [c \in Callers |-> "no"]

(* A prompt is refused, or fails on its way. *)
RefusePrompt ==
  /\ open
  /\ answers' = Append(answers, NoTurn)
  /\ UNCHANGED <<open, job, turns, leaving>>

(* A prompt starts a turn, when nothing runs and nobody waits to leave. *)
StartTurn ==
  /\ open /\ job = "none" /\ Waiting = {}
  /\ job' = "turn" /\ turns' = Append(turns, "running")
  /\ answers' = Append(answers, Len(turns'))
  /\ UNCHANGED <<open, leaving>>

(* A prompt goes to the turn that runs. *)
SteerTurn ==
  /\ open /\ job = "turn"
  /\ answers' = Append(answers, Len(turns))
  /\ UNCHANGED <<open, job, turns, leaving>>

StartCompaction ==
  /\ open /\ job = "none" /\ Waiting = {}
  /\ job' = "compaction"
  /\ UNCHANGED <<open, turns, answers, leaving>>

(* The session closes and whoever waited hears of it. *)
CloseFor(answer) ==
  /\ open' = FALSE
  /\ leaving' = [c \in Callers |-> IF c \in Waiting THEN answer ELSE leaving[c]]

(* The job ends; the session closes behind it exactly when somebody waits. *)
EndJob ==
  /\ open /\ job # "none" /\ job' = "none"
  /\ IF job = "turn"
     THEN /\ turns[Len(turns)] = "running"
          /\ \E o \in Endings : turns' = [turns EXCEPT ![Len(turns)] = o]
     ELSE turns' = turns
  /\ IF Waiting = {} THEN UNCHANGED <<open, leaving>>
     ELSE \E answer \in {"ok", "error"} : CloseFor(answer)
  /\ UNCHANGED answers

(* One client waits at a time: the one before it is told the session closed. *)
WaitToLeave(c) ==
  /\ open /\ job # "none" /\ leaving[c] = "no"
  /\ leaving' = [d \in Callers |-> IF d = c THEN "waiting"
                                   ELSE IF d \in Waiting THEN "closed" ELSE leaving[d]]
  /\ UNCHANGED <<open, job, turns, answers>>

(* The session is closing already. *)
RefuseToLeave(c) ==
  /\ open /\ job # "none" /\ leaving[c] = "no"
  /\ leaving' = [leaving EXCEPT ![c] = "closed"]
  /\ UNCHANGED <<open, job, turns, answers>>

LeaveAtOnce(c) ==
  /\ open /\ job = "none" /\ leaving[c] = "no"
  /\ open' = FALSE
  /\ \E answer \in {"ok", "error"} : leaving' = [leaving EXCEPT ![c] = answer]
  /\ UNCHANGED <<job, turns, answers>>

(* The grace period of an ephemeral session is over. *)
ExpireAway ==
  /\ open /\ job # "turn"
  /\ CloseFor("closed") /\ job' = "none"
  /\ UNCHANGED <<turns, answers>>

(* The session is loaded again, also after the process died under it. *)
LoadAgain ==
  /\ open' = TRUE /\ job' = "none"
  /\ leaving' = [c \in Callers |-> "no"]
  /\ UNCHANGED <<turns, answers>>

ContractNext ==
  \/ RefusePrompt \/ StartTurn \/ SteerTurn \/ StartCompaction \/ EndJob
  \/ \E c \in Callers : WaitToLeave(c) \/ RefuseToLeave(c) \/ LeaveAtOnce(c)
  \/ ExpireAway \/ LoadAgain

ContractSpec == ContractInit /\ [][ContractNext]_contractVars
=============================================================================
