---------------------------- MODULE SessionActor ----------------------------
(***************************************************************************)
(* One loaded session of dwo-agent-service: the actor that owns the record *)
(* (session.rs), the turn task it spawns (turn.rs, model_request.rs,       *)
(* tool_exec.rs, compaction.rs), the permission gate between the two       *)
(* (permission.rs), the manual compaction task and the expiry timer.       *)
(*                                                                         *)
(* The actor handles one request or event at a time, so a handler is one   *)
(* action.  A request has no state before its handler runs: the mailbox is *)
(* folded into the moment the handler is taken, which leaves every order   *)
(* of requests and events the biased select of `run` can produce.  What    *)
(* the tasks send back is a queue, because its order matters.              *)
(*                                                                         *)
(* Prompts are numbered in the order the actor admits them.  A context is  *)
(* the sequence of prompts it carries, how many of them a compaction has   *)
(* folded into its summary, and whether its last reply still waits for     *)
(* tool results.  Requests the handlers refuse without touching state are  *)
(* stuttering steps.                                                       *)
(***************************************************************************)
EXTENDS Naturals, SequencesExt

CONSTANTS
  Callers,          \* clients that may ask for the session to be unloaded
  Ephemeral,        \* whether the session is created with --ephemeral
  MaxPrompts,       \* bound: prompts admitted
  MaxTurns,         \* bound: turns started
  MaxRounds,        \* bound: tool batches, retries and recoveries, all turns
  MaxAsks,          \* bound: permission requests
  MaxCompactions,   \* bound: manual compactions
  MaxFaults,        \* bound: failed writes of the repository
  MaxSpawns         \* bound: actors spawned again (reload or restart)

ASSUME CallersAssumption == 0 \notin Callers
ASSUME EphemeralAssumption == Ephemeral \in BOOLEAN
ASSUME BoundsAssumption ==
  /\ MaxPrompts \in Nat /\ MaxTurns \in Nat /\ MaxRounds \in Nat
  /\ MaxAsks \in Nat /\ MaxCompactions \in Nat
  /\ MaxFaults \in Nat /\ MaxSpawns \in Nat

VARIABLES
  (* SessionActor *)
  alive,        \* its run loop has not stopped
  phase,        \* RuntimePhase
  active,       \* the active turn, or None
  comp,         \* the active compaction, or None
  pending,      \* the registered permission request, or None
  closing,      \* the caller whose unload waits for the turn, or None
  rec,          \* the record in memory
  timer,        \* deadline of the running expiry timer, or None
  (* channels *)
  events,       \* the actor's event queue
  steer,        \* the steer inbox of the current turn task
  (* the turn task, which outlives `active` by its last step *)
  pc, then, tctx, recovered,
  token,        \* the turn's CancellationToken
  saved,        \* the reply to its checkpoint
  verdict,      \* the reply to each permission request
  (* the manual compaction task *)
  ctask, cctx, ctoken,
  (* the repository *)
  disk, exists, transcript,
  (* the environment and what the clients saw *)
  now, used, sent, ended, unloads, approved, ran, kept

actorVars == <<alive, phase, active, comp, pending, closing, rec, timer>>
turnVars  == <<pc, then, tctx, recovered, saved>>
compVars  == <<ctask, cctx>>
storeVars == <<disk, exists, transcript>>
histVars  == <<sent, ended, unloads, approved, ran, kept>>
vars == <<actorVars, events, steer, turnVars, token, verdict, compVars, ctoken,
          storeVars, now, used, histVars>>

None == 0
Phases == {"Idle", "Running", "WaitingPermission", "Cancelling", "Closing", "Compacting"}
Kinds == {"user", "internal", "resume"}
Outcomes == {"completed", "cancelled", "failed"}
Labels == {"off", "loop", "fit", "compacting", "model", "backoff", "tools", "asking", "saving",
           "done"}
Conts == {"loop", "fit", "model", "backoff", "batch", "completed", "fail"}

Context == [msgs : Seq(Nat), folded : Nat, open : BOOLEAN]
EmptyContext == [msgs |-> <<>>, folded |-> 0, open |-> FALSE]
Record == [ctx : Context, eph : BOOLEAN, completed : BOOLEAN, deadline : Nat]

Event ==
  [type : {"Persist"}, ctx : Context]
    \cup [type : {"Ask"}, turn : Nat, ask : 1..MaxAsks]
    \cup [type : {"Finished"}, turn : Nat, outcome : Outcomes]
    \cup [type : {"Compacted"}, id : Nat, ctx : Context, ok : BOOLEAN]
    \cup [type : {"Expired"}]

Counters == [turns : Nat, rounds : Nat, asks : 0..MaxAsks, comps : Nat,
             faults : Nat, spawns : Nat]

Init ==
  /\ alive = TRUE /\ phase = "Idle"
  /\ active = None /\ comp = None /\ pending = None /\ closing = None
  /\ rec = [ctx |-> EmptyContext, eph |-> Ephemeral, completed |-> FALSE, deadline |-> None]
  /\ timer = None
  /\ events = <<>> /\ steer = <<>>
  /\ pc = "off" /\ then = "loop" /\ tctx = EmptyContext /\ recovered = FALSE
  /\ token = FALSE /\ saved = "none"
  /\ verdict = [a \in 1..MaxAsks |-> "none"]
  /\ ctask = None /\ cctx = EmptyContext /\ ctoken = FALSE
  /\ disk = rec /\ exists = TRUE /\ transcript = {}
  /\ now = 0
  /\ used = [turns |-> 0, rounds |-> 0, asks |-> 0, comps |-> 0, faults |-> 0, spawns |-> 0]
  /\ sent = <<>> /\ ended = <<>>
  /\ unloads = [c \in Callers |-> "no"]
  /\ approved = {} /\ ran = {} /\ kept = FALSE

-----------------------------------------------------------------------------
(* The repository and the actor's helpers.                                 *)

Fault == used.faults < MaxFaults /\ used' = [used EXCEPT !.faults = @ + 1]

(* A save writes the context file, then the metadata file: a failed one    *)
(* leaves `from`, possibly with the new context already in place.          *)
SaveFails(from, r) == Fault /\ disk' \in {from, [from EXCEPT !.ctx = r.ctx]}

(* A compaction folds what the context carries into its summary.  (How much  *)
(* of the tail it leaves verbatim is up to its plan.)                        *)
Folded(ctx) == [ctx EXCEPT !.folded = Len(ctx.msgs)]

RejectForgotten == pending' = None /\ UNCHANGED verdict   \* mutant: nobody is told

(* PermissionState::reject: the pending request, if any, is denied. *)
RejectPending ==
  /\ pending' = None
  /\ verdict' = [a \in DOMAIN verdict |-> IF a = pending THEN "deny" ELSE verdict[a]]

(* The tail of SessionActor::run once a handler answered Stop: the tokens   *)
(* fire, the pending request is denied and the event queue is dropped.      *)
Stop ==
  /\ alive' = FALSE /\ phase' = "Closing"
  /\ active' = None /\ comp' = None /\ closing' = None /\ timer' = None
  /\ token' = (token \/ active # None)
  /\ ctoken' = (ctoken \/ comp # None)
  /\ RejectPending
  /\ events' = <<>>

-----------------------------------------------------------------------------
(* SessionRequest::Prompt.                                                 *)

NextPrompt == Len(sent) + 1

Answer(kind, turn, queued) ==
  sent' = Append(sent, [kind |-> kind, turn |-> turn, queued |-> queued])

(* Mutant: a prompt is let in beside a running compaction. *)
AdmitsBesideCompaction(kind) ==
  /\ alive /\ Len(sent) < MaxPrompts
  /\ phase \notin {"Closing", "Cancelling"}
  /\ kind = "resume" => active = None
  /\ ~(kind = "user" /\ rec.eph /\ rec.completed)

(* The guards a prompt passes before it changes anything.  A resume with a  *)
(* turn active is answered at once and changes nothing.                     *)
Admits(kind) ==
  /\ alive /\ Len(sent) < MaxPrompts
  /\ phase \notin {"Closing", "Cancelling"}
  /\ kind = "resume" => active = None
  /\ ~(kind = "user" /\ rec.eph /\ rec.completed)
  /\ comp = None

(* A prompt to an ephemeral session in its grace period first takes the     *)
(* deadline away, in memory, in the timer and then on disk.                 *)
Graced == rec.eph /\ rec.deadline # None
AwakeKeepsDeadline == rec   \* mutant: the deadline stays
Awake == IF Graced THEN [rec EXCEPT !.deadline = None] ELSE rec
AwakeDisk == IF Graced THEN Awake ELSE disk
Wake == timer' = IF Graced THEN None ELSE timer

(* Mutant: only the prompts of a user are put into the saved record. *)
WithUserPromptOnly(kind) ==
  IF kind # "user" THEN Awake ELSE [Awake EXCEPT !.ctx.msgs = Append(@, NextPrompt)]

WithPrompt(kind) ==
  IF kind = "resume" THEN Awake ELSE [Awake EXCEPT !.ctx.msgs = Append(@, NextPrompt)]

PromptWakeFails(kind) ==
  /\ Admits(kind) /\ Graced
  /\ rec' = Awake /\ Wake /\ SaveFails(disk, Awake)
  /\ Answer(kind, None, FALSE)
  /\ UNCHANGED <<alive, phase, active, comp, pending, closing, events, steer, turnVars, token,
                 verdict, compVars, ctoken, exists, transcript, now, ended, unloads, approved,
                 ran, kept>>

(* Idle: the prompt is in the record before the save that may fail. *)
PromptSaveFails(kind) ==
  /\ Admits(kind) /\ active = None
  /\ rec' = WithPrompt(kind) /\ Wake /\ SaveFails(AwakeDisk, rec')
  /\ Answer(kind, None, FALSE)
  /\ UNCHANGED <<alive, phase, active, comp, pending, closing, events, steer, turnVars, token,
                 verdict, compVars, ctoken, exists, transcript, now, ended, unloads, approved,
                 ran, kept>>

(* Idle: the save succeeded, the transcript append did not; no turn starts. *)
PromptRecordFails ==
  /\ Admits("user") /\ active = None
  /\ Fault
  /\ rec' = WithPrompt("user") /\ disk' = rec' /\ Wake
  /\ Answer("user", None, FALSE)
  /\ UNCHANGED <<alive, phase, active, comp, pending, closing, events, steer, turnVars, token,
                 verdict, compVars, ctoken, exists, transcript, now, ended, unloads, approved,
                 ran, kept>>

(* Idle: the prompt is saved and recorded, and a turn is spawned with a     *)
(* fresh token and a fresh steer inbox.                                     *)
PromptStarts(kind) ==
  /\ Admits(kind) /\ active = None /\ used.turns < MaxTurns
  /\ rec' = WithPrompt(kind) /\ disk' = rec' /\ Wake
  /\ transcript' = IF kind = "user" THEN transcript \cup {NextPrompt} ELSE transcript
  /\ used' = [used EXCEPT !.turns = @ + 1]
  /\ active' = used'.turns /\ phase' = "Running"
  /\ Answer(kind, active', FALSE)
  /\ ended' = Append(ended, "running")
  /\ pc' = "loop" /\ tctx' = rec'.ctx /\ token' = FALSE /\ steer' = <<>>
  /\ UNCHANGED <<alive, comp, pending, closing, events, then, recovered, saved, verdict,
                 compVars, ctoken, exists, now, unloads, approved, ran, kept>>

(* Active: the prompt goes to the turn's steer inbox.  Sending fails once   *)
(* the turn task has dropped its receiver, after the transcript has it.     *)
PromptSteers(kind) ==
  /\ Admits(kind) /\ active # None
  /\ rec' = Awake /\ disk' = AwakeDisk /\ Wake
  /\ transcript' = IF kind = "user" THEN transcript \cup {NextPrompt} ELSE transcript
  /\ IF pc = "off"
     THEN Answer(kind, None, TRUE) /\ UNCHANGED steer
     ELSE Answer(kind, active, TRUE) /\ steer' = Append(steer, NextPrompt)
  /\ UNCHANGED <<alive, phase, active, comp, pending, closing, events, turnVars, token, verdict,
                 compVars, ctoken, exists, now, used, ended, unloads, approved, ran, kept>>

(* Active: the transcript append of a user prompt fails before the send. *)
PromptSteerFails ==
  /\ Admits("user") /\ active # None
  /\ Fault
  /\ rec' = Awake /\ disk' = AwakeDisk /\ Wake
  /\ Answer("user", None, TRUE)
  /\ UNCHANGED <<alive, phase, active, comp, pending, closing, events, steer, turnVars, token,
                 verdict, compVars, ctoken, exists, transcript, now, ended, unloads, approved,
                 ran, kept>>

Prompt ==
  \/ \E kind \in Kinds :
       PromptWakeFails(kind) \/ PromptSaveFails(kind) \/ PromptStarts(kind) \/ PromptSteers(kind)
  \/ PromptRecordFails
  \/ PromptSteerFails

-----------------------------------------------------------------------------
(* The other requests.                                                     *)

(* The turn's token or, without a turn, the compaction's; the phase is      *)
(* overwritten whatever it was.                                             *)
Cancel ==
  /\ alive /\ (active # None \/ comp # None)
  /\ token' = (token \/ active # None)
  /\ ctoken' = (ctoken \/ active = None)
  /\ phase' = "Cancelling"
  /\ RejectPending
  /\ UNCHANGED <<alive, active, comp, closing, rec, timer, events, steer, turnVars, compVars,
                 storeVars, now, used, histVars>>

MatchesAnything(ask) == pending # None   \* mutant: the request is not compared

(* PermissionState::respond: the answer must name the registered request,   *)
(* and goes to whoever waits for that one.                                   *)
Matches(ask) == pending = ask

RespondPermission(ask, allow) ==
  /\ alive /\ Matches(ask)
  /\ verdict' = [verdict EXCEPT ![pending] = IF allow THEN "allow" ELSE "deny"]
  /\ approved' = IF allow THEN approved \cup {ask} ELSE approved
  /\ pending' = None /\ phase' = "Running"
  /\ UNCHANGED <<alive, active, comp, closing, rec, timer, events, steer, turnVars, token,
                 compVars, ctoken, storeVars, now, used, sent, ended, unloads, ran, kept>>

BusyWithTurn == active # None   \* mutant: a compaction is forgotten

(* What an unload has to wait for. *)
Busy == active # None \/ comp # None

UnloadRefused(c) ==
  /\ alive /\ phase = "Closing" /\ unloads[c] = "no"
  /\ unloads' = [unloads EXCEPT ![c] = "closed"]
  /\ UNCHANGED <<actorVars, events, steer, turnVars, token, verdict, compVars, ctoken,
                 storeVars, now, used, sent, ended, approved, ran, kept>>

(* Something runs: its token fires and the answer waits for its end.  The   *)
(* sender of an earlier unload is dropped, which its caller sees as closed.  *)
UnloadDeferred(c) ==
  /\ alive /\ phase # "Closing" /\ unloads[c] = "no" /\ Busy
  /\ phase' = "Closing" /\ closing' = c
  /\ unloads' = [u \in Callers |-> IF u = c THEN "waiting"
                                   ELSE IF u = closing THEN "closed" ELSE unloads[u]]
  /\ token' = (token \/ active # None)
  /\ ctoken' = (ctoken \/ comp # None)
  /\ IF active # None THEN RejectPending ELSE UNCHANGED <<pending, verdict>>
  /\ UNCHANGED <<alive, active, comp, rec, timer, events, steer, turnVars, compVars, storeVars,
                 now, used, sent, ended, approved, ran, kept>>

UnloadNow(c) ==
  /\ alive /\ phase # "Closing" /\ unloads[c] = "no" /\ ~Busy
  /\ Stop
  /\ \/ disk' = rec /\ UNCHANGED used /\ unloads' = [unloads EXCEPT ![c] = "ok"]
     \/ SaveFails(disk, rec) /\ unloads' = [unloads EXCEPT ![c] = "error"]
  /\ UNCHANGED <<rec, steer, turnVars, compVars, exists, transcript, now, sent, ended,
                 approved, ran, kept>>

Unload == \E c \in Callers : UnloadRefused(c) \/ UnloadDeferred(c) \/ UnloadNow(c)

(* A manual compaction works on a copy of the context taken here. *)
Compact ==
  /\ alive /\ phase = "Idle" /\ used.comps < MaxCompactions
  /\ used' = [used EXCEPT !.comps = @ + 1]
  /\ disk' = rec
  /\ comp' = used'.comps /\ phase' = "Compacting"
  /\ ctask' = comp' /\ cctx' = rec.ctx /\ ctoken' = FALSE
  /\ UNCHANGED <<alive, active, pending, closing, rec, timer, events, steer, turnVars, token,
                 verdict, exists, transcript, now, histVars>>

Keepable == rec.eph \/ rec.deadline # None

Keep ==
  /\ alive /\ Keepable
  /\ rec' = [rec EXCEPT !.eph = FALSE, !.deadline = None]
  /\ disk' = rec' /\ timer' = None /\ kept' = TRUE
  /\ UNCHANGED <<alive, phase, active, comp, pending, closing, events, steer, turnVars, token,
                 verdict, compVars, ctoken, exists, transcript, now, used, sent, ended, unloads,
                 approved, ran>>

(* The save of a keep or of a compaction fails: nothing changes in memory. *)
KeepOrCompactFails ==
  /\ alive /\ (Keepable \/ phase = "Idle")
  /\ SaveFails(disk, rec)
  /\ UNCHANGED <<actorVars, events, steer, turnVars, token, verdict, compVars, ctoken, exists,
                 transcript, now, histVars>>

-----------------------------------------------------------------------------
(* ActorEvent, in the order the tasks sent them.  The handlers of Finished  *)
(* and CompactionFinished ignore an event that does not name the active turn *)
(* or compaction; TurnTracked says there is none to ignore.                  *)

Receives(type) == alive /\ events # <<>> /\ Head(events).type = type

(* PersistContext: the record is replaced only if the save succeeded. *)
HandlePersist ==
  /\ Receives("Persist")
  /\ LET updated == [rec EXCEPT !.ctx = Head(events).ctx]
     IN \/ rec' = updated /\ disk' = updated /\ saved' = "ok" /\ UNCHANGED used
        \/ SaveFails(disk, updated) /\ saved' = "err" /\ UNCHANGED rec
  /\ events' = Tail(events)
  /\ UNCHANGED <<alive, phase, active, comp, pending, closing, timer, steer, pc, then, tctx,
                 recovered, token, verdict, compVars, ctoken, exists, transcript, now, histVars>>

(* PermissionRequested: registering denies the request it replaces and sets *)
(* the phase whatever it was.                                               *)
HandleAsk ==
  /\ Receives("Ask")
  /\ LET e == Head(events)
     IN IF active = None \/ active # e.turn
        THEN /\ verdict' = [verdict EXCEPT ![e.ask] = "deny"]
             /\ UNCHANGED <<pending, phase>>
        ELSE /\ verdict' = [a \in DOMAIN verdict |->
                              IF a = pending THEN "deny" ELSE verdict[a]]
             /\ pending' = e.ask /\ phase' = "WaitingPermission"
  /\ events' = Tail(events)
  /\ UNCHANGED <<alive, active, comp, closing, rec, timer, steer, turnVars, token, compVars,
                 ctoken, storeVars, now, used, histVars>>

UnloadWaitsByPhase == phase = "Closing"   \* mutant: the phase decides

(* closing_response decides how the end of a turn or a compaction goes on,  *)
(* not the phase, which a cancel or a permission request may overwrite.      *)
UnloadWaits == closing # None

(* The record after a turn: an ephemeral one enters its grace period. *)
Settled(outcome) ==
  IF rec.eph
  THEN [rec EXCEPT !.completed = @ \/ outcome = "completed", !.deadline = now + 1]
  ELSE rec

ArmNothing == timer' = timer   \* mutant: no expiry task is spawned

Arm == timer' = IF rec.eph THEN rec'.deadline ELSE timer

(* Finished without a waiting unload; a failed save is only logged. *)
HandleFinished ==
  /\ Receives("Finished") /\ ~UnloadWaits
  /\ active # None /\ active = Head(events).turn
  /\ active' = None /\ phase' = "Idle" /\ RejectPending
  /\ ended' = [ended EXCEPT ![active] = Head(events).outcome]
  /\ rec' = Settled(Head(events).outcome)
  /\ Arm
  /\ \/ disk' = rec' /\ UNCHANGED used
     \/ SaveFails(disk, rec')
  /\ events' = Tail(events)
  /\ UNCHANGED <<alive, comp, closing, steer, turnVars, token, compVars, ctoken, exists,
                 transcript, now, sent, unloads, approved, ran, kept>>

(* Finished with a waiting unload: a last save, the answer, and Stop. *)
HandleFinishedClosing ==
  /\ Receives("Finished") /\ UnloadWaits
  /\ active # None /\ active = Head(events).turn
  /\ ended' = [ended EXCEPT ![active] = Head(events).outcome]
  /\ rec' = Settled(Head(events).outcome)
  /\ \/ disk' = rec' /\ UNCHANGED used /\ unloads' = [unloads EXCEPT ![closing] = "ok"]
     \/ /\ \E from \in {disk, rec'} : SaveFails(from, rec')
        /\ unloads' = [unloads EXCEPT ![closing] = "error"]
  /\ Stop
  /\ UNCHANGED <<steer, turnVars, compVars, exists, transcript, now, sent, approved, ran, kept>>

AppliesIfOk(result) == result.ok   \* mutant: the token is not looked at

(* A cancelled or failed compaction leaves the context alone. *)
Applies(result) == ~ctoken /\ result.ok

(* CompactionFinished *)
HandleCompacted ==
  /\ Receives("Compacted") /\ ~UnloadWaits
  /\ comp # None /\ comp = Head(events).id
  /\ LET e == Head(events)
         updated == [rec EXCEPT !.ctx = e.ctx]
     IN \/ Applies(e) /\ rec' = updated /\ disk' = updated /\ UNCHANGED used
        \/ Applies(e) /\ SaveFails(disk, updated) /\ UNCHANGED rec
        \/ ~Applies(e) /\ UNCHANGED <<rec, disk, used>>
  /\ comp' = None /\ phase' = "Idle"
  /\ events' = Tail(events)
  /\ UNCHANGED <<alive, active, pending, closing, timer, steer, turnVars, token, verdict,
                 compVars, ctoken, exists, transcript, now, histVars>>

(* The unload that waits has fired the token, so nothing is applied. *)
HandleCompactedClosing ==
  /\ Receives("Compacted") /\ UnloadWaits
  /\ comp # None /\ comp = Head(events).id
  /\ \/ disk' = rec /\ UNCHANGED used /\ unloads' = [unloads EXCEPT ![closing] = "ok"]
     \/ SaveFails(disk, rec) /\ unloads' = [unloads EXCEPT ![closing] = "error"]
  /\ Stop
  /\ UNCHANGED <<rec, steer, turnVars, compVars, exists, transcript, now, sent, ended, approved,
                 ran, kept>>

DueIfEphemeral == rec.eph   \* mutant: the deadline is not read again

(* Expired: the deadline is read again, so a stale event changes nothing.   *)
Due == rec.deadline # None /\ rec.eph /\ rec.deadline <= now

HandleExpired ==
  /\ Receives("Expired") /\ ~Due
  /\ timer' = rec.deadline
  /\ events' = Tail(events)
  /\ UNCHANGED <<alive, phase, active, comp, pending, closing, rec, steer, turnVars, token,
                 verdict, compVars, ctoken, storeVars, now, used, histVars>>

(* The session is deleted and the actor stops, also when deleting failed.   *)
(* An unload that waited for a compaction loses its sender.                  *)
HandleExpiredDeletes ==
  /\ Receives("Expired") /\ Due
  /\ \/ exists' = FALSE /\ UNCHANGED used
     \/ Fault /\ UNCHANGED exists
  /\ unloads' = [u \in Callers |-> IF u = closing THEN "closed" ELSE unloads[u]]
  /\ Stop
  /\ UNCHANGED <<rec, steer, turnVars, compVars, disk, transcript, now, sent, ended, approved, ran,
                 kept>>

HandleEvent ==
  \/ HandlePersist \/ HandleAsk
  \/ HandleFinished \/ HandleFinishedClosing
  \/ HandleCompacted \/ HandleCompactedClosing
  \/ HandleExpired \/ HandleExpiredDeletes

-----------------------------------------------------------------------------
(* The turn task.                                                          *)

Send(e) == events' = IF alive THEN Append(events, e) ELSE events

turnFrame == <<alive, phase, active, comp, pending, closing, rec, timer, compVars, ctoken,
               storeVars, now>>

(* Mutant: the turn returns without saying so. *)
FinishSilently(outcome) == pc' = "done" /\ UNCHANGED events

(* run's last act before it returns and its receiver is dropped. *)
Finish(outcome) ==
  /\ Send([type |-> "Finished", turn |-> used.turns, outcome |-> outcome])
  /\ pc' = "done"

FailureUnknown == IF token THEN "cancelled" ELSE "error"   \* mutant: an outcome nobody knows

(* TurnExecution::fail: an error of a cancelled turn is a cancellation. *)
Failure == IF token THEN "cancelled" ELSE "failed"

(* checkpoint: ask the actor to persist the context and await its answer. *)
Checkpoint(ctx, next) ==
  /\ Send([type |-> "Persist", ctx |-> ctx])
  /\ tctx' = ctx /\ pc' = "saving" /\ then' = next /\ saved' = "none"

(* Mutant: the inbox is read but not emptied. *)
SettleUndrained(ctx, next) ==
  /\ steer' = steer
  /\ Checkpoint([ctx EXCEPT !.msgs = @ \o steer], next)

(* Mutant: the newest steered prompt replaces the others. *)
SettleNewest(ctx, next) ==
  /\ steer' = <<>>
  /\ Checkpoint([ctx EXCEPT !.msgs =
                   IF steer = <<>> THEN @ ELSE Append(@, Last(steer))], next)

(* settle: drain the steer inbox into the context and checkpoint it. *)
Settle(ctx, next) ==
  /\ steer' = <<>>
  /\ Checkpoint([ctx EXCEPT !.msgs = @ \o steer], next)

Round == used.rounds < MaxRounds /\ used' = [used EXCEPT !.rounds = @ + 1]

(* run_loop's head: a cancelled turn stops here. *)
LoopCancelled ==
  /\ pc = "loop" /\ token
  /\ Finish("cancelled")
  /\ UNCHANGED <<turnFrame, steer, then, tctx, recovered, saved, token, verdict, used, histVars>>

(* begin_step: refresh the environment, and checkpoint if the context had   *)
(* to be normalised for the selected model.                                 *)
BeginStep ==
  /\ pc = "loop" /\ ~token
  /\ \/ pc' = "fit" /\ UNCHANGED <<events, then, tctx, saved>>
     \/ Checkpoint(tctx, "fit")
     \/ Finish(Failure) /\ UNCHANGED <<then, tctx, saved>>
  /\ UNCHANGED <<turnFrame, steer, recovered, token, verdict, used, histVars>>

(* maybe_compact *)
MaybeCompact ==
  /\ pc = "fit" /\ recovered' = FALSE
  /\ pc' \in {"model", "compacting"}
  /\ UNCHANGED <<turnFrame, events, steer, then, tctx, saved, token, verdict, used, histVars>>

(* compact, automatic or recovery.  It takes the context out of the turn,   *)
(* so an error leaves an empty one behind; a recovery with nothing to       *)
(* compact checkpoints and then fails the request.                          *)
CompactInTurn ==
  /\ pc = "compacting"
  /\ \/ Checkpoint(Folded(tctx), "model")
     \/ recovered /\ Checkpoint(tctx, "fail")
     \/ tctx' = EmptyContext /\ Finish(Failure) /\ UNCHANGED <<then, saved>>
  /\ UNCHANGED <<turnFrame, steer, recovered, token, verdict, used, histVars>>

(* A reply without local tool calls: the turn goes on only if the inbox     *)
(* was not empty.                                                           *)
ReplyWithoutTools ==
  /\ pc = "model"
  /\ Settle(tctx, IF steer = <<>> THEN "completed" ELSE "loop")
  /\ UNCHANGED <<turnFrame, recovered, token, verdict, used, histVars>>

(* A reply with tool calls opens the context: it is not checkpointed before *)
(* the results are appended.                                                *)
ReplyWithTools ==
  /\ pc = "model" /\ Round
  /\ tctx' = [tctx EXCEPT !.open = TRUE] /\ pc' = "tools"
  /\ UNCHANGED <<turnFrame, events, steer, then, recovered, saved, token, verdict, histVars>>

(* A transient error: keep the partial output, settle, wait, try again. *)
RetryModel ==
  /\ pc = "model" /\ Round
  /\ Settle(tctx, "backoff")
  /\ UNCHANGED <<turnFrame, recovered, token, verdict, histVars>>

(* ContextLengthExceeded: compact once and retry that request. *)
RecoverModel ==
  /\ pc = "model" /\ ~recovered /\ Round
  /\ recovered' = TRUE /\ pc' = "compacting"
  /\ UNCHANGED <<turnFrame, events, steer, then, tctx, saved, token, verdict, histVars>>

FailModel ==
  /\ pc = "model"
  /\ Finish(Failure)
  /\ UNCHANGED <<turnFrame, steer, then, tctx, recovered, saved, token, verdict, used, histVars>>

(* wait_before_retry, then settle again if prompts arrived meanwhile. *)
Backoff ==
  /\ pc = "backoff"
  /\ IF token
     THEN Finish("cancelled") /\ UNCHANGED <<steer, then, tctx, saved>>
     ELSE IF steer # <<>>
     THEN Settle(tctx, "model")
     ELSE pc' = "model" /\ UNCHANGED <<events, steer, then, tctx, saved>>
  /\ UNCHANGED <<turnFrame, recovered, token, verdict, used, histVars>>

(* confirmation_handler: one request of the turn at a time. *)
AskPermission ==
  /\ pc = "tools" /\ ~token /\ used.asks < MaxAsks
  /\ used' = [used EXCEPT !.asks = @ + 1]
  /\ Send([type |-> "Ask", turn |-> used.turns, ask |-> used'.asks])
  /\ pc' = "asking"
  /\ UNCHANGED <<turnFrame, steer, then, tctx, recovered, saved, token, verdict, histVars>>

Allowed == verdict[used.asks] = "allow"

(* The decision arrives, or the actor dropped the request: only an allowed  *)
(* call runs.                                                               *)
TakeDecision ==
  /\ pc = "asking"
  /\ verdict[used.asks] # "none" \/ ~alive
  /\ ran' = IF Allowed THEN ran \cup {used.asks} ELSE ran
  /\ pc' = "tools"
  /\ UNCHANGED <<turnFrame, events, steer, then, tctx, recovered, saved, token, verdict, used,
                 sent, ended, unloads, approved, kept>>

(* The results of the batch close the context; a cut batch gets a result for *)
(* every call too.                                                           *)
WithResults(ctx) == [ctx EXCEPT !.open = FALSE]

NeverInterrupted == FALSE   \* mutant: a cancel does not reach a waiting call

Interrupted == pc = "asking" /\ token

(* The batch ends, or the token cuts it short wherever it is: every call    *)
(* gets a result, recorded or not, and the turn settles.                    *)
EndBatch ==
  /\ pc = "tools" \/ Interrupted
  /\ Settle(WithResults(tctx), "batch")
  /\ UNCHANGED <<turnFrame, recovered, token, verdict, used, histVars>>

(* The checkpoint was written: go on where it was asked for. *)
Saved ==
  /\ pc = "saving" /\ saved = "ok"
  /\ CASE then = "completed" -> Finish("completed")
       [] then = "fail" -> Finish(Failure)
       [] then = "batch" /\ token -> Finish("cancelled")
       [] then = "batch" /\ ~token -> pc' = "loop" /\ UNCHANGED events
       [] OTHER -> pc' = then /\ UNCHANGED events
  /\ UNCHANGED <<turnFrame, steer, then, tctx, recovered, saved, token, verdict, used, histVars>>

(* The checkpoint failed, or the actor is gone. *)
SaveLost ==
  /\ pc = "saving" /\ (saved = "err" \/ (saved = "none" /\ ~alive))
  /\ Finish(Failure)
  /\ UNCHANGED <<turnFrame, steer, then, tctx, recovered, saved, token, verdict, used, histVars>>

(* The task returns: its steer receiver goes with it. *)
DropTurn ==
  /\ pc = "done" /\ pc' = "off"
  /\ UNCHANGED <<turnFrame, events, steer, then, tctx, recovered, saved, token, verdict, used,
                 histVars>>

TurnStep ==
  \/ LoopCancelled \/ BeginStep \/ MaybeCompact \/ CompactInTurn
  \/ ReplyWithoutTools \/ ReplyWithTools \/ RetryModel \/ RecoverModel \/ FailModel \/ Backoff
  \/ AskPermission \/ TakeDecision \/ EndBatch
  \/ Saved \/ SaveLost \/ DropTurn

-----------------------------------------------------------------------------
(* The compaction task, the timer, and a fresh actor.                      *)

CompactionTask ==
  /\ ctask # None /\ ctask' = None
  /\ \E ok \in BOOLEAN :
       Send([type |-> "Compacted", id |-> ctask, ctx |-> Folded(cctx), ok |-> ok])
  /\ UNCHANGED <<actorVars, steer, turnVars, token, verdict, cctx, ctoken, storeVars, now, used,
                 histVars>>

(* Time only matters when a deadline is reached. *)
Tick ==
  /\ timer > now /\ now' = timer
  /\ UNCHANGED <<actorVars, events, steer, turnVars, token, verdict, compVars, ctoken, storeVars,
                 used, histVars>>

TimerFires ==
  /\ timer # None /\ timer <= now
  /\ timer' = None /\ Send([type |-> "Expired"])
  /\ UNCHANGED <<alive, phase, active, comp, pending, closing, rec, steer, turnVars, token,
                 verdict, compVars, ctoken, storeVars, now, used, histVars>>

(* SessionActor::spawn from the saved record, after an unload or after the  *)
(* process died: whatever was only in memory is gone.                       *)
Spawn ==
  /\ exists /\ used.spawns < MaxSpawns
  /\ used' = [used EXCEPT !.spawns = @ + 1]
  /\ alive' = TRUE /\ phase' = "Idle"
  /\ active' = None /\ comp' = None /\ pending' = None /\ closing' = None
  /\ rec' = disk /\ timer' = disk.deadline
  /\ events' = <<>> /\ steer' = <<>>
  /\ pc' = "off" /\ ctask' = None
  /\ unloads' = [c \in Callers |-> "no"]
  /\ UNCHANGED <<then, tctx, recovered, saved, token, verdict, cctx, ctoken, storeVars, now, sent,
                 ended, approved, ran, kept>>

Next ==
  \/ Prompt
  \/ Cancel
  \/ \E ask \in 1..MaxAsks, allow \in BOOLEAN : RespondPermission(ask, allow)
  \/ Unload
  \/ Compact
  \/ Keep
  \/ KeepOrCompactFails
  \/ HandleEvent
  \/ TurnStep
  \/ CompactionTask
  \/ Tick
  \/ TimerFires
  \/ Spawn

Spec == Init /\ [][Next]_vars

(* Every task is polled until it is done, a model call or a tool always     *)
(* returns, and time passes.  No client is obliged to send anything.        *)
Fairness ==
  /\ WF_vars(HandleEvent) /\ WF_vars(TurnStep) /\ WF_vars(CompactionTask)
  /\ WF_vars(Tick) /\ WF_vars(TimerFires)

FairSpec == Spec /\ Fairness

-----------------------------------------------------------------------------
(* Properties.                                                             *)

ActorType ==
  /\ alive \in BOOLEAN /\ phase \in Phases
  /\ active \in Nat /\ comp \in Nat /\ pending \in 0..MaxAsks /\ closing \in Callers \cup {None}
  /\ rec \in Record /\ timer \in Nat

ChannelType == events \in Seq(Event) /\ steer \in Seq(Nat)

TurnType ==
  /\ pc \in Labels /\ then \in Conts /\ tctx \in Context /\ recovered \in BOOLEAN
  /\ token \in BOOLEAN /\ saved \in {"none", "ok", "err"}
  /\ verdict \in [1..MaxAsks -> {"none", "allow", "deny"}]

CompactionType == ctask \in Nat /\ cctx \in Context /\ ctoken \in BOOLEAN

StoreType == disk \in Record /\ exists \in BOOLEAN /\ transcript \subseteq Nat

HistoryType ==
  /\ now \in Nat /\ used \in Counters
  /\ sent \in Seq([kind : Kinds, turn : Nat, queued : BOOLEAN])
  /\ ended \in Seq(Outcomes \cup {"running"})
  /\ unloads \in [Callers -> {"no", "waiting", "ok", "error", "closed"}]
  /\ approved \subseteq 1..MaxAsks /\ ran \subseteq 1..MaxAsks /\ kept \in BOOLEAN

(* Every variable has its type. *)
TypeOK ==
  ActorType /\ ChannelType /\ TurnType /\ CompactionType /\ StoreType /\ HistoryType

(* The phase alone tells whether something runs: compact and set_workspace  *)
(* are let through on phase = Idle without looking at the turn or the        *)
(* compaction, so Idle must mean neither, and never may both be active.      *)
IdleIsQuiet ==
  alive => /\ (phase = "Idle" <=> active = None /\ comp = None)
           /\ (active = None \/ comp = None)
           /\ (pending # None => active # None)

(* The actor's `active` and the detached tasks agree: while no turn is       *)
(* active the task is past its last checkpoint, and while one is active its  *)
(* end is still to come and names it.  So a session neither runs two turns,  *)
(* nor stays busy with one that is gone, nor stops under one that writes.    *)
TurnTracked ==
  LET ends  == {i \in 1..Len(events) : events[i].type = "Finished"}
      cends == {i \in 1..Len(events) : events[i].type = "Compacted"}
  IN /\ active = None => pc \in {"off", "done"} /\ ends = {}
     /\ active # None => /\ active = used.turns
                         /\ pc \in {"off", "done"} <=> ends # {}
                         /\ \A i \in ends : events[i].turn = active
     /\ alive /\ comp = None => ctask = None /\ cends = {}
     /\ comp # None => /\ ctask = comp <=> cends = {}
                       /\ \A i \in cends : events[i].id = comp

(* A turn never waits for a permission that nobody can give any more: its    *)
(* request is queued, registered or answered, also when a cancel, an unload  *)
(* or another request came between.                                          *)
NoStrandedAsk ==
  pc = "asking" =>
    \/ ~alive
    \/ verdict[used.asks] # "none"
    \/ pending = used.asks
    \/ \E i \in 1..Len(events) : events[i].type = "Ask" /\ events[i].ask = used.asks

(* A call runs only on an approval given for that very request, whatever     *)
(* was registered, replaced, cancelled or answered meanwhile.                *)
OnlyApprovedRun == ran \subseteq approved

(* A context, in memory or on disk, never holds tool calls without their     *)
(* results: the provider would refuse it at every later request.             *)
ContextsClosed == ~rec.ctx.open /\ ~disk.ctx.open

(* The context carries each prompt at most once and in the order the actor   *)
(* admitted them, over steering, retries, compactions and later turns.       *)
ContextInOrder ==
  \A i, j \in 1..Len(rec.ctx.msgs) : i < j => rec.ctx.msgs[i] < rec.ctx.msgs[j]

(* What every later request is built from: the contexts can be sent, and     *)
(* tell the model what was asked in the order it was asked.                  *)
ContextIsSound == ContextsClosed /\ ContextInOrder

(* Prompts of one turn are not overtaken: what the turn's end cuts off is a  *)
(* suffix of what it accepted.                                               *)
NoOvertaking ==
  \A i, j \in 1..Len(sent) :
    /\ i < j /\ sent[i].turn # None /\ sent[i].turn = sent[j].turn
    /\ sent[i].kind # "resume"
    /\ j \in ToSet(rec.ctx.msgs)
    => i \in ToSet(rec.ctx.msgs)

(* What the actor believes of its tasks is true, and prompts reach the       *)
(* context in the order in which they were taken.                            *)
TurnsHold == TurnTracked /\ NoOvertaking

(* What the record or the disk carries is never replaced by an older copy,   *)
(* neither by a turn's checkpoint, nor by a compaction that worked on a       *)
(* snapshot, nor by a failed save.  (A new actor starts from the disk; a     *)
(* torn save may leave there what the next save takes back.)                 *)
ContextGrows ==
  [][ /\ used'.spawns = used.spawns => /\ IsPrefix(rec.ctx.msgs, rec'.ctx.msgs)
                                       /\ rec.ctx.folded <= rec'.ctx.folded
      /\ used.faults = 0 => IsPrefix(disk.ctx.msgs, disk'.ctx.msgs) ]_vars

(* A cancelled compaction is never applied. *)
CancelledCompactionDropped ==
  [][ comp # None /\ ctoken /\ comp' = None /\ used'.spawns = used.spawns
      => rec'.ctx = rec.ctx ]_vars

(* No copy that is behind comes back: a checkpoint, a compaction or a failed *)
(* save only adds, and what was cancelled leaves no mark.                    *)
ContextNeverReverts == ContextGrows /\ CancelledCompactionDropped

(* An unload answered with success leaves no turn that could still write,    *)
(* nothing to apply, and on disk exactly what was in memory.                 *)
UnloadedIsSaved ==
  \A c \in Callers : unloads[c] = "ok" =>
    ~alive /\ disk = rec /\ pc \in {"off", "done"} /\ ctask = None

(* The answer owed to an unload is not lost: while its caller waits the      *)
(* actor remembers it and still has something running that will end.         *)
UnloadOwed ==
  \A c \in Callers : unloads[c] = "waiting" =>
    alive /\ closing = c /\ (active # None \/ comp # None)

(* A running turn is never in its grace period, so the session under it      *)
(* cannot expire.                                                            *)
NoDeadlineUnderTurn == alive /\ active # None => rec.deadline = None /\ timer = None

(* A deadline always has its timer, or the event the timer sent. *)
DeadlineHasTimer ==
  alive /\ rec.deadline # None =>
    timer = rec.deadline \/ \E i \in 1..Len(events) : events[i].type = "Expired"

(* A prompt that started a turn is in the saved context before its caller    *)
(* hears of it, and every acknowledged user prompt is in the transcript, so   *)
(* a restart at any later moment still has both.                             *)
AcknowledgedIsDurable ==
  \A i \in 1..Len(sent) : sent[i].turn # None =>
    /\ ~sent[i].queued /\ sent[i].kind # "resume" => i \in ToSet(disk.ctx.msgs)
    /\ sent[i].kind = "user" => i \in transcript

(* A session a client has kept is never deleted, even by an expiry that was  *)
(* already queued.                                                           *)
KeptIsNeverDeleted == kept => exists

(* The grace period against everything that overlaps it: it never runs under *)
(* a turn, never loses its timer and never takes a session that was kept.    *)
GraceHolds == NoDeadlineUnderTurn /\ DeadlineHasTimer /\ KeptIsNeverDeleted

(* Only an ephemeral session whose deadline has passed, with no turn active, *)
(* is deleted.                                                               *)
DeletesOnlyDue ==
  [][exists /\ ~exists' => rec.eph /\ active = None /\ rec.deadline \in 1..now]_vars

(* A cancelled turn ends. *)
CancelEnds == (alive /\ active # None /\ token) ~> (active = None)

(* An unload is answered. *)
UnloadAnswered == \A c \in Callers : (unloads[c] = "waiting") ~> (unloads[c] # "waiting")

(* An idle ephemeral session in its grace period is deleted unless a client  *)
(* acts on it or the repository fails.                                       *)
GraceEnds ==
  (alive /\ rec.deadline # None) ~> (~alive \/ rec.deadline = None)

-----------------------------------------------------------------------------
(* What the documentation says and the code does not do.                   *)

InContext(i) == i \in ToSet(rec.ctx.msgs)
Quiet == alive /\ phase = "Idle"
Into(i, outcome) == sent[i].turn # None /\ ended[sent[i].turn] = outcome

(* crates/dwo-agent-service/README.md:83: during an active turn, user and    *)
(* internal messages enter the steer inbox and are consumed at the next step *)
(* boundary; so a turn that completed has consumed what it accepted.         *)
AcceptedIsConsumed ==
  Quiet => \A i \in 1..Len(sent) :
             sent[i].kind # "resume" /\ Into(i, "completed") => InContext(i)

(* docs/session.md:40: after its turn an ephemeral session enters the grace  *)
(* period that ends with its deletion.                                       *)
FinishedEphemeralIsScheduled ==
  Quiet /\ rec.eph /\ used.turns > 0 => rec.deadline # None
=============================================================================
