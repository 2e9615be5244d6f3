----------------------------- MODULE Automation -----------------------------
(* AutomationRuntime for the jobs of one project: the configuration, the     *)
(* scheduler and run_now, the start of a run under the lock `starts`, the    *)
(* queue of a session, the turn a run prompts and watches, the history in    *)
(* memory and on disk, and the sessions as far as the runtime sees them.     *)
EXTENDS Integers, Sequences, FiniteSets, SequencesExt

CONSTANTS
  FixedJobs,      (* jobs bound to the session Home                           *)
  OnceJobs,       (* jobs that create a session once and keep it              *)
  EveryJobs,      (* jobs with a session of their own for each run            *)
  MaxRuns,        (* runs begun                                               *)
  MaxSessions,    (* sessions, Home being the first                           *)
  MaxAutoTurns,   (* turns begun in all sessions                              *)
  MaxIncidents,   (* edits, turns and compactions of users, questions,        *)
                  (* failing steps, the removal of sessions, restarts        *)
  HistoryKeep     (* runs the history keeps (100)                             *)

Jobs == FixedJobs \cup OnceJobs \cup EveryJobs
ASSUME JobsAssumption ==
  FixedJobs \cap OnceJobs = {} /\ (FixedJobs \cup OnceJobs) \cap EveryJobs = {}
ASSUME AutomationBoundsAssumption ==
  /\ {MaxRuns, MaxAutoTurns, MaxIncidents} \subseteq Nat
  /\ MaxSessions \in Nat \ {0}
  /\ HistoryKeep \in Nat \ {0}

VARIABLES
  scope,     (* the project, its jobs and what the API is doing to them       *)
  past,      (* AutomationHistory in memory                                   *)
  saved,     (* history.yaml                                                  *)
  listed,    (* RuntimeState.active: the runs the runtime says are active     *)
  asked,     (* jobs taken by the scheduler or cloned by run_now, not begun   *)
  starting,  (* the run that holds `starts`, 0 when it is free                *)
  runs,      (* every run and where its task is                               *)
  queues,    (* the run that holds the queue of each session, or 0            *)
  rooms,     (* the sessions                                                  *)
  spent      (* what the bounds count, and what the properties remember       *)

autoVars == <<scope, past, saved, listed, asked, starting, runs, queues, rooms, spent>>

Home == 1
RunIds == 1..MaxRuns
Rooms == 1..MaxSessions
NoHistory == [runs |-> <<>>, once |-> [j \in OnceJobs |-> 0]]
NoRun == [pc |-> "none", job |-> "", caller |-> FALSE, sess |-> 0, turn |-> 0,
          heard |-> <<>>, copy |-> NoHistory]

AutoInit ==
  /\ scope = [exists |-> TRUE, loaded |-> TRUE, jobs |-> [j \in Jobs |-> "on"],
              edit |-> <<>>, forget |-> {}, removing |-> FALSE,
              revived |-> FALSE, up |-> TRUE]
  /\ past = NoHistory
  /\ saved = NoHistory
  /\ listed = {}
  /\ asked = {}
  /\ starting = 0
  /\ runs = [r \in RunIds |-> NoRun]
  /\ queues = [s \in Rooms |-> 0]
  /\ rooms = [s \in Rooms |-> [exists |-> s = Home, turn |-> 0, asks |-> FALSE,
                               compacting |-> FALSE]]
  /\ spent = [runs |-> 0, sessions |-> 1, turns |-> 0, incidents |-> 0,
              dropped |-> {}, gaveUp |-> {},
              made |-> [j \in OnceJobs |-> {}]]

MayHappen == spent.incidents < MaxIncidents
Count(field) == [spent EXCEPT ![field] = @ + 1]

-----------------------------------------------------------------------------
(* update_config: the project is looked up before the lock of the state; the *)
(* configuration that could be written replaces the one in memory.  An edit  *)
(* that changes nothing is left out.                                         *)
Edits == {<<what, j>> : what \in {"add", "on", "off", "delete"}, j \in Jobs}

EditBegin ==
  /\ scope.edit = <<>> /\ scope.up /\ scope.exists
  /\ MayHappen
  /\ \E e \in Edits :
       /\ scope.jobs[e[2]] = CASE e[1] = "add" -> "absent" [] e[1] = "on" -> "off"
                                [] e[1] \in {"off", "delete"} -> "on"
       /\ scope' = [scope EXCEPT !.edit = e]
  /\ spent' = Count("incidents")
  /\ UNCHANGED <<past, saved, listed, asked, starting, runs, queues, rooms>>

Edited(e) ==
  [scope.jobs EXCEPT ![e[2]] = CASE e[1] \in {"add", "on"} -> "on"
                                 [] e[1] = "off" -> "off"
                                 [] e[1] = "delete" -> "absent"]

EditApply ==
  /\ scope.edit # <<>>
  /\ scope' = [scope EXCEPT
       !.jobs = IF scope.loaded THEN Edited(scope.edit)
                ELSE [j \in Jobs |-> IF scope.edit = <<"add", j>> THEN "on" ELSE "absent"],
       !.edit = <<>>, !.loaded = TRUE,
       !.revived = @ \/ ~scope.loaded,
       !.forget = IF scope.edit[1] = "delete" THEN @ \cup {scope.edit[2]} ELSE @]
  /\ past' = IF scope.loaded THEN past ELSE NoHistory
  /\ UNCHANGED <<saved, listed, asked, starting, runs, queues, rooms, spent>>

(* The write of the configuration fails, or the change does not fit.         *)
EditFails ==
  /\ scope.edit # <<>>
  /\ scope' = [scope EXCEPT !.edit = <<>>]
  /\ UNCHANGED <<past, saved, listed, asked, starting, runs, queues, rooms, spent>>

(* remove_job_state, the second half of automation.delete: the runs of other *)
(* jobs stay in their order.                                                 *)
RunsOf(j) == {past.runs[i] : i \in {i \in 1..Len(past.runs) : runs[past.runs[i]].job = j}}
OthersOf(j) == {i \in 1..Len(past.runs) : runs[past.runs[i]].job # j}
InOrder(K) ==
  {f \in Bijection(1..Cardinality(K), K) : \A i, k \in DOMAIN f : i < k => f[i] < f[k]}
Forgotten(j, f) ==
  [runs |-> [i \in 1..Cardinality(OthersOf(j)) |-> past.runs[f[i]]],
   once |-> [k \in OnceJobs |-> IF k = j THEN 0 ELSE past.once[k]]]

RemoveJobState(j) ==
  /\ j \in scope.forget
  /\ scope.up
  /\ scope' = [scope EXCEPT !.forget = @ \ {j}]
  /\ IF scope.loaded
       THEN /\ \E f \in InOrder(OthersOf(j)) : past' = Forgotten(j, f)
            /\ saved' = past'
            /\ spent' = [spent EXCEPT
                 !.dropped = @ \cup RunsOf(j),
                 !.made = [k \in OnceJobs |-> IF k = j THEN {} ELSE @[k]]]
       ELSE UNCHANGED <<past, saved, spent>>
  /\ UNCHANGED <<listed, asked, starting, runs, queues, rooms>>

(* project.delete: remove_project_config refuses while a run is active; the  *)
(* project itself goes in a later step.                                      *)
RemoveProjectConfig ==
  /\ scope.up /\ scope.exists /\ ~scope.removing
  /\ starting = 0
  /\ listed = {}
  /\ scope' = [scope EXCEPT !.loaded = FALSE, !.removing = TRUE,
                            !.jobs = [j \in Jobs |-> "absent"]]
  /\ past' = NoHistory
  /\ saved' = NoHistory
  /\ spent' = [spent EXCEPT
       !.dropped = @ \cup {r \in RunIds : runs[r].pc # "none"},
       !.made = [j \in OnceJobs |-> {}]]
  /\ UNCHANGED <<listed, asked, starting, runs, queues, rooms>>

DeleteProject ==
  /\ scope.removing /\ scope.exists
  /\ scope' = [scope EXCEPT !.exists = FALSE]
  /\ UNCHANGED <<past, saved, listed, asked, starting, runs, queues, rooms, spent>>

-----------------------------------------------------------------------------
(* take_due_jobs and run_now clone a job out of the configuration; start_job *)
(* meets the configuration later.                                            *)
AskFor(j, scheduled) ==
  /\ scope.up /\ scope.loaded
  /\ asked = {} /\ spent.runs < MaxRuns
  /\ asked' = {[job |-> j, scheduled |-> scheduled]}
  /\ UNCHANGED <<scope, past, saved, listed, starting, runs, queues, rooms, spent>>

TakeDueJob(j) == scope.jobs[j] = "on" /\ AskFor(j, TRUE)
RunNow(j) == scope.jobs[j] # "absent" /\ AskFor(j, FALSE)

(* start_job, under `starts` to its end: the job must still be there.        *)
StillThere(a) ==
  /\ scope.exists /\ scope.loaded
  /\ scope.jobs[a.job] \in IF a.scheduled THEN {"on"} ELSE {"on", "off"}

Refuse(a) ==
  /\ a \in asked /\ starting = 0
  /\ ~StillThere(a)
  /\ asked' = asked \ {a}
  /\ UNCHANGED <<scope, past, saved, listed, starting, runs, queues, rooms, spent>>

Begin(a, r) ==
  /\ a \in asked /\ starting = 0
  /\ StillThere(a)
  /\ r = spent.runs + 1
  /\ asked' = asked \ {a}
  /\ starting' = r
  /\ runs' = [runs EXCEPT ![r] = [NoRun EXCEPT !.pc = "resolve", !.job = a.job,
                                               !.caller = ~a.scheduled]]
  /\ listed' = listed \cup {r}
  /\ spent' = Count("runs")
  /\ UNCHANGED <<scope, past, saved, queues, rooms>>

Go(r, pc) == runs' = [runs EXCEPT ![r].pc = pc]

(* resolve_session and the configuration of the session; then the task of    *)
(* the run is spawned and the start is over.                                 *)
BoundTo(j) == past.once[j]
Exists(s) == s # 0 /\ rooms[s].exists
Spawn(r, s) ==
  /\ runs' = [runs EXCEPT ![r].pc = "queued", ![r].sess = s, ![r].copy = NoHistory]
  /\ starting' = 0

ResolveExisting(r) ==
  /\ runs[r].pc = "resolve"
  /\ LET j == runs[r].job
         s == IF j \in FixedJobs THEN Home ELSE IF j \in OnceJobs THEN BoundTo(j) ELSE 0
     IN  Exists(s) /\ Spawn(r, s)
  /\ UNCHANGED <<scope, past, saved, listed, asked, queues, rooms, spent>>

NewRoom == spent.sessions + 1
RoomMade(r) ==
  /\ NewRoom <= MaxSessions
  /\ rooms' = [rooms EXCEPT ![NewRoom].exists = TRUE]
  /\ spent' = [Count("sessions") EXCEPT
       !.made = [k \in OnceJobs |-> IF k = runs[r].job THEN @[k] \cup {NewRoom} ELSE @[k]]]

CreateEvery(r) ==
  /\ runs[r].pc = "resolve" /\ runs[r].job \in EveryJobs
  /\ RoomMade(r)
  /\ Spawn(r, NewRoom)
  /\ UNCHANGED <<scope, past, saved, listed, asked, queues>>

(* once_session: bound in memory under the lock, written without it.         *)
CreateOnce(r) ==
  /\ runs[r].pc = "resolve" /\ runs[r].job \in OnceJobs
  /\ ~Exists(BoundTo(runs[r].job))
  /\ RoomMade(r)
  /\ LET bound == [past EXCEPT !.once[runs[r].job] = NewRoom] IN
     /\ past' = bound
     /\ runs' = [runs EXCEPT ![r].pc = "write", ![r].sess = NewRoom, ![r].copy = bound]
  /\ UNCHANGED <<scope, saved, listed, asked, starting, queues>>

WriteBinding(r) ==
  /\ runs[r].pc = "write"
  /\ saved' = runs[r].copy
  /\ Spawn(r, runs[r].sess)
  /\ UNCHANGED <<scope, past, listed, asked, queues, rooms, spent>>

(* A start fails: a session that is missing or cannot be created, written or *)
(* configured.                                                               *)
StartFails(r) ==
  /\ runs[r].pc \in {"resolve", "write"}
  /\ \/ MayHappen /\ spent' = Count("incidents")
     \/ /\ runs[r].pc = "resolve"
        /\ runs[r].job \in FixedJobs /\ ~Exists(Home)
        /\ UNCHANGED spent
  /\ runs' = [runs EXCEPT ![r].pc = "ended", ![r].copy = NoHistory]
  /\ UNCHANGED <<scope, past, saved, listed, asked, starting, queues, rooms>>

-----------------------------------------------------------------------------
(* run_queued_job and start_execution                                        *)
OwnQueue(r) == runs[r].job \in EveryJobs

\* mutant: runs of one session do not wait for each other.
TakeQueueAtOnce(r) ==
  /\ runs[r].pc = "queued"
  /\ Go(r, "prompt")
  /\ UNCHANGED <<scope, past, saved, listed, asked, starting, queues, rooms, spent>>

TakeQueue(r) ==
  /\ runs[r].pc = "queued"
  /\ OwnQueue(r) \/ queues[runs[r].sess] = 0
  /\ queues' = IF OwnQueue(r) THEN queues ELSE [queues EXCEPT ![runs[r].sess] = r]
  /\ Go(r, "prompt")
  /\ UNCHANGED <<scope, past, saved, listed, asked, starting, rooms, spent>>

(* A prompt begins a turn, or joins the one that runs.                       *)
Prompted(s) ==
  IF rooms[s].turn # 0 THEN UNCHANGED <<rooms, spent>>
  ELSE /\ spent.turns < MaxAutoTurns
       /\ rooms' = [rooms EXCEPT ![s].turn = spent.turns + 1]
       /\ spent' = Count("turns")

Prompt(r) ==
  LET s == runs[r].sess IN
  /\ runs[r].pc = "prompt"
  /\ Exists(s) /\ ~rooms[s].compacting
  /\ Prompted(s)
  /\ runs' = [runs EXCEPT ![r].pc = "watch", ![r].turn = rooms'[s].turn]
  /\ UNCHANGED <<scope, past, saved, listed, asked, starting, queues>>

(* SessionBusy: only a compaction is; the run waits for the end of a turn.   *)
Busy(r) ==
  /\ runs[r].pc = "prompt"
  /\ Exists(runs[r].sess) /\ rooms[runs[r].sess].compacting
  /\ Go(r, "wait")
  /\ UNCHANGED <<scope, past, saved, listed, asked, starting, queues, rooms, spent>>

Wake(r) ==
  /\ runs[r].pc = "wait"
  /\ runs[r].heard # <<>>
  /\ runs' = [runs EXCEPT ![r].pc = "prompt", ![r].heard = Tail(@)]
  /\ UNCHANGED <<scope, past, saved, listed, asked, starting, queues, rooms, spent>>

(* monitor_execution                                                         *)
End(r) == runs' = [runs EXCEPT ![r].pc = "ended", ![r].heard = <<>>]

HearEnd(r) ==
  /\ runs[r].pc = "watch"
  /\ runs[r].heard # <<>>
  /\ IF runs[r].heard[1] = runs[r].turn
       THEN End(r)
       ELSE runs' = [runs EXCEPT ![r].heard = Tail(@)]
  /\ UNCHANGED <<scope, past, saved, listed, asked, starting, queues, rooms, spent>>

(* A permission request of the turn is denied: nobody is there to ask.       *)
Deny(r) ==
  LET s == runs[r].sess IN
  /\ runs[r].pc = "watch"
  /\ rooms[s].asks /\ rooms[s].turn = runs[r].turn
  /\ rooms' = [rooms EXCEPT ![s].asks = FALSE]
  /\ UNCHANGED <<scope, past, saved, listed, asked, starting, runs, queues, spent>>

(* The timeout, and the shutdown, cancel the turn and do not wait for it.    *)
Cancelled(s, t) ==
  IF rooms[s].turn = t THEN [rooms EXCEPT ![s].asks = FALSE] ELSE rooms

Timeout(r) ==
  /\ runs[r].pc = "watch"
  /\ MayHappen
  /\ rooms' = Cancelled(runs[r].sess, runs[r].turn)
  /\ End(r)
  /\ spent' = [Count("incidents") EXCEPT !.gaveUp = @ \cup {r}]
  /\ UNCHANGED <<scope, past, saved, listed, asked, starting, queues>>

(* The stream lags or ends, the session is gone or a call fails: the run     *)
(* gives up without a cancel.                                                *)
GiveUp(r) ==
  /\ runs[r].pc \in {"prompt", "wait", "watch"}
  /\ \/ MayHappen /\ spent' = [Count("incidents") EXCEPT !.gaveUp = @ \cup {r}]
     \/ /\ ~Exists(runs[r].sess)
        /\ spent' = [spent EXCEPT !.gaveUp = @ \cup {r}]
  /\ End(r)
  /\ UNCHANGED <<scope, past, saved, listed, asked, starting, queues, rooms>>

Stop(r) ==
  /\ ~scope.up
  /\ runs[r].pc \in {"queued", "wait", "watch"}
  /\ rooms' = IF runs[r].pc = "watch" THEN Cancelled(runs[r].sess, runs[r].turn) ELSE rooms
  /\ End(r)
  /\ spent' = [spent EXCEPT !.gaveUp = @ \cup {r}]
  /\ UNCHANGED <<scope, past, saved, listed, asked, starting, queues>>

-----------------------------------------------------------------------------
(* The end of a run: off the list, into the history, back to the caller.     *)
ClearActive(r) ==
  /\ runs[r].pc = "ended"
  /\ listed' = listed \ {r}
  /\ Go(r, "append")
  /\ UNCHANGED <<scope, past, saved, asked, starting, queues, rooms, spent>>

Recorded(r) ==
  LET all == Append(past.runs, r) IN
  [past EXCEPT !.runs =
     IF Len(all) > HistoryKeep THEN SubSeq(all, Len(all) - HistoryKeep + 1, Len(all)) ELSE all]

Rest(r) == runs' = [runs EXCEPT ![r] = [NoRun EXCEPT !.pc = "done", !.job = runs[r].job,
                                                    !.turn = runs[r].turn]]

AppendHistory(r) ==
  /\ runs[r].pc = "append"
  /\ IF scope.loaded
       THEN /\ past' = Recorded(r)
            /\ saved' = Recorded(r)
            /\ spent' = [spent EXCEPT !.dropped =
                 @ \cup (ToSet(Append(past.runs, r)) \ ToSet(Recorded(r).runs))]
       ELSE /\ spent' = [spent EXCEPT !.dropped = @ \cup {r}]
            /\ UNCHANGED <<past, saved>>
  /\ IF starting = r THEN Rest(r) ELSE Go(r, "deliver")
  /\ starting' = IF starting = r THEN 0 ELSE starting
  /\ UNCHANGED <<scope, listed, asked, queues, rooms>>

(* The queue is held until the result is delivered; a caller that is busy    *)
(* or gone does not get it.                                                  *)
Deliver(r) ==
  /\ runs[r].pc = "deliver"
  /\ IF runs[r].caller /\ Exists(Home) /\ ~rooms[Home].compacting
       THEN Prompted(Home)
       ELSE UNCHANGED <<rooms, spent>>
  /\ Rest(r)
  /\ queues' = [s \in Rooms |-> IF queues[s] = r THEN 0 ELSE queues[s]]
  /\ UNCHANGED <<scope, past, saved, listed, asked, starting>>

-----------------------------------------------------------------------------
(* The sessions, as the runtime meets them                                   *)
UserPrompt ==
  /\ rooms[Home].exists /\ ~rooms[Home].compacting /\ rooms[Home].turn = 0
  /\ MayHappen
  /\ rooms' = [rooms EXCEPT ![Home].turn = spent.turns + 1]
  /\ spent' = [Count("incidents") EXCEPT !.turns = @ + 1]
  /\ UNCHANGED <<scope, past, saved, listed, asked, starting, runs, queues>>

Ask(s) ==
  /\ rooms[s].turn # 0 /\ ~rooms[s].asks
  /\ \E r \in RunIds : runs[r].pc = "watch" /\ runs[r].turn = rooms[s].turn
  /\ MayHappen
  /\ rooms' = [rooms EXCEPT ![s].asks = TRUE]
  /\ spent' = Count("incidents")
  /\ UNCHANGED <<scope, past, saved, listed, asked, starting, runs, queues>>

TurnEnds(s) ==
  /\ rooms[s].turn # 0 /\ ~rooms[s].asks
  /\ rooms' = [rooms EXCEPT ![s].turn = 0]
  /\ runs' = [r \in RunIds |->
       IF runs[r].sess = s /\ runs[r].pc \in {"prompt", "wait", "watch"}
         THEN [runs[r] EXCEPT !.heard = Append(@, rooms[s].turn)]
         ELSE runs[r]]
  /\ UNCHANGED <<scope, past, saved, listed, asked, starting, queues, spent>>

CompactHome ==
  /\ rooms[Home].exists /\ rooms[Home].turn = 0 /\ ~rooms[Home].compacting
  /\ MayHappen
  /\ rooms' = [rooms EXCEPT ![Home].compacting = TRUE]
  /\ spent' = Count("incidents")
  /\ UNCHANGED <<scope, past, saved, listed, asked, starting, runs, queues>>

(* A compaction ends with a notification, and with no event of a turn.       *)
CompactionEnds ==
  /\ rooms[Home].compacting
  /\ rooms' = [rooms EXCEPT ![Home].compacting = FALSE]
  /\ UNCHANGED <<scope, past, saved, listed, asked, starting, runs, queues, spent>>

DeleteSession(s) ==
  /\ rooms[s].exists /\ rooms[s].turn = 0 /\ ~rooms[s].compacting
  /\ MayHappen
  /\ rooms' = [rooms EXCEPT ![s].exists = FALSE]
  /\ spent' = Count("incidents")
  /\ UNCHANGED <<scope, past, saved, listed, asked, starting, runs, queues>>

-----------------------------------------------------------------------------
(* shutdown is announced before the process ends; a crash is not. The next   *)
(* process knows what is on disk: no run that had not ended is there.        *)
Shutdown ==
  /\ scope.up /\ MayHappen
  /\ scope' = [scope EXCEPT !.up = FALSE]
  /\ UNCHANGED <<past, saved, listed, asked, starting, runs, queues, rooms, spent>>

Restart ==
  LET known == IF scope.exists THEN saved ELSE NoHistory IN
  /\ MayHappen
  /\ scope' = [scope EXCEPT !.up = TRUE, !.edit = <<>>, !.forget = {},
                            !.removing = FALSE, !.loaded = scope.exists, !.revived = FALSE]
  /\ past' = known
  /\ listed' = {}
  /\ asked' = {}
  /\ starting' = 0
  /\ queues' = [s \in Rooms |-> 0]
  /\ runs' = [r \in RunIds |-> IF runs[r].pc \in {"none", "done"} THEN runs[r]
                              ELSE [NoRun EXCEPT !.pc = "gone", !.job = runs[r].job]]
  /\ rooms' = [s \in Rooms |-> [rooms[s] EXCEPT !.turn = 0, !.asks = FALSE,
                                                !.compacting = FALSE]]
  /\ spent' = [Count("incidents") EXCEPT !.made = [j \in OnceJobs |-> {}],
       !.dropped = {r \in RunIds : runs[r].pc # "none"} \ ToSet(known.runs)]
  /\ UNCHANGED saved

AutoNext ==
  \/ EditBegin \/ EditApply \/ EditFails \/ RemoveProjectConfig \/ DeleteProject
  \/ \E j \in Jobs : RemoveJobState(j) \/ TakeDueJob(j) \/ RunNow(j)
  \/ \E a \in asked : Refuse(a) \/ \E r \in RunIds : Begin(a, r)
  \/ \E r \in RunIds :
       \/ ResolveExisting(r) \/ CreateEvery(r) \/ CreateOnce(r) \/ WriteBinding(r)
       \/ StartFails(r)
       \/ TakeQueue(r) \/ Prompt(r) \/ Busy(r) \/ Wake(r)
       \/ HearEnd(r) \/ Deny(r) \/ Timeout(r) \/ GiveUp(r) \/ Stop(r)
       \/ ClearActive(r) \/ AppendHistory(r) \/ Deliver(r)
  \/ UserPrompt \/ CompactHome \/ CompactionEnds
  \/ \E s \in Rooms : Ask(s) \/ TurnEnds(s) \/ DeleteSession(s)
  \/ Shutdown \/ Restart

AutoSpec == AutoInit /\ [][AutoNext]_autoVars

-----------------------------------------------------------------------------
(* Every run that was begun is on the list of active runs until it has       *)
(* ended, and afterwards in the history exactly once, whatever failed on the *)
(* way; only a removal, the limit or a restart takes it out.                 *)
RunsAccounted ==
  /\ listed = {r \in RunIds : runs[r].pc \notin
                 {"none", "append", "deliver", "done", "gone"}}
  /\ IsInjective(past.runs)
  /\ \A r \in RunIds : runs[r].pc \in {"deliver", "done"} =>
       r \in ToSet(past.runs) \cup spent.dropped

(* Two runs answer for different turns: the queue keeps a run from steering  *)
(* into the turn of another, unless that one gave its turn up.               *)
NoSharedTurn ==
  \A r, q \in RunIds :
    r # q /\ runs[r].turn # 0 /\ runs[r].turn = runs[q].turn
      => {r, q} \cap spent.gaveUp # {}

(* A job that keeps its session has one: starts that overlap do not create   *)
(* a second while the first exists, within the life of the process.          *)
OnceIsOnce ==
  \A j \in OnceJobs : Cardinality({s \in spent.made[j] : rooms[s].exists}) <= 1

(* A project that was deleted has no run at work, unless an edit that        *)
(* overlapped the deletion brought its configuration back.                   *)
DeletedProjectIsQuiet == ~scope.exists /\ ~scope.revived => listed = {}

(* What a job's owner relies on: every run that ends is in the history once, *)
(* runs do not share turns or create a second session, and a deleted project *)
(* starts nothing.                                                           *)
AutomationHolds == RunsAccounted /\ NoSharedTurn /\ OnceIsOnce /\ DeletedProjectIsQuiet
=============================================================================
