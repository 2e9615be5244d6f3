--------------------------- MODULE SessionService ---------------------------
(* SessionService: the registry of loaded actors and the calls that load,    *)
(* prompt, rebind, unload, archive, list and delete a session.               *)
(*                                                                           *)
(* Calls on different sessions share nothing but the registry's short        *)
(* critical sections, so one session is modelled.  A step is what a call     *)
(* does between two awaits.  An actor is reduced to what the service sees of *)
(* it: whether it answers, whether a turn runs, its record and its saves;    *)
(* SessionActor has the rest.                                                *)
EXTENDS Integers, Sequences

CONSTANTS
  Callers,     \* the tasks that call the service
  Nobody,      \* the holder of a free lock
  Ops,         \* the operations they call
  Titled,      \* whether the stored session has a title
  MaxCalls, MaxFaults     \* bounds on the calls and on the failures of the repository

None == 0

Mutating == {"prompt", "rebind", "archive", "unarchive", "delete"}
OpNames == Mutating \cup {"open", "unload", "list"}

ASSUME CallersAssumption == Nobody \notin Callers
ASSUME OpsAssumption == Ops \subseteq OpNames
ASSUME BoundsAssumption == MaxCalls \in Nat /\ MaxFaults \in Nat /\ Titled \in BOOLEAN

VARIABLES
  handle,      \* loaded.handles: the actor the session's handle leads to, or None
  deleting,    \* loaded.deleting has the session
  slock,       \* the caller that holds the session lock, or Nobody
  mlock,       \* the caller that holds the mutation lock, or Nobody
  disk,        \* where the repository has the session, and its record
  actors,      \* every actor ever spawned for the session
  calls,       \* what each caller is doing: operation, next step, handle and record it holds
  acked,       \* history: the numbers of the prompts that were acknowledged
  erased,      \* history: a delete has removed the session
  used         \* the calls and the failures so far

vars == <<handle, deleting, slock, mlock, disk, actors, calls, acked, erased, used>>
registry == <<handle, deleting>>
locks    == <<slock, mlock>>
history  == <<acked, erased, used>>

(* The notes of a record are the numbers of the calls that changed it. *)
Record == [notes : SUBSET (1..MaxCalls), titled : BOOLEAN]

NoRecord == [notes |-> {}, titled |-> Titled]

NoCall == [op |-> "none", pc |-> "idle", id |-> None, h |-> None, rec |-> NoRecord]

Init ==
  /\ handle = None /\ deleting = FALSE /\ slock = Nobody /\ mlock = Nobody
  /\ disk = [where |-> "active", rec |-> NoRecord]
  /\ actors = <<>>
  /\ calls = [c \in Callers |-> NoCall]
  /\ acked = {} /\ erased = FALSE /\ used = [calls |-> 0, faults |-> 0]

-----------------------------------------------------------------------------
(* Moving a call along.                                                      *)

At(c, step) == calls[c].pc = step
Goto(c, step) == calls' = [calls EXCEPT ![c].pc = step]

UnlockKeepsSession(c) ==   \* mutant: the session lock is never given back
  /\ slock' = slock
  /\ mlock' = IF mlock = c THEN Nobody ELSE mlock

(* The guards of a call are dropped when it returns. *)
Unlock(c) ==
  /\ slock' = IF slock = c THEN Nobody ELSE slock
  /\ mlock' = IF mlock = c THEN Nobody ELSE mlock

Return(c) == calls' = [calls EXCEPT ![c] = NoCall] /\ Unlock(c)

Fault == used.faults < MaxFaults /\ used' = [used EXCEPT !.faults = @ + 1]

(* SessionRepository::save: the directory is created again if it is gone.    *)
Saved(rec) == [where |-> IF disk.where = "none" THEN "active" ELSE disk.where, rec |-> rec]

Terminated(a) == actors[a].state = "gone"
(* Mutant: a load does not wait for the end of an actor that closes. *)
UsableIfLive == handle # None /\ actors[handle].state = "live"

Usable == handle # None /\ ~Terminated(handle)

(* A call starts at its first await: the mutation lock, if it takes it. *)
Begin(c, op) ==
  /\ At(c, "idle") /\ used.calls < MaxCalls
  /\ used' = [used EXCEPT !.calls = @ + 1]
  /\ calls' = [calls EXCEPT ![c] =
       [NoCall EXCEPT !.op = op, !.id = used'.calls,
                      !.pc = IF op \in Mutating THEN "mlock"
                             ELSE IF op = "open" THEN "look"
                             ELSE IF op = "unload" THEN "find" ELSE "scan"]]
  /\ UNCHANGED <<registry, locks, disk, actors, acked, erased>>

MutationFree(c) == mlock = Nobody

AcquireMutation(c) ==
  /\ At(c, "mlock") /\ MutationFree(c)
  /\ mlock' = c
  /\ Goto(c, IF calls[c].op = "delete" THEN "slock"
             ELSE IF calls[c].op = "unarchive" THEN "unarchive" ELSE "check")
  /\ UNCHANGED <<registry, slock, disk, actors, history>>

SessionUnlocked(c) == TRUE   \* mutant: the session lock excludes nobody

SessionFree(c) == slock = Nobody

AcquireSession(c) ==
  /\ At(c, "slock") /\ SessionFree(c)
  /\ slock' = c
  /\ Goto(c, IF calls[c].op = "delete" THEN "mark" ELSE "relook")
  /\ UNCHANGED <<registry, mlock, disk, actors, history>>

(* ensure_active *)
Check(c) ==
  /\ At(c, "check")
  /\ IF disk.where = "archived" THEN Return(c)
     ELSE Goto(c, IF calls[c].op = "rebind" THEN "bind" ELSE "look") /\ UNCHANGED locks
  /\ UNCHANGED <<registry, disk, actors, history>>

-----------------------------------------------------------------------------
(* load_resolved: look, lock, look again, read, prepare, look and install.   *)

(* The load returns: the session lock is free, the caller has its handle.    *)
Loaded(c, a) ==
  /\ calls' = [calls EXCEPT ![c].pc = "request", ![c].h = a]
  /\ slock' = IF slock = c THEN Nobody ELSE slock
  /\ UNCHANGED mlock

LookUp(c, miss) ==
  /\ IF deleting THEN Return(c)
     ELSE IF Usable THEN Loaded(c, handle)
     ELSE Goto(c, miss) /\ UNCHANGED locks
  /\ UNCHANGED <<registry, disk, actors, history>>

Look(c) == At(c, "look") /\ LookUp(c, "slock")
LookAgain(c) == At(c, "relook") /\ LookUp(c, "load")

LoadRecord(c) ==
  /\ At(c, "load")
  /\ IF disk.where = "none" THEN Return(c)
     ELSE calls' = [calls EXCEPT ![c].pc = "prepare", ![c].rec = disk.rec] /\ UNCHANGED locks
  /\ UNCHANGED <<registry, disk, actors, history>>

(* The record is saved if its title, workspace, prompt or usage changed. *)
Prepare(c) ==
  /\ At(c, "prepare")
  /\ LET rec == [calls[c].rec EXCEPT !.titled = TRUE]
     IN /\ calls' = [calls EXCEPT ![c].pc = "install", ![c].rec = rec]
        /\ \/ disk' = Saved(rec)
           \/ rec = calls[c].rec /\ UNCHANGED disk
  /\ UNCHANGED <<registry, locks, actors, history>>

Spawned(rec) == [state |-> "live", turn |-> FALSE, rec |-> rec, closer |-> Nobody]

(* Also here a handle that appeared meanwhile, or a delete, goes first. *)
Install(c) ==
  /\ At(c, "install")
  /\ IF deleting \/ Usable THEN LookUp(c, "install")
     ELSE /\ actors' = Append(actors, Spawned(calls[c].rec))
          /\ handle' = Len(actors')
          /\ Loaded(c, handle')
          /\ UNCHANGED <<deleting, disk, history>>

-----------------------------------------------------------------------------
(* A request to the actor.  An actor that has left its loop still owns its   *)
(* mailbox: what is sent then is answered, with an error, when it is gone.   *)

Asks(c, ops, states) ==
  At(c, "request") /\ calls[c].op \in ops /\ actors[calls[c].h].state \in states

Snapshot(c) ==
  /\ Asks(c, {"open", "list"}, {"live", "closing"})
  /\ Return(c)
  /\ UNCHANGED <<registry, disk, actors, history>>

RequestFails(c) ==
  /\ \/ Asks(c, OpNames, {"gone"})
     \/ Asks(c, {"prompt", "rebind", "archive"}, {"closing"})
     \/ Asks(c, {"rebind", "archive"}, {"live"}) /\ actors[calls[c].h].turn
  /\ Return(c)
  /\ UNCHANGED <<registry, disk, actors, history>>

(* Mutant: the note names the call after this one. *)
NotedLate(rec, c) == [rec EXCEPT !.notes = @ \cup {calls[c].id + 1}]

Noted(rec, c) == [rec EXCEPT !.notes = @ \cup {calls[c].id}]

(* A prompt to an idle actor and a rebind are saved before they are          *)
(* acknowledged.                                                             *)
Change(c) ==
  LET a == calls[c].h
      rec == Noted(actors[a].rec, c)
      prompts == calls[c].op = "prompt"
  IN /\ Asks(c, {"prompt", "rebind"}, {"live"}) /\ ~actors[a].turn
     /\ \/ /\ disk' = Saved(rec)
           /\ acked' = IF prompts THEN acked \cup {calls[c].id} ELSE acked
           /\ actors' = [actors EXCEPT ![a].rec = rec, ![a].turn = prompts]
           /\ UNCHANGED used
        \/ /\ Fault /\ UNCHANGED <<disk, acked>>
           /\ actors' = IF prompts THEN [actors EXCEPT ![a].rec = rec] ELSE actors
     /\ Return(c)
     /\ UNCHANGED <<registry, erased>>

(* A prompt during a turn goes to the turn (see SessionActor). *)
Steer(c) ==
  /\ Asks(c, {"prompt"}, {"live"}) /\ actors[calls[c].h].turn
  /\ Return(c)
  /\ UNCHANGED <<registry, disk, actors, history>>

(* archive goes on only if the snapshot says Idle. *)
ArchiveIdle(c) ==
  /\ Asks(c, {"archive"}, {"live"}) /\ ~actors[calls[c].h].turn
  /\ Goto(c, "find")
  /\ UNCHANGED <<registry, locks, disk, actors, history>>

Request(c) == Snapshot(c) \/ RequestFails(c) \/ Change(c) \/ Steer(c) \/ ArchiveIdle(c)

-----------------------------------------------------------------------------
(* rebind_workspace: through the actor if one is loaded, else in the stored  *)
(* record, without the session lock.                                         *)

Bind(c) ==
  /\ At(c, "bind")
  /\ calls' = IF Usable THEN [calls EXCEPT ![c].pc = "request", ![c].h = handle]
              ELSE [calls EXCEPT ![c].pc = "reread"]
  /\ UNCHANGED <<registry, locks, disk, actors, history>>

Reread(c) ==
  /\ At(c, "reread")
  /\ IF disk.where = "none" THEN Return(c)
     ELSE /\ calls' = [calls EXCEPT ![c].pc = "rewrite", ![c].rec = Noted(disk.rec, c)]
          /\ UNCHANGED locks
  /\ UNCHANGED <<registry, disk, actors, history>>

Rewrite(c) ==
  /\ At(c, "rewrite")
  /\ disk' = Saved(calls[c].rec)
  /\ Return(c)
  /\ UNCHANGED <<registry, actors, history>>

Rebind(c) == Bind(c) \/ Reread(c) \/ Rewrite(c)

-----------------------------------------------------------------------------
(* unload, alone or inside archive; archive; unarchive.                      *)

(* Without a handle there is nothing to unload if the session exists. *)
Find(c) ==
  /\ At(c, "find")
  /\ IF ~deleting /\ handle # None
     THEN /\ calls' = [calls EXCEPT ![c].h = handle,
                                    ![c].pc = IF Terminated(handle) THEN "drop" ELSE "quit"]
          /\ UNCHANGED locks
     ELSE IF ~deleting /\ calls[c].op = "archive" /\ disk.where # "none"
     THEN Goto(c, "archive") /\ UNCHANGED locks
     ELSE Return(c)
  /\ UNCHANGED <<registry, disk, actors, history>>

AfterQuit(c) == IF calls[c].op = "delete" THEN "inspect" ELSE "drop"

(* A delete whose unload fails gives the mark back; the handle stays out. *)
QuitFails(c) ==
  /\ deleting' = (deleting /\ calls[c].op # "delete")
  /\ Return(c)
  /\ UNCHANGED handle

(* The actor's last save, the answer to its closer c, and the end of its     *)
(* loop.  It stops also if the save fails.                                   *)
Stops(a, c) ==
  /\ actors' = [actors EXCEPT ![a].state = "stopping", ![a].turn = FALSE]
  /\ \/ disk' = Saved(actors[a].rec) /\ Goto(c, AfterQuit(c)) /\ UNCHANGED <<registry, locks, used>>
     \/ Fault /\ QuitFails(c) /\ UNCHANGED disk
  /\ UNCHANGED <<acked, erased>>

QuitIdle(c) ==
  /\ At(c, "quit")
  /\ actors[calls[c].h].state = "live" /\ ~actors[calls[c].h].turn
  /\ Stops(calls[c].h, c)

(* During a turn the answer waits for its end. *)
QuitBusy(c) ==
  /\ At(c, "quit")
  /\ actors[calls[c].h].state = "live" /\ actors[calls[c].h].turn
  /\ actors' = [actors EXCEPT ![calls[c].h].state = "closing", ![calls[c].h].closer = c]
  /\ Goto(c, "await")
  /\ UNCHANGED <<registry, locks, disk, history>>

QuitRefused(c) ==
  /\ At(c, "quit")
  /\ actors[calls[c].h].state \in {"closing", "gone"}
  /\ QuitFails(c)
  /\ UNCHANGED <<disk, actors, history>>

Quit(c) == QuitIdle(c) \/ QuitBusy(c) \/ QuitRefused(c)

(* Only the handle that was unloaded is dropped. *)
Dropped(c) == IF handle = calls[c].h THEN None ELSE handle

Drop(c) ==
  /\ At(c, "drop")
  /\ handle' = Dropped(c)
  /\ IF calls[c].op = "archive" THEN Goto(c, "archive") /\ UNCHANGED locks ELSE Return(c)
  /\ UNCHANGED <<deleting, disk, actors, history>>

MoveBack(c, step, from, to) ==   \* mutant: the two places are mixed up
  /\ At(c, step)
  /\ disk' = [disk EXCEPT !.where = IF @ = to THEN from ELSE @]
  /\ Return(c)
  /\ UNCHANGED <<registry, actors, history>>

Move(c, step, from, to) ==
  /\ At(c, step)
  /\ disk' = [disk EXCEPT !.where = IF @ = from THEN to ELSE @]
  /\ Return(c)
  /\ UNCHANGED <<registry, actors, history>>

Archive(c) == Move(c, "archive", "active", "archived")
Unarchive(c) == Move(c, "unarchive", "archived", "active")

-----------------------------------------------------------------------------
(* delete, with both locks: mark and take the handle, unload, read, remove.  *)

Mark(c) ==
  /\ At(c, "mark")
  /\ IF deleting THEN Return(c) /\ UNCHANGED registry
     ELSE /\ deleting' = TRUE /\ handle' = None
          /\ calls' = [calls EXCEPT ![c].h = handle, ![c].pc = IF Usable THEN "quit" ELSE "inspect"]
          /\ UNCHANGED locks
  /\ UNCHANGED <<disk, actors, history>>

Inspect(c) ==
  /\ At(c, "inspect")
  /\ Goto(c, "erase")
  /\ UNCHANGED <<registry, locks, disk, actors, history>>

Erase(c) ==
  /\ At(c, "erase")
  /\ \/ disk' = [disk EXCEPT !.where = "none"] /\ erased' = TRUE /\ UNCHANGED used
     \/ Fault /\ UNCHANGED <<disk, erased>>
  /\ Goto(c, "unmark")
  /\ UNCHANGED <<registry, locks, actors, acked>>

Unmark(c) ==
  /\ At(c, "unmark")
  /\ deleting' = FALSE
  /\ Return(c)
  /\ UNCHANGED <<handle, disk, actors, history>>

Delete(c) == Mark(c) \/ Inspect(c) \/ Erase(c) \/ Unmark(c)

-----------------------------------------------------------------------------
(* list: no lock is held from the reading of the record to its repair.       *)

Scan(c) ==
  /\ At(c, "scan")
  /\ IF deleting THEN Return(c) ELSE Goto(c, "gather") /\ UNCHANGED locks
  /\ UNCHANGED <<registry, disk, actors, history>>

Gather(c) ==
  /\ At(c, "gather")
  /\ IF disk.where = "none" THEN Return(c)
     ELSE /\ calls' = [calls EXCEPT ![c].rec = disk.rec,
                                    ![c].pc = IF disk.rec.titled THEN "status" ELSE "transcript"]
          /\ UNCHANGED locks
  /\ UNCHANGED <<registry, disk, actors, history>>

(* The title is made from the transcript, if there is one. *)
ReadTranscript(c) ==
  /\ At(c, "transcript")
  /\ Goto(c, IF disk.where = "none" THEN "status" ELSE "retitle")
  /\ UNCHANGED <<registry, locks, disk, actors, history>>

Retitle(c) ==
  /\ At(c, "retitle")
  /\ disk' = Saved([calls[c].rec EXCEPT !.titled = TRUE])
  /\ Goto(c, "status")
  /\ UNCHANGED <<registry, locks, actors, history>>

Status(c) ==
  /\ At(c, "status")
  /\ IF Usable THEN Loaded(c, handle) ELSE Return(c)
  /\ UNCHANGED <<registry, disk, actors, history>>

List(c) == Scan(c) \/ Gather(c) \/ ReadTranscript(c) \/ Retitle(c) \/ Status(c)

-----------------------------------------------------------------------------
(* The repository fails and the call returns the error at once.              *)
RepositoryFails(c) ==
  /\ \/ calls[c].pc \in {"load", "prepare", "reread", "rewrite", "archive", "unarchive",
                         "inspect", "gather", "transcript", "retitle"}
     \/ At(c, "find") /\ handle = None
  /\ Fault
  /\ Return(c)
  /\ UNCHANGED <<registry, disk, actors, acked, erased>>

-----------------------------------------------------------------------------
(* The actors.                                                               *)

Runs(a) == actors[a].turn /\ actors[a].state \in {"live", "closing"}

TurnSaves(a) ==
  /\ Runs(a)
  /\ disk' = Saved(actors[a].rec)
  /\ UNCHANGED <<registry, locks, actors, calls, history>>

TurnEnds(a) ==
  /\ Runs(a) /\ actors[a].state = "live"
  /\ actors' = [actors EXCEPT ![a].turn = FALSE]
  /\ \/ disk' = Saved(actors[a].rec) /\ UNCHANGED used
     \/ Fault /\ UNCHANGED disk
  /\ UNCHANGED <<registry, locks, calls, acked, erased>>

(* The turn of an actor that was told to close ends. *)
Closes(a) ==
  /\ Runs(a) /\ actors[a].state = "closing"
  /\ Stops(a, actors[a].closer)

(* The tools are shut down; only now the handle counts as terminated. *)
Terminates(a) ==
  /\ actors[a].state = "stopping"
  /\ actors' = [actors EXCEPT ![a].state = "gone"]
  /\ UNCHANGED <<registry, locks, disk, calls, history>>

-----------------------------------------------------------------------------

Load(c) == Look(c) \/ LookAgain(c) \/ LoadRecord(c) \/ Prepare(c) \/ Install(c)

Step(c) ==
  \/ AcquireMutation(c) \/ AcquireSession(c) \/ Check(c)
  \/ Load(c) \/ Request(c) \/ Rebind(c)
  \/ Find(c) \/ Quit(c) \/ Drop(c) \/ Archive(c) \/ Unarchive(c)
  \/ Delete(c) \/ List(c) \/ RepositoryFails(c)

Actor(a) == TurnSaves(a) \/ TurnEnds(a) \/ Closes(a) \/ Terminates(a)

Next ==
  \/ \E c \in Callers : Step(c) \/ \E op \in Ops : Begin(c, op)
  \/ \E a \in 1..Len(actors) : Actor(a)

Spec == Init /\ [][Next]_vars

(* The runtime polls every call; the locks are given in the order they were  *)
(* asked for; a turn that is told to close ends (CancelEnds of SessionActor) *)
(* and the tools shut down.                                                  *)
FairSpec ==
  /\ Spec
  /\ \A c \in Callers : WF_vars(Step(c))
  /\ WF_vars(\E a \in 1..Len(actors) : Closes(a) \/ Terminates(a))

-----------------------------------------------------------------------------
(* Properties.                                                               *)

Steps == {"idle", "mlock", "slock", "check", "look", "relook", "load", "prepare", "install",
          "request", "bind", "reread", "rewrite", "find", "quit", "await", "drop", "archive",
          "unarchive", "mark", "inspect", "erase", "unmark", "scan", "gather", "transcript",
          "retitle", "status"}

(* Every variable has its type. *)
TypeOK ==
  /\ handle \in 0..Len(actors) /\ deleting \in BOOLEAN
  /\ slock \in Callers \cup {Nobody} /\ mlock \in Callers \cup {Nobody}
  /\ disk \in [where : {"none", "active", "archived"}, rec : Record]
  /\ actors \in Seq([state : {"live", "closing", "stopping", "gone"}, turn : BOOLEAN,
                     rec : Record, closer : Callers \cup {Nobody}])
  /\ calls \in [Callers -> [op : OpNames \cup {"none"}, pc : Steps, id : 0..MaxCalls,
                            h : 0..Len(actors), rec : Record]]
  /\ acked \subseteq 1..MaxCalls /\ erased \in BOOLEAN
  /\ used \in [calls : 0..MaxCalls, faults : 0..MaxFaults]

Serving(a) == actors[a].state \in {"live", "closing"}

(* Loading a session that is loaded returns the existing actor: two actors   *)
(* never serve, and save, the same session.                                  *)
AtMostOneActor ==
  \A a, b \in 1..Len(actors) : Serving(a) /\ Serving(b) => a = b

(* What the repository holds is known to the actor that saves next, so that  *)
(* its saves lose nothing.                                                   *)
NothingToLose ==
  \A a \in 1..Len(actors) :
    Serving(a) /\ disk.where # "none" => disk.rec.notes \subseteq actors[a].rec.notes

(* An acknowledged prompt stays in the repository until the session is       *)
(* deleted, across unloads, archives and reloads.                            *)
AcknowledgedIsKept == erased \/ acked \subseteq disk.rec.notes

(* A deleted session does not come back: neither a load that was under way   *)
(* nor the last save of its actor writes it again.                           *)
DeletedStaysDeleted == erased => disk.where = "none"

(* One actor serves a session at a time, and it knows all that is stored.    *)
OneActorKnows == AtMostOneActor /\ NothingToLose

(* A session keeps what it acknowledged until it is deleted, and then for    *)
(* good nothing of it.                                                       *)
DeletionIsFinal == AcknowledgedIsKept /\ DeletedStaysDeleted

(* No turn runs on an archived session, although archive looks at the phase  *)
(* two awaits before it moves the directory.                                 *)
ArchivedIsQuiet == disk.where = "archived" => \A a \in 1..Len(actors) : ~Runs(a)

(* Loads are refused as being deleted only while a delete is under way.      *)
RefusedOnlyDuringDelete ==
  deleting => \E c \in Callers : calls[c].op = "delete" /\ ~At(c, "idle")

(* Every call returns: the locks are taken in one order and given back.      *)
CallsReturn == \A c \in Callers : ~At(c, "idle") ~> At(c, "idle")
=============================================================================
