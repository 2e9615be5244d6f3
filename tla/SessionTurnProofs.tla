--------------------------- MODULE SessionTurnProofs ---------------------------
(* GraceHolds: the grace period of an ephemeral session against turns, kept   *)
(* sessions, queued expiries, failed writes and restarts. Then: what the      *)
(* actor believes of its tasks is true (TurnTracked), no turn waits for a     *)
(* permission nobody can give (NoStrandedAsk), and a session unloaded with    *)
(* success is saved and silent (UnloadedIsSaved). Last, what becomes of a     *)
(* prompt: the contexts stay closed and in order (ContextIsSound), nobody is  *)
(* overtaken (NoOvertaking), what was acknowledged is durable                 *)
(* (AcknowledgedIsDurable) and no copy that is behind ever comes back         *)
(* (ContextNeverReverts).                                                     *)
EXTENDS SessionActorProofs

------------------------------------------------------------------------------

SameGrace(r, s) == r.eph = s.eph /\ r.deadline = s.deadline
HasExpired(s) == \E i \in 1..Len(s) : s[i].type = "Expired"

(* Only ephemeral sessions have deadlines, in memory and on disk.             *)
DeadlinesAreEphemeral ==
  (rec.deadline # None => rec.eph) /\ (disk.deadline # None => disk.eph)

(* The timer runs to the deadline of the record, or not at all.               *)
TimerAgrees == timer = None \/ timer = rec.deadline

(* What was kept is ephemeral nowhere: neither for the actor nor for the one  *)
(* a restart would spawn.                                                     *)
KeptEverywhere == kept => ~rec.eph /\ ~disk.eph

DeletedIsStopped == ~exists => ~alive

GraceInv ==
  TypeInv /\ GraceHolds /\ DeadlinesAreEphemeral /\ TimerAgrees /\ KeptEverywhere /\ DeletedIsStopped

(* Whatever is taken but an expiry leaves the expiry in the queue.            *)
LEMMA TakeKeepsExpired ==
  ASSUME TypeOK, NEW t, Receives(t), t # "Expired", HasExpired(events)
  PROVE  HasExpired(Tail(events))
BY TakeKeeps DEF HasExpired

-----------------------------------------------------------------------------
LEMMA GraceInit == Init => GraceInv
<1> SUFFICES ASSUME Init PROVE GraceInv
  OBVIOUS
<1>1. rec.deadline = None /\ disk = rec /\ timer = None /\ ~kept /\ exists /\ active = None
  BY DEF Init
<1> QED BY <1>1, InitType
        DEF GraceInv, GraceHolds, NoDeadlineUnderTurn, DeadlineHasTimer, KeptIsNeverDeleted,
            DeadlinesAreEphemeral, TimerAgrees, KeptEverywhere, DeletedIsStopped

(* What leaves the grace period alone, and writes no other to the disk.       *)
LEMMA CalmGrace ==
  ASSUME GraceInv, TypeInv', SameGrace(rec', rec),
         SameGrace(disk', disk) \/ SameGrace(disk', rec),
         UNCHANGED <<alive, timer, kept, exists>>, active' = active \/ active' = None,
         HasExpired(events) => HasExpired(events')
  PROVE  GraceInv'
BY DEF GraceInv, GraceHolds, NoDeadlineUnderTurn, DeadlineHasTimer, KeptIsNeverDeleted,
       DeadlinesAreEphemeral, TimerAgrees, KeptEverywhere, DeletedIsStopped, SameGrace, HasExpired

(* A prompt ends the grace period before anything else.                       *)
LEMMA WakeGrace ==
  ASSUME GraceInv, TypeInv', NEW kind,
         rec' = Awake \/ rec' = WithPrompt(kind), Wake,
         SameGrace(disk', disk) \/ SameGrace(disk', rec'),
         UNCHANGED <<alive, kept, exists>>
  PROVE  GraceInv'
<1>1. rec \in Record
  BY DEF GraceInv, TypeInv, TypeOK, ActorType
<1>2. Awake \in Record /\ Awake.eph = rec.eph /\ Awake.deadline = None
  BY <1>1 DEF GraceInv, DeadlinesAreEphemeral, Awake, Graced, Record, None
<1>3. WithPrompt(kind).eph = Awake.eph /\ WithPrompt(kind).deadline = Awake.deadline
  BY <1>2 DEF WithPrompt, Record
<1>4. rec'.eph = rec.eph /\ rec'.deadline = None
  BY <1>2, <1>3
<1>5. timer' = None
  BY DEF GraceInv, DeadlinesAreEphemeral, TimerAgrees, Wake, Graced
<1> QED BY <1>4, <1>5
        DEF GraceInv, GraceHolds, NoDeadlineUnderTurn, DeadlineHasTimer, KeptIsNeverDeleted,
            DeadlinesAreEphemeral, TimerAgrees, KeptEverywhere, DeletedIsStopped, SameGrace

(* A session that stops has no timer, and is only deleted if nobody kept it.  *)
LEMMA StopGrace ==
  ASSUME GraceInv, TypeInv', Stop, kept' = kept, kept => exists',
         rec'.eph = rec.eph, rec'.deadline # None => rec.eph,
         SameGrace(disk', disk) \/ SameGrace(disk', rec')
  PROVE  GraceInv'
BY DEF Stop, GraceInv, GraceHolds, NoDeadlineUnderTurn, DeadlineHasTimer, KeptIsNeverDeleted,
       DeadlinesAreEphemeral, TimerAgrees, KeptEverywhere, DeletedIsStopped, SameGrace

(* What a failed save leaves on the disk has the grace period of what was     *)
(* there before.                                                              *)
LEMMA SaveFailsGrace ==
  ASSUME NEW from \in Record, NEW r, SaveFails(from, r)
  PROVE  SameGrace(disk', from)
BY DEF SaveFails, SameGrace, Record

LEMMA SettledGrace ==
  ASSUME TypeOK, NEW o
  PROVE  Settled(o).eph = rec.eph /\ (Settled(o).deadline # None /\ ~rec.eph => rec.deadline # None)
         /\ (~rec.eph => Settled(o) = rec) /\ (rec.eph => Settled(o).deadline = now + 1)
<1>1. rec \in Record
  BY DEF TypeOK, ActorType
<1> QED BY <1>1 DEF Settled, Record

-----------------------------------------------------------------------------
LEMMA GraceStep ==
  ASSUME GraceInv, [Next]_vars
  PROVE  GraceInv'
<1> USE DEF vars, actorVars, turnVars, compVars, storeVars, histVars, turnFrame
<1>a. TypeInv /\ TypeInv' /\ TypeOK
  BY TypeStep DEF GraceInv, TypeInv
<1>r. rec \in Record /\ disk \in Record /\ rec' \in Record /\ disk' \in Record
  BY <1>a DEF TypeInv, TypeOK, ActorType, StoreType
<1>1. CASE Prompt
  <2>1. /\ \E kind : rec' = Awake \/ rec' = WithPrompt(kind)
        /\ Wake /\ UNCHANGED <<alive, kept, exists>>
    BY <1>1
       DEF Prompt, PromptWakeFails, PromptSaveFails, PromptRecordFails, PromptStarts, PromptSteers,
           PromptSteerFails
  <2>2. Awake \in Record /\ AwakeDisk \in Record
    BY <1>a, AwakeType
  <2>3. \A kind : SameGrace(WithPrompt(kind), Awake)
    BY <2>2 DEF WithPrompt, SameGrace, Record
  <2>4. SameGrace(AwakeDisk, disk) \/ SameGrace(AwakeDisk, Awake)
    BY DEF AwakeDisk, SameGrace
  <2>5. SameGrace(rec', Awake)
    BY <2>1, <2>3 DEF SameGrace
  <2>6. SameGrace(disk', disk) \/ SameGrace(disk', AwakeDisk) \/ SameGrace(disk', rec')
    BY <1>1, <1>r, <2>2, SaveFailsGrace
       DEF Prompt, PromptWakeFails, PromptSaveFails, PromptRecordFails, PromptStarts, PromptSteers,
           PromptSteerFails, SameGrace
  <2>7. SameGrace(disk', disk) \/ SameGrace(disk', rec')
    BY <2>4, <2>5, <2>6 DEF SameGrace
  <2> QED BY <1>a, <2>1, <2>7, WakeGrace
<1>2. CASE Cancel \/ \E ask \in 1..MaxAsks, allow \in BOOLEAN : RespondPermission(ask, allow)
  BY <1>2, <1>a, CalmGrace DEF Cancel, RespondPermission, SameGrace
<1>3. ASSUME NEW c \in Callers, UnloadRefused(c) \/ UnloadDeferred(c)
      PROVE  GraceInv'
  BY <1>3, <1>a, CalmGrace DEF UnloadRefused, UnloadDeferred, SameGrace
<1>4. ASSUME NEW c \in Callers, UnloadNow(c)
      PROVE  GraceInv'
  <2>1. /\ Stop /\ UNCHANGED <<rec, kept, exists>>
        /\ SameGrace(disk', disk) \/ SameGrace(disk', rec')
    BY <1>4, <1>r, SaveFailsGrace DEF UnloadNow, SameGrace
  <2> QED BY <1>a, <2>1, StopGrace
          DEF GraceInv, GraceHolds, KeptIsNeverDeleted, DeadlinesAreEphemeral
<1>5. CASE Compact
  BY <1>5, <1>a, CalmGrace DEF Compact, SameGrace
<1>6. CASE Keep
  <2>1. rec'.deadline = None /\ ~rec'.eph /\ disk' = rec' /\ timer' = None /\ UNCHANGED <<alive, exists>>
        /\ alive
    BY <1>6, <1>r DEF Keep, Record
  <2> QED BY <1>a, <2>1
          DEF GraceInv, GraceHolds, NoDeadlineUnderTurn, DeadlineHasTimer, KeptIsNeverDeleted,
              DeadlinesAreEphemeral, TimerAgrees, KeptEverywhere, DeletedIsStopped
<1>7. CASE KeepOrCompactFails
  BY <1>7, <1>a, <1>r, SaveFailsGrace, CalmGrace DEF KeepOrCompactFails, SameGrace
<1>8. CASE HandlePersist
  <2>1. /\ SameGrace(rec', rec) /\ UNCHANGED <<alive, timer, kept, exists, active>>
        /\ SameGrace(disk', disk) \/ SameGrace(disk', rec)
    BY <1>8, <1>r, SaveFailsGrace DEF HandlePersist, SameGrace, Record
  <2>2. HasExpired(events) => HasExpired(events')
    BY <1>8, <1>a, TakeKeepsExpired DEF HandlePersist
  <2> QED BY <1>a, <2>1, <2>2, CalmGrace
<1>9. CASE HandleAsk
  <2>1. UNCHANGED <<rec, disk, alive, timer, kept, exists, active>>
    BY <1>9 DEF HandleAsk
  <2>2. HasExpired(events) => HasExpired(events')
    BY <1>9, <1>a, TakeKeepsExpired DEF HandleAsk
  <2> QED BY <1>a, <2>1, <2>2, CalmGrace DEF SameGrace
<1>10. CASE HandleFinished
  <2> DEFINE o == Head(events).outcome
  <2>1. /\ rec' = Settled(o) /\ Arm /\ active' = None /\ UNCHANGED <<alive, kept, exists>>
        /\ SameGrace(disk', disk) \/ SameGrace(disk', rec')
    BY <1>10, <1>r, SaveFailsGrace DEF HandleFinished, SameGrace
  <2>2. HasExpired(events) => HasExpired(events')
    BY <1>10, <1>a, TakeKeepsExpired DEF HandleFinished
  <2>3. CASE rec.eph
    <3>1. rec'.eph /\ timer' = rec'.deadline
      BY <1>a, <2>1, <2>3, SettledGrace DEF Arm
    <3> QED BY <1>a, <2>1, <2>3, <3>1
            DEF GraceInv, GraceHolds, NoDeadlineUnderTurn, DeadlineHasTimer, KeptIsNeverDeleted,
                DeadlinesAreEphemeral, TimerAgrees, KeptEverywhere, DeletedIsStopped, SameGrace
  <2>4. CASE ~rec.eph
    <3>1. rec' = rec /\ timer' = timer
      BY <1>a, <2>1, <2>4, SettledGrace DEF Arm
    <3> QED BY <1>a, <2>1, <2>2, <3>1, CalmGrace DEF SameGrace
  <2> QED BY <2>3, <2>4
<1>11. CASE HandleFinishedClosing
  <2> DEFINE o == Head(events).outcome
  <2>1. /\ rec' = Settled(o) /\ Stop /\ UNCHANGED <<kept, exists>>
        /\ SameGrace(disk', disk) \/ SameGrace(disk', rec')
    BY <1>11, <1>r, SaveFailsGrace DEF HandleFinishedClosing, SameGrace
  <2>2. rec'.eph = rec.eph /\ (rec'.deadline # None => rec.eph)
    BY <1>a, <2>1, SettledGrace DEF GraceInv, DeadlinesAreEphemeral
  <2> QED BY <1>a, <2>1, <2>2, StopGrace DEF GraceInv, GraceHolds, KeptIsNeverDeleted
<1>12. CASE HandleCompacted
  <2>1. /\ SameGrace(rec', rec) /\ UNCHANGED <<alive, timer, kept, exists, active>>
        /\ SameGrace(disk', disk) \/ SameGrace(disk', rec)
    BY <1>12, <1>r, SaveFailsGrace DEF HandleCompacted, SameGrace, Record
  <2>2. HasExpired(events) => HasExpired(events')
    BY <1>12, <1>a, TakeKeepsExpired DEF HandleCompacted
  <2> QED BY <1>a, <2>1, <2>2, CalmGrace
<1>13. CASE HandleCompactedClosing
  <2>1. /\ Stop /\ UNCHANGED <<rec, kept, exists>>
        /\ SameGrace(disk', disk) \/ SameGrace(disk', rec')
    BY <1>13, <1>r, SaveFailsGrace DEF HandleCompactedClosing, SameGrace
  <2> QED BY <1>a, <2>1, StopGrace
          DEF GraceInv, GraceHolds, KeptIsNeverDeleted, DeadlinesAreEphemeral
<1>14. CASE HandleExpired
  <2>1. timer' = rec.deadline /\ UNCHANGED <<alive, active, rec, disk, kept, exists>>
    BY <1>14 DEF HandleExpired
  <2> QED BY <1>a, <2>1
          DEF GraceInv, GraceHolds, NoDeadlineUnderTurn, DeadlineHasTimer, KeptIsNeverDeleted,
              DeadlinesAreEphemeral, TimerAgrees, KeptEverywhere, DeletedIsStopped
<1>15. CASE HandleExpiredDeletes
  <2>1. Stop /\ rec.eph /\ UNCHANGED <<rec, disk, kept>>
    BY <1>15 DEF HandleExpiredDeletes, Due
  <2> QED BY <1>a, <2>1, StopGrace
          DEF GraceInv, KeptEverywhere, DeadlinesAreEphemeral, SameGrace
<1>16. CASE TurnStep
  <2>1. UNCHANGED <<rec, disk, alive, timer, kept, exists, active>>
    BY <1>16
       DEF TurnStep, LoopCancelled, BeginStep, MaybeCompact, CompactInTurn, ReplyWithoutTools,
           ReplyWithTools, RetryModel, RecoverModel, FailModel, Backoff, AskPermission, TakeDecision,
           EndBatch, Saved, SaveLost, DropTurn
  <2>2. events' = events \/ \E e \in Event : Send(e)
    BY <1>a, <1>16, TurnStepSends DEF Sends
  <2>3. HasExpired(events) => HasExpired(events')
    BY <1>a, <2>2, SendKeeps DEF HasExpired
  <2> QED BY <1>a, <2>1, <2>3, CalmGrace DEF SameGrace
<1>17. CASE CompactionTask
  <2>1. UNCHANGED <<rec, disk, alive, timer, kept, exists, active>>
    BY <1>17 DEF CompactionTask
  <2>2. \E e \in Event : Send(e)
    <3>1. PICK ok \in BOOLEAN :
            Send([type |-> "Compacted", id |-> ctask, ctx |-> Folded(cctx), ok |-> ok])
      BY <1>17 DEF CompactionTask
    <3>2. [type |-> "Compacted", id |-> ctask, ctx |-> Folded(cctx), ok |-> ok] \in Event
      BY <1>a, FoldedType DEF Event, TypeOK, CompactionType
    <3> QED BY <3>1, <3>2
  <2>3. HasExpired(events) => HasExpired(events')
    BY <1>a, <2>2, SendKeeps DEF HasExpired
  <2> QED BY <1>a, <2>1, <2>3, CalmGrace DEF SameGrace
<1>18. CASE Tick \/ UNCHANGED vars
  BY <1>18, <1>a, CalmGrace DEF Tick, SameGrace
<1>19. CASE TimerFires
  <2>1. /\ timer' = None /\ Send([type |-> "Expired"])
        /\ UNCHANGED <<alive, active, rec, disk, kept, exists>>
    BY <1>19 DEF TimerFires
  <2>2. [type |-> "Expired"] \in Event
    BY DEF Event
  <2>3. alive => HasExpired(events')
    <3> SUFFICES ASSUME alive PROVE HasExpired(events')
      OBVIOUS
    <3>1. Len(events') = Len(events) + 1 /\ events'[Len(events) + 1].type = "Expired"
      BY <1>a, <2>1, <2>2, SendKeeps
    <3>2. Len(events) \in Nat
      BY <1>a, LenProperties DEF TypeOK, ChannelType
    <3> QED BY <3>1, <3>2 DEF HasExpired
  <2> QED BY <1>a, <2>1, <2>3
          DEF GraceInv, GraceHolds, NoDeadlineUnderTurn, DeadlineHasTimer, KeptIsNeverDeleted,
              DeadlinesAreEphemeral, TimerAgrees, KeptEverywhere, DeletedIsStopped, HasExpired
<1>20. CASE Spawn
  <2>1. /\ rec' = disk /\ disk' = disk /\ timer' = disk.deadline /\ active' = None
        /\ exists /\ UNCHANGED <<kept, exists>>
    BY <1>20 DEF Spawn
  <2> QED BY <1>a, <2>1
          DEF GraceInv, GraceHolds, NoDeadlineUnderTurn, DeadlineHasTimer, KeptIsNeverDeleted,
              DeadlinesAreEphemeral, TimerAgrees, KeptEverywhere, DeletedIsStopped
<1> QED
  BY <1>1, <1>2, <1>3, <1>4, <1>5, <1>6, <1>7, <1>8, <1>9, <1>10, <1>11, <1>12, <1>13, <1>14,
     <1>15, <1>16, <1>17, <1>18, <1>19, <1>20
     DEF Next, HandleEvent, Unload

(* A turn never runs into its session's grace period, a deadline never loses  *)
(* its timer, and what a client kept is never deleted: whatever requests,     *)
(* expiries, failed writes and restarts overlap.                              *)
THEOREM GraceCorrect == Spec => []GraceHolds
<1>1. GraceInv /\ [Next]_vars => GraceInv'
  BY GraceStep
<1>2. GraceInv => GraceHolds
  BY DEF GraceInv
<1> QED BY GraceInit, <1>1, <1>2, PTL DEF Spec

(* Whatever is deleted is ephemeral, past its deadline and without a turn:    *)
(* no step but the expiry of such a session removes its files.                *)
THEOREM DeletionCorrect == Spec => DeletesOnlyDue
<1>1. ASSUME GraceInv, Next, exists, ~exists'
      PROVE  rec.eph /\ active = None /\ rec.deadline \in 1..now
  <2> USE DEF storeVars, turnFrame
  <2>1. HandleExpiredDeletes
    BY <1>1
       DEF Next, Prompt, PromptWakeFails, PromptSaveFails, PromptRecordFails, PromptStarts,
           PromptSteers, PromptSteerFails, Cancel, RespondPermission, Unload, UnloadRefused,
           UnloadDeferred, UnloadNow, Compact, Keep, KeepOrCompactFails, HandleEvent, HandlePersist,
           HandleAsk, HandleFinished, HandleFinishedClosing, HandleCompacted,
           HandleCompactedClosing, HandleExpired, TurnStep, LoopCancelled, BeginStep, MaybeCompact,
           CompactInTurn, ReplyWithoutTools, ReplyWithTools, RetryModel, RecoverModel, FailModel,
           Backoff, AskPermission, TakeDecision, EndBatch, Saved, SaveLost, DropTurn,
           CompactionTask, Tick, TimerFires, Spawn
  <2>2. alive /\ rec.deadline # None /\ rec.eph /\ rec.deadline <= now
    BY <2>1 DEF HandleExpiredDeletes, Receives, Due
  <2>3. rec.deadline \in Nat /\ now \in Nat
    BY <1>1 DEF GraceInv, TypeInv, TypeOK, ActorType, HistoryType, Record
  <2> QED BY <1>1, <2>2, <2>3, SMTT(30) DEF GraceInv, GraceHolds, NoDeadlineUnderTurn, None
<1>2. GraceInv /\ [Next]_vars
        => [exists /\ ~exists' => rec.eph /\ active = None /\ rec.deadline \in 1..now]_vars
  BY <1>1
<1>3. GraceInv /\ [Next]_vars => GraceInv'
  BY GraceStep
<1> QED BY GraceInit, <1>2, <1>3, PTL DEF Spec, DeletesOnlyDue

------------------------------------------------------------------------------

(* The places of the events of one type in the queue.                         *)
At(s, type) == {i \in 1..Len(s) : s[i].type = type}
AtMostOne(S) == \A i, j \in S : i = j

(* A stopped actor runs nothing and hears of nothing.                         *)
StoppedIsEmpty == ~alive => active = None /\ comp = None /\ events = <<>>

(* The end of the active turn is in the queue exactly when its task is past   *)
(* it, and no other turn's is.                                                *)
TurnAgrees ==
  /\ active = None => ~Working
  /\ active # None => active = used.turns
  /\ At(events, "Finished") # {} <=> active # None /\ ~Working
  /\ \A i \in At(events, "Finished") : events[i].turn = active
  /\ AtMostOne(At(events, "Finished"))

(* The same of the compaction and its task.                                   *)
CompactionAgrees ==
  /\ comp = None => ~alive \/ ctask = None
  /\ comp # None => ctask \in {None, comp}
  /\ At(events, "Compacted") # {} <=> comp # None /\ ctask # comp
  /\ \A i \in At(events, "Compacted") : events[i].id = comp
  /\ AtMostOne(At(events, "Compacted"))

TurnInv == GraceInv /\ QuietInv /\ StoppedIsEmpty /\ TurnAgrees /\ CompactionAgrees

-----------------------------------------------------------------------------
(* Sending and taking, by the type of the event.                              *)
LEMMA SendAt ==
  ASSUME TypeOK, NEW u, NEW e, Sends(u, e), NEW t, t # u
  PROVE  /\ At(events', t) = At(events, t)
         /\ \A i \in At(events, t) : events'[i] = events[i]
<1>1. Len(events) \in Nat /\ e \in Event /\ e.type = u /\ Send(e)
  BY LenProperties DEF TypeOK, ChannelType, Sends
<1>2. CASE alive
  BY <1>1, <1>2, SendKeeps DEF At
<1>3. CASE ~alive
  BY <1>1, <1>3, SendKeeps DEF At
<1> QED BY <1>2, <1>3

LEMMA SendOwn ==
  ASSUME TypeOK, NEW t, NEW e, Sends(t, e), alive, At(events, t) = {}
  PROVE  At(events', t) = {Len(events) + 1} /\ events'[Len(events) + 1] = e
<1>1. Len(events) \in Nat /\ e \in Event /\ e.type = t /\ Send(e)
  BY LenProperties DEF TypeOK, ChannelType, Sends
<1>2. /\ Len(events') = Len(events) + 1 /\ events'[Len(events) + 1] = e
      /\ \A i \in 1..Len(events) : events'[i] = events[i]
  BY <1>1, SendKeeps
<1> QED BY <1>1, <1>2 DEF At

LEMMA TakeAt ==
  ASSUME TypeOK, NEW u, Receives(u), NEW t, t # u
  PROVE  /\ \A i \in At(Tail(events), t) : i + 1 \in At(events, t) /\ Tail(events)[i] = events[i + 1]
         /\ \A i \in At(events, t) : i - 1 \in At(Tail(events), t) /\ Tail(events)[i - 1] = events[i]
BY TakeKeeps DEF At

LEMMA TakeOwn ==
  ASSUME TypeOK, NEW t, Receives(t), AtMostOne(At(events, t))
  PROVE  At(Tail(events), t) = {} /\ 1 \in At(events, t)
<1>1. Len(events) \in Nat /\ events # <<>>
  BY LenProperties DEF TypeOK, ChannelType, Receives
<1>2. 1 \in At(events, t)
  <2>1. Len(events) # 0
    BY <1>1, EmptySeq DEF TypeOK, ChannelType
  <2> QED BY <1>1, <2>1, TakeKeeps DEF At
<1>3. ASSUME NEW i \in At(Tail(events), t) PROVE FALSE
  <2>1. i + 1 \in At(events, t) /\ i \in Nat /\ i >= 1
    BY <1>1, TakeKeeps DEF At
  <2> QED BY <1>2, <2>1 DEF AtMostOne
<1> QED BY <1>2, <1>3

(* What takes an event of another type keeps what the turn and the compaction *)
(* agree on.                                                                  *)
LEMMA TakeKeepsTurn ==
  ASSUME TypeOK, NEW u, Receives(u), u # "Finished", TurnAgrees, events' = Tail(events),
         UNCHANGED <<active, pc>>, used'.turns = used.turns
  PROVE  TurnAgrees'
<1>1. /\ \A i \in At(events', "Finished") : i + 1 \in At(events, "Finished") /\ events'[i] = events[i + 1]
      /\ \A i \in At(events, "Finished") : i - 1 \in At(events', "Finished")
  BY TakeAt, ZenonT(40)
<1>2. At(events', "Finished") \subseteq Int
  BY DEF At
<1>3. At(events', "Finished") # {} <=> At(events, "Finished") # {}
  BY <1>1
<1>4. \A i \in At(events', "Finished") : events'[i].turn = active
  BY <1>1 DEF TurnAgrees
<1>5. AtMostOne(At(events', "Finished"))
  <2> SUFFICES ASSUME NEW i \in At(events', "Finished"), NEW j \in At(events', "Finished")
               PROVE  i = j
    BY DEF AtMostOne
  <2>1. i + 1 = j + 1
    BY <1>1 DEF TurnAgrees, AtMostOne
  <2> QED BY <1>2, <2>1
<1> QED BY <1>3, <1>4, <1>5 DEF TurnAgrees, Working

LEMMA TakeKeepsCompaction ==
  ASSUME TypeOK, NEW u, Receives(u), u # "Compacted", CompactionAgrees, events' = Tail(events),
         UNCHANGED <<alive, comp, ctask>>
  PROVE  CompactionAgrees'
<1>1. /\ \A i \in At(events', "Compacted") : i + 1 \in At(events, "Compacted") /\ events'[i] = events[i + 1]
      /\ \A i \in At(events, "Compacted") : i - 1 \in At(events', "Compacted")
  BY TakeAt
<1>2. At(events', "Compacted") \subseteq Int
  BY DEF At
<1>3. At(events', "Compacted") # {} <=> At(events, "Compacted") # {}
  BY <1>1
<1>4. \A i \in At(events', "Compacted") : events'[i].id = comp
  BY <1>1 DEF CompactionAgrees
<1>5. AtMostOne(At(events', "Compacted"))
  <2> SUFFICES ASSUME NEW i \in At(events', "Compacted"), NEW j \in At(events', "Compacted")
               PROVE  i = j
    BY DEF AtMostOne
  <2>1. i + 1 = j + 1
    BY <1>1 DEF CompactionAgrees, AtMostOne
  <2> QED BY <1>2, <2>1
<1> QED BY <1>3, <1>4, <1>5 DEF CompactionAgrees

(* An actor that stops while no turn works agrees with everything.            *)
LEMMA StopAgrees ==
  ASSUME Stop, ~Working, UNCHANGED pc
  PROVE  StoppedIsEmpty' /\ TurnAgrees' /\ CompactionAgrees'
<1>1. At(events', "Finished") = {} /\ At(events', "Compacted") = {}
  BY DEF Stop, At
<1> QED BY <1>1 DEF Stop, StoppedIsEmpty, TurnAgrees, CompactionAgrees, AtMostOne, Working

(* So does one where nothing of this changes.                                 *)
LEMMA CalmTurn ==
  ASSUME TurnInv, GraceInv', QuietInv', UNCHANGED <<alive, active, comp, pc, ctask, events>>,
         used'.turns = used.turns
  PROVE  TurnInv'
BY DEF TurnInv, StoppedIsEmpty, TurnAgrees, CompactionAgrees, AtMostOne, At, Working

LEMMA CountsNoTurn ==
  ASSUME NEW u \in Counters
  PROVE  /\ [u EXCEPT !.rounds = @ + 1].turns = u.turns
         /\ [u EXCEPT !.asks = @ + 1].turns = u.turns
         /\ [u EXCEPT !.comps = @ + 1].turns = u.turns
         /\ [u EXCEPT !.faults = @ + 1].turns = u.turns
         /\ [u EXCEPT !.spawns = @ + 1].turns = u.turns
BY DEF Counters

LEMMA TurnInit == Init => TurnInv
<1> SUFFICES ASSUME Init PROVE TurnInv
  OBVIOUS
<1>1. At(events, "Finished") = {} /\ At(events, "Compacted") = {}
  BY DEF Init, At
<1> QED BY <1>1, GraceInit, QuietInit
        DEF Init, TurnInv, StoppedIsEmpty, TurnAgrees, CompactionAgrees, AtMostOne, Working

-----------------------------------------------------------------------------
LEMMA TurnStepAgrees ==
  ASSUME TurnInv, TurnStep
  PROVE  StoppedIsEmpty' /\ TurnAgrees' /\ CompactionAgrees'
<1>a. TypeInv /\ TypeOK /\ used \in Counters
  BY DEF TurnInv, QuietInv, TypeInv, TypeOK, HistoryType
<1>1. UNCHANGED <<alive, active, comp, ctask>> /\ used'.turns = used.turns
  BY <1>a, CountsNoTurn
     DEF TurnStep, LoopCancelled, BeginStep, MaybeCompact, CompactInTurn, ReplyWithoutTools,
         ReplyWithTools, RetryModel, RecoverModel, FailModel, Backoff, AskPermission, TakeDecision,
         EndBatch, Saved, SaveLost, DropTurn, turnFrame, compVars, Round
<1>2. Working => alive /\ active # None
  BY DEF TurnInv, StoppedIsEmpty, TurnAgrees
<1>3. CASE Working /\ pc' = "done" /\ \E e : Sends("Finished", e) /\ e.turn = used.turns
  <2>1. PICK e : Sends("Finished", e) /\ e.turn = used.turns
    BY <1>3
  <2>2. At(events, "Finished") = {}
    BY <1>3 DEF TurnInv, TurnAgrees
  <2>3. At(events', "Finished") = {Len(events) + 1} /\ events'[Len(events) + 1].turn = used.turns
    BY <1>a, <1>2, <1>3, <2>1, <2>2, SendOwn
  <2>4. /\ At(events', "Compacted") = At(events, "Compacted")
        /\ \A i \in At(events, "Compacted") : events'[i] = events[i]
    BY <1>a, <2>1, SendAt
  <2> QED BY <1>1, <1>2, <1>3, <2>3, <2>4
          DEF TurnInv, StoppedIsEmpty, TurnAgrees, CompactionAgrees, AtMostOne, Working
<1>4. ASSUME NEW u \in {"Persist", "Ask"}, Working, Working', \E e : Sends(u, e)
      PROVE  StoppedIsEmpty' /\ TurnAgrees' /\ CompactionAgrees'
  <2>1. /\ At(events', "Compacted") = At(events, "Compacted")
        /\ \A i \in At(events, "Compacted") : events'[i] = events[i]
        /\ At(events', "Finished") = At(events, "Finished")
        /\ \A i \in At(events, "Finished") : events'[i] = events[i]
    BY <1>4, <1>a, SendAt
  <2> QED BY <1>1, <1>2, <1>4, <2>1
          DEF TurnInv, StoppedIsEmpty, TurnAgrees, CompactionAgrees, AtMostOne
<1>5. CASE events' = events /\ (Working <=> Working')
  BY <1>1, <1>5 DEF TurnInv, StoppedIsEmpty, TurnAgrees, CompactionAgrees, AtMostOne, At
<1> QED
  BY <1>a, <1>3, <1>4, <1>5, TurnStepSends DEF Working

LEMMA TurnInvStep ==
  ASSUME TurnInv, [Next]_vars
  PROVE  TurnInv'
<1> USE DEF vars, actorVars, turnVars, compVars, storeVars, histVars, turnFrame
<1>a. /\ TypeInv /\ TypeOK /\ used \in Counters /\ GraceInv' /\ QuietInv' /\ IdleIsQuiet
      /\ StoppedIsEmpty /\ TurnAgrees /\ CompactionAgrees
  BY GraceStep, QuietStep DEF TurnInv, QuietInv, TypeInv, TypeOK, HistoryType
<1>f. Fault => used'.turns = used.turns
  BY <1>a, CountsNoTurn DEF Fault
<1>1. ASSUME NEW kind \in Kinds, PromptStarts(kind)
      PROVE  TurnInv'
  <2>1. /\ active = None /\ comp = None /\ alive
        /\ used'.turns = used.turns + 1 /\ active' = used.turns + 1 /\ pc' = "loop"
        /\ UNCHANGED <<alive, comp, ctask, events>>
    BY <1>1, <1>a DEF PromptStarts, Admits, Counters
  <2>2. active' # None
    BY <1>a, <2>1, CountPositive
  <2>3. At(events', "Finished") = {}
    BY <1>a, <2>1 DEF TurnAgrees
  <2> QED BY <1>a, <2>1, <2>2, <2>3
          DEF TurnInv, StoppedIsEmpty, TurnAgrees, CompactionAgrees, AtMostOne, Working
<1>2. CASE Prompt /\ ~\E kind \in Kinds : PromptStarts(kind)
  <2>1. UNCHANGED <<alive, active, comp, pc, ctask, events>> /\ used'.turns = used.turns
    BY <1>2, <1>f
       DEF Prompt, PromptWakeFails, PromptSaveFails, PromptRecordFails, PromptSteers,
           PromptSteerFails, SaveFails
  <2> QED BY <1>a, <2>1, CalmTurn
<1>3. CASE Cancel \/ \E ask \in 1..MaxAsks, allow \in BOOLEAN : RespondPermission(ask, allow)
  BY <1>3, <1>a, CalmTurn DEF Cancel, RespondPermission
<1>4. ASSUME NEW c \in Callers, UnloadRefused(c) \/ UnloadDeferred(c)
      PROVE  TurnInv'
  BY <1>4, <1>a, CalmTurn DEF UnloadRefused, UnloadDeferred
<1>5. ASSUME NEW c \in Callers, UnloadNow(c)
      PROVE  TurnInv'
  <2>1. Stop /\ active = None /\ UNCHANGED pc
    BY <1>5 DEF UnloadNow, Busy
  <2>2. ~Working
    BY <1>a, <2>1 DEF TurnAgrees
  <2> QED BY <1>a, <2>1, <2>2, StopAgrees DEF TurnInv
<1>6. CASE Compact
  <2>1. /\ alive /\ active = None /\ comp = None /\ comp' = used.comps + 1 /\ ctask' = comp'
        /\ used'.turns = used.turns
        /\ UNCHANGED <<alive, active, pc, events>>
    BY <1>6, <1>a, CountsNoTurn DEF Compact, IdleIsQuiet, Counters
  <2>2. comp' # None
    BY <1>a, <2>1, CountPositive
  <2>3. At(events', "Compacted") = {} /\ At(events', "Finished") = {}
    BY <1>a, <2>1 DEF CompactionAgrees, TurnAgrees
  <2> QED BY <1>a, <2>1, <2>2, <2>3
          DEF TurnInv, StoppedIsEmpty, TurnAgrees, CompactionAgrees, AtMostOne, Working
<1>7. CASE Keep \/ KeepOrCompactFails
  BY <1>7, <1>a, <1>f, CalmTurn DEF Keep, KeepOrCompactFails, SaveFails
<1>8. ASSUME NEW u \in {"Persist", "Ask", "Expired"}, Receives(u), events' = Tail(events),
             UNCHANGED <<alive, active, comp, pc, ctask>>, used'.turns = used.turns
      PROVE  TurnInv'
  <2>1. TurnAgrees' /\ CompactionAgrees'
    BY <1>8, <1>a, TakeKeepsTurn, TakeKeepsCompaction
  <2> QED BY <1>8, <1>a, <2>1 DEF TurnInv, StoppedIsEmpty, Receives
<1>9. CASE HandlePersist \/ HandleAsk \/ HandleExpired
  BY <1>8, <1>9, <1>f DEF HandlePersist, HandleAsk, HandleExpired, SaveFails
<1>10. CASE HandleFinished
  <2>1. /\ Receives("Finished") /\ alive /\ active' = None /\ events' = Tail(events) /\ used'.turns = used.turns
        /\ active # None /\ UNCHANGED <<alive, comp, pc, ctask>>
    BY <1>10, <1>f DEF HandleFinished, Receives, SaveFails
  <2>2. At(events', "Finished") = {} /\ At(events, "Finished") # {}
    BY <1>a, <2>1, TakeOwn DEF TurnAgrees
  <2>3. ~Working
    BY <1>a, <2>2 DEF TurnAgrees
  <2>4. CompactionAgrees'
    BY <1>a, <2>1, TakeKeepsCompaction
  <2> QED BY <1>a, <2>1, <2>2, <2>3, <2>4 DEF TurnInv, StoppedIsEmpty, TurnAgrees, AtMostOne, Working
<1>11. CASE HandleFinishedClosing
  <2>1. Receives("Finished") /\ Stop /\ UNCHANGED pc
    BY <1>11 DEF HandleFinishedClosing
  <2>2. At(events, "Finished") # {}
    BY <1>a, <2>1, TakeOwn DEF TurnAgrees
  <2>3. ~Working
    BY <1>a, <2>2 DEF TurnAgrees
  <2> QED BY <1>a, <2>1, <2>3, StopAgrees DEF TurnInv
<1>12. CASE HandleCompacted
  <2>1. /\ Receives("Compacted") /\ alive /\ comp # None /\ comp' = None /\ events' = Tail(events)
        /\ UNCHANGED <<alive, active, pc, ctask>> /\ used'.turns = used.turns
    BY <1>12, <1>f DEF HandleCompacted, Receives, SaveFails
  <2>2. At(events', "Compacted") = {} /\ At(events, "Compacted") # {}
    BY <1>a, <2>1, TakeOwn DEF CompactionAgrees
  <2>3. ctask = None
    BY <1>a, <2>1, <2>2 DEF CompactionAgrees
  <2>4. TurnAgrees'
    BY <1>a, <2>1, TakeKeepsTurn
  <2> QED BY <1>a, <2>1, <2>2, <2>3, <2>4 DEF TurnInv, StoppedIsEmpty, CompactionAgrees, AtMostOne
<1>13. CASE HandleCompactedClosing
  <2>1. alive /\ comp # None /\ Stop /\ UNCHANGED pc
    BY <1>13 DEF HandleCompactedClosing, Receives
  <2>2. ~Working
    BY <1>a, <2>1 DEF IdleIsQuiet, TurnAgrees
  <2> QED BY <1>a, <2>1, <2>2, StopAgrees DEF TurnInv
<1>14. CASE HandleExpiredDeletes
  <2>1. alive /\ Due /\ Stop /\ UNCHANGED pc
    BY <1>14 DEF HandleExpiredDeletes, Receives
  <2>2. active = None
    BY <2>1 DEF TurnInv, GraceInv, GraceHolds, NoDeadlineUnderTurn, Due
  <2>3. ~Working
    BY <1>a, <2>2 DEF TurnAgrees
  <2> QED BY <1>a, <2>1, <2>3, StopAgrees DEF TurnInv
<1>15. CASE TurnStep
  BY <1>15, <1>a, TurnStepAgrees DEF TurnInv
<1>16. CASE CompactionTask
  <2>1. PICK ok \in BOOLEAN :
          Send([type |-> "Compacted", id |-> ctask, ctx |-> Folded(cctx), ok |-> ok])
    BY <1>16 DEF CompactionTask
  <2> DEFINE e == [type |-> "Compacted", id |-> ctask, ctx |-> Folded(cctx), ok |-> ok]
  <2>2. e \in Event /\ e.type = "Compacted" /\ e.id = ctask
    BY <1>a, FoldedType DEF Event, TypeOK, CompactionType
  <2>3. Sends("Compacted", e)
    BY <2>1, <2>2 DEF Sends
  <2>4. /\ ctask # None /\ ctask' = None /\ used'.turns = used.turns
        /\ UNCHANGED <<alive, active, comp, pc>>
    BY <1>16 DEF CompactionTask
  <2> HIDE DEF e
  <2>5. TurnAgrees'
    <3>1. /\ At(events', "Finished") = At(events, "Finished")
          /\ \A i \in At(events, "Finished") : events'[i] = events[i]
      BY <1>a, <2>3, SendAt
    <3> QED BY <1>a, <2>4, <3>1 DEF TurnAgrees, AtMostOne, Working
  <2>6. CASE alive
    <3>1. comp # None /\ ctask = comp /\ At(events, "Compacted") = {}
      BY <1>a, <2>4, <2>6 DEF CompactionAgrees
    <3>2. At(events', "Compacted") = {Len(events) + 1} /\ events'[Len(events) + 1].id = comp
      BY <1>a, <2>2, <2>3, <2>6, <3>1, SendOwn
    <3> QED BY <1>a, <2>4, <2>5, <2>6, <3>1, <3>2
            DEF TurnInv, StoppedIsEmpty, CompactionAgrees, AtMostOne
  <2>7. CASE ~alive
    <3>1. events' = events
      BY <1>a, <2>3, <2>7, SendKeeps DEF Sends
    <3> QED BY <1>a, <2>4, <2>5, <2>7, <3>1
            DEF TurnInv, StoppedIsEmpty, CompactionAgrees, AtMostOne
  <2> QED BY <2>6, <2>7
<1>17. CASE Tick \/ UNCHANGED vars
  BY <1>17, <1>a, CalmTurn DEF Tick
<1>18. CASE TimerFires
  <2> DEFINE e == [type |-> "Expired"]
  <2>1. Send(e) /\ UNCHANGED <<alive, active, comp, pc, ctask>> /\ used'.turns = used.turns
    BY <1>18 DEF TimerFires
  <2>2. Sends("Expired", e)
    BY <2>1 DEF Event, Sends
  <2>3. ~alive => events' = events
    BY <1>a, <2>2, SendKeeps DEF Sends
  <2> HIDE DEF e
  <2>4. /\ At(events', "Compacted") = At(events, "Compacted")
        /\ \A i \in At(events, "Compacted") : events'[i] = events[i]
        /\ At(events', "Finished") = At(events, "Finished")
        /\ \A i \in At(events, "Finished") : events'[i] = events[i]
    BY <1>a, <2>2, SendAt
  <2> QED BY <1>a, <2>1, <2>3, <2>4
          DEF TurnInv, StoppedIsEmpty, TurnAgrees, CompactionAgrees, AtMostOne, Working
<1>19. CASE Spawn
  <2>1. /\ alive' /\ active' = None /\ comp' = None /\ events' = <<>> /\ pc' = "off" /\ ctask' = None
    BY <1>19 DEF Spawn
  <2>2. At(events', "Finished") = {} /\ At(events', "Compacted") = {}
    BY <2>1 DEF At
  <2> QED BY <1>a, <2>1, <2>2
          DEF TurnInv, StoppedIsEmpty, TurnAgrees, CompactionAgrees, AtMostOne, Working
<1> QED
  BY <1>1, <1>2, <1>3, <1>4, <1>5, <1>6, <1>7, <1>9, <1>10, <1>11, <1>12, <1>13, <1>14,
     <1>15, <1>16, <1>17, <1>18, <1>19
     DEF Next, HandleEvent, Unload

(* A session never runs two turns, never stays busy with one that is gone and *)
(* never stops under one that writes; its compaction likewise.                *)
THEOREM TurnCorrect == Spec => []TurnTracked
<1>1. TurnInv /\ [Next]_vars => TurnInv'
  BY TurnInvStep
<1>2. TurnInv => TurnTracked
  BY DEF TurnInv, TurnAgrees, CompactionAgrees, TurnTracked, Working, At
<1> QED BY TurnInit, <1>1, <1>2, PTL DEF Spec

-----------------------------------------------------------------------------
(* While an actor lives nobody has been told that it is unloaded.             *)
LEMMA NobodyTold ==
  ASSUME UnloadedIsSaved, alive, NEW c \in Callers
  PROVE  unloads[c] # "ok"
BY DEF UnloadedIsSaved

(* So a step that tells nobody keeps what was promised.                       *)
LEMMA TellsNobody ==
  ASSUME UnloadedIsSaved, alive, \A c \in Callers : unloads'[c] = "ok" => unloads[c] = "ok"
  PROVE  UnloadedIsSaved'
BY DEF UnloadedIsSaved

LEMMA StopTells ==
  ASSUME ~alive', \A c \in Callers : unloads'[c] = "ok" => disk' = rec', ~Working, ctask = None,
         UNCHANGED <<pc, ctask>>
  PROVE  UnloadedIsSaved'
BY DEF UnloadedIsSaved, Working

LEMMA SavedStep ==
  ASSUME TurnInv, UnloadedIsSaved, [Next]_vars
  PROVE  UnloadedIsSaved'
<1> USE DEF vars, actorVars, turnVars, compVars, storeVars, histVars, turnFrame
<1>a. /\ TypeInv /\ TypeOK /\ IdleIsQuiet /\ TurnAgrees /\ CompactionAgrees
      /\ unloads \in [Callers -> {"no", "waiting", "ok", "error", "closed"}]
  BY DEF TurnInv, QuietInv, TypeInv, TypeOK, HistoryType
<1>1. CASE Prompt \/ Cancel \/ Compact \/ Keep \/ KeepOrCompactFails
           \/ (\E ask \in 1..MaxAsks, allow \in BOOLEAN : RespondPermission(ask, allow))
           \/ HandlePersist \/ HandleAsk \/ HandleFinished \/ HandleCompacted \/ HandleExpired
  <2>1. alive /\ UNCHANGED unloads
    BY <1>1, ZenonT(40)
       DEF Prompt, PromptWakeFails, PromptSaveFails, PromptRecordFails, PromptStarts, PromptSteers,
           PromptSteerFails, Admits, Cancel, Compact, Keep, KeepOrCompactFails, RespondPermission,
           HandlePersist, HandleAsk, HandleFinished, HandleCompacted, HandleExpired, Receives
  <2> QED BY <2>1, TellsNobody
<1>2. ASSUME NEW c \in Callers, UnloadRefused(c) \/ UnloadDeferred(c)
      PROVE  UnloadedIsSaved'
  <2>1. alive /\ \A u \in Callers : unloads'[u] = "ok" => unloads[u] = "ok"
    BY <1>2, <1>a DEF UnloadRefused, UnloadDeferred
  <2> QED BY <2>1, TellsNobody
<1>3. CASE HandleExpiredDeletes
  <2>1. alive /\ \A u \in Callers : unloads'[u] = "ok" => unloads[u] = "ok"
    BY <1>3, <1>a DEF HandleExpiredDeletes, Receives
  <2> QED BY <2>1, TellsNobody
<1>4. ASSUME NEW c \in Callers, UnloadNow(c)
      PROVE  UnloadedIsSaved'
  <2>1. /\ alive /\ active = None /\ comp = None /\ Stop /\ UNCHANGED <<rec, pc, ctask>>
        /\ disk' = rec \/ unloads' = [unloads EXCEPT ![c] = "error"]
    BY <1>4 DEF UnloadNow, Busy
  <2>2. \A u \in Callers : unloads'[u] = "ok" => disk' = rec'
    BY <1>a, <2>1, NobodyTold
  <2> QED BY <1>a, <2>1, <2>2, StopTells DEF Stop, TurnAgrees, CompactionAgrees
<1>5. CASE HandleFinishedClosing
  <2>1. /\ alive /\ active # None /\ Receives("Finished") /\ Stop /\ UNCHANGED <<pc, ctask>>
        /\ disk' = rec' \/ unloads' = [unloads EXCEPT ![closing] = "error"]
    BY <1>5 DEF HandleFinishedClosing, Receives
  <2>2. \A u \in Callers : unloads'[u] = "ok" => disk' = rec'
    BY <1>a, <2>1, NobodyTold
  <2>3. ~Working
    BY <1>a, <2>1, TakeOwn DEF TurnAgrees
  <2>4. ctask = None
    BY <1>a, <2>1 DEF IdleIsQuiet, CompactionAgrees
  <2> QED BY <2>1, <2>2, <2>3, <2>4, StopTells DEF Stop
<1>6. CASE HandleCompactedClosing
  <2>1. /\ alive /\ comp # None /\ Receives("Compacted") /\ Stop /\ UNCHANGED <<rec, pc, ctask>>
        /\ disk' = rec \/ unloads' = [unloads EXCEPT ![closing] = "error"]
    BY <1>6 DEF HandleCompactedClosing, Receives
  <2>2. \A u \in Callers : unloads'[u] = "ok" => disk' = rec'
    BY <1>a, <2>1, NobodyTold
  <2>3. ~Working
    BY <1>a, <2>1 DEF IdleIsQuiet, TurnAgrees
  <2>4. ctask = None
    BY <1>a, <2>1, TakeOwn DEF CompactionAgrees
  <2> QED BY <2>1, <2>2, <2>3, <2>4, StopTells DEF Stop
<1>7. CASE TurnStep
  <2>1. UNCHANGED <<alive, rec, disk, ctask, unloads>>
    BY <1>7
       DEF TurnStep, LoopCancelled, BeginStep, MaybeCompact, CompactInTurn, ReplyWithoutTools,
           ReplyWithTools, RetryModel, RecoverModel, FailModel, Backoff, AskPermission, TakeDecision,
           EndBatch, Saved, SaveLost, DropTurn
  <2>2. ~Working => pc' = "off"
    BY <1>7
       DEF TurnStep, LoopCancelled, BeginStep, MaybeCompact, CompactInTurn, ReplyWithoutTools,
           ReplyWithTools, RetryModel, RecoverModel, FailModel, Backoff, AskPermission, TakeDecision,
           EndBatch, Interrupted, Saved, SaveLost, DropTurn, Working
  <2> QED BY <2>1, <2>2 DEF UnloadedIsSaved, Working
<1>8. CASE CompactionTask \/ Tick \/ TimerFires \/ UNCHANGED vars
  <2>1. /\ UNCHANGED <<alive, rec, disk, pc, unloads>>
        /\ ctask # None \/ UNCHANGED ctask
    BY <1>8 DEF CompactionTask, Tick, TimerFires
  <2> QED BY <2>1 DEF UnloadedIsSaved
<1>9. CASE Spawn
  BY <1>9 DEF Spawn, UnloadedIsSaved
<1> QED
  BY <1>1, <1>2, <1>3, <1>4, <1>5, <1>6, <1>7, <1>8, <1>9
     DEF Next, HandleEvent, Unload

(* Whoever is told that a session was unloaded finds on disk what was in      *)
(* memory, and no task of it that could still write.                          *)
THEOREM SavedCorrect == Spec => []UnloadedIsSaved
<1>1. Init => TurnInv /\ UnloadedIsSaved
  BY TurnInit DEF Init, UnloadedIsSaved
<1>2. (TurnInv /\ UnloadedIsSaved) /\ [Next]_vars => (TurnInv /\ UnloadedIsSaved)'
  BY TurnInvStep, SavedStep
<1> QED BY <1>1, <1>2, PTL DEF Spec

-----------------------------------------------------------------------------
(* Where a request can be: answered or registered, or still in the queue.     *)
Held(ask) == ~alive \/ verdict[ask] # "none" \/ pending = ask
Queued(ask) == \E i \in At(events, "Ask") : events[i].ask = ask

(* A registered request that goes is denied.                                  *)
LEMMA HeldStays ==
  ASSUME TypeOK, NEW ask \in 1..MaxAsks, Held(ask), alive' => alive,
         UNCHANGED <<pending, verdict>> \/ RejectPending
  PROVE  Held(ask)'
BY DEF Held, RejectPending, TypeOK, TurnType

LEMMA QueuedStays ==
  ASSUME TypeOK, NEW u, Receives(u), u # "Ask", events' = Tail(events), NEW ask, Queued(ask)
  PROVE  Queued(ask)'
<1>1. PICK i \in At(events, "Ask") : events[i].ask = ask
  BY DEF Queued
<1>2. i - 1 \in At(Tail(events), "Ask") /\ Tail(events)[i - 1] = events[i]
  BY <1>1, TakeAt
<1>3. Queued(ask)' <=> \E j \in At(events', "Ask") : events'[j].ask = ask
  BY DEF Queued, At
<1> QED BY <1>1, <1>2, <1>3

LEMMA AskStep ==
  ASSUME TypeInv, NoStrandedAsk, [Next]_vars
  PROVE  NoStrandedAsk'
<1> USE DEF vars, actorVars, turnVars, compVars, storeVars, histVars, turnFrame
<1>a. TypeOK /\ used \in Counters /\ pending \in 0..MaxAsks
      /\ verdict \in [1..MaxAsks -> {"none", "allow", "deny"}] /\ then \in Conts
  BY DEF TypeInv, TypeOK, HistoryType, ActorType, TurnType
<1>f. Fault => used'.asks = used.asks
  BY <1>a, FaultType
<1>1. CASE TurnStep /\ ~AskPermission
  <2>1. pc' # "asking"
    BY <1>1, <1>a
       DEF TurnStep, LoopCancelled, BeginStep, MaybeCompact, CompactInTurn, ReplyWithoutTools,
           ReplyWithTools, RetryModel, RecoverModel, FailModel, Backoff, TakeDecision, EndBatch,
           Saved, SaveLost, DropTurn, Finish, Settle, Checkpoint, Conts
  <2> QED BY <2>1 DEF NoStrandedAsk
<1>2. CASE AskPermission
  <2> DEFINE e == [type |-> "Ask", turn |-> used.turns, ask |-> used'.asks]
  <2>1. Send(e) /\ alive' = alive
    BY <1>2 DEF AskPermission
  <2>2. e \in Event
    BY <1>2, <1>a, AskCountType DEF AskPermission, Event, Counters
  <2>3. e.type = "Ask" /\ e.ask = used'.asks
    OBVIOUS
  <2> HIDE DEF e
  <2>4. Len(events) \in Nat
    BY <1>a, LenProperties DEF TypeOK, ChannelType
  <2>5. alive => Len(events') = Len(events) + 1 /\ events'[Len(events) + 1] = e
    BY <1>a, <2>1, <2>2, SendKeeps
  <2> QED BY <2>1, <2>3, <2>4, <2>5 DEF NoStrandedAsk
<1>3. CASE Spawn
  BY <1>3 DEF Spawn, NoStrandedAsk
<1>4. CASE \E kind \in Kinds : PromptStarts(kind)
  BY <1>4 DEF PromptStarts, NoStrandedAsk
<1>5. ASSUME pc = "asking", pc' = pc, used'.asks = used.asks,
             Held(used.asks)' \/ Queued(used.asks)'
      PROVE  NoStrandedAsk'
  BY <1>5 DEF NoStrandedAsk, Held, Queued, At
<1>6. ASSUME pc = "asking", pc' = pc
      PROVE  used.asks \in 1..MaxAsks /\ (Held(used.asks) \/ Queued(used.asks))
  BY <1>6, <1>a DEF NoStrandedAsk, Held, Queued, At, TypeInv, AskCounted, Counters
<1>7. ASSUME UNCHANGED pc, used'.asks = used.asks, alive' = alive,
             UNCHANGED <<pending, verdict>> \/ RejectPending,
             \/ UNCHANGED events
             \/ \E u \in {"Persist", "Finished", "Compacted", "Expired"} :
                  Receives(u) /\ events' = Tail(events)
      PROVE  NoStrandedAsk'
  <2> SUFFICES ASSUME pc = "asking" PROVE Held(used.asks)' \/ Queued(used.asks)'
    BY <1>5, <1>7 DEF NoStrandedAsk
  <2>1. CASE Held(used.asks)
    BY <1>6, <1>7, <1>a, <2>1, HeldStays
  <2>2. CASE Queued(used.asks)
    BY <1>7, <1>a, <2>2, QueuedStays, ZenonT(40) DEF Queued, At
  <2> QED BY <1>6, <1>7, <2>1, <2>2
<1>8. CASE Prompt /\ ~\E kind \in Kinds : PromptStarts(kind)
  BY <1>7, <1>8, <1>f
     DEF Prompt, PromptWakeFails, PromptSaveFails, PromptRecordFails, PromptSteers,
         PromptSteerFails, SaveFails
<1>9. CASE Cancel \/ Keep \/ KeepOrCompactFails \/ Compact \/ Tick \/ UNCHANGED vars
  <2>1. used'.asks = used.asks
    BY <1>9, <1>f, <1>a DEF Cancel, Keep, KeepOrCompactFails, SaveFails, Compact, Tick, Counters
  <2> QED BY <1>7, <1>9, <2>1 DEF Cancel, Keep, KeepOrCompactFails, Compact, Tick
<1>10. ASSUME NEW ask \in 1..MaxAsks, NEW allow \in BOOLEAN, RespondPermission(ask, allow)
       PROVE  NoStrandedAsk'
  <2> SUFFICES ASSUME pc = "asking" PROVE Held(used.asks)' \/ Queued(used.asks)'
    BY <1>5, <1>10 DEF NoStrandedAsk, RespondPermission
  <2>1. CASE Queued(used.asks)
    BY <1>10, <2>1 DEF RespondPermission, Queued, At
  <2>2. CASE Held(used.asks)
    BY <1>6, <1>10, <1>a, <2>2 DEF RespondPermission, Matches, Held
  <2> QED BY <1>6, <1>10, <2>1, <2>2 DEF RespondPermission
<1>11. ASSUME NEW c \in Callers, UnloadRefused(c) \/ UnloadDeferred(c)
       PROVE  NoStrandedAsk'
  BY <1>7, <1>11 DEF UnloadRefused, UnloadDeferred
<1>12. CASE HandlePersist \/ HandleFinished \/ HandleCompacted \/ HandleExpired
  BY <1>7, <1>12, <1>f DEF HandlePersist, HandleFinished, HandleCompacted, HandleExpired, SaveFails
<1>13. CASE HandleAsk
  <2>1. /\ Receives("Ask") /\ alive /\ alive' = alive /\ events' = Tail(events)
        /\ UNCHANGED <<pc, used>>
    BY <1>13 DEF HandleAsk, Receives
  <2> SUFFICES ASSUME pc = "asking" PROVE Held(used.asks)' \/ Queued(used.asks)'
    BY <1>5, <2>1 DEF NoStrandedAsk
  <2>2. used.asks \in 1..MaxAsks
    BY <1>6, <2>1
  <2>3. CASE Held(used.asks)
    BY <1>13, <1>a, <2>1, <2>2, <2>3 DEF HandleAsk, Held
  <2>4. CASE Queued(used.asks)
    <3>1. PICK i \in At(events, "Ask") : events[i].ask = used.asks
      BY <2>4 DEF Queued
    <3>2. events # <<>> /\ Len(events) \in Nat
      BY <1>a, <2>1, LenProperties DEF Receives, TypeOK, ChannelType
    <3>3. CASE i = 1
      <4>1. Head(events).ask = used.asks
        BY <3>1, <3>3
      <4> QED BY <1>13, <1>a, <2>2, <4>1 DEF HandleAsk, Held
    <3>4. CASE i # 1
      <4>1. i \in 1..Len(events) /\ events[i].type = "Ask"
        BY <3>1 DEF At
      <4>2. i - 1 \in 1..Len(Tail(events)) /\ Tail(events)[i - 1] = events[i]
        BY <1>a, <2>1, <3>2, <3>4, <4>1, TakeKeeps
      <4>3. i - 1 \in At(events', "Ask") /\ events'[i - 1].ask = used.asks
        BY <2>1, <3>1, <4>1, <4>2 DEF At
      <4> QED BY <2>1, <4>3 DEF Queued, At
    <3> QED BY <3>3, <3>4
  <2> QED BY <1>6, <2>1, <2>3, <2>4
<1>14. CASE Stop
  BY <1>14 DEF Stop, NoStrandedAsk
<1>15. CASE CompactionTask \/ TimerFires
  <2>1. PICK e \in Event : Send(e)
    <3>1. CASE CompactionTask
      <4>1. PICK ok \in BOOLEAN :
              Send([type |-> "Compacted", id |-> ctask, ctx |-> Folded(cctx), ok |-> ok])
        BY <3>1 DEF CompactionTask
      <4>2. [type |-> "Compacted", id |-> ctask, ctx |-> Folded(cctx), ok |-> ok] \in Event
        BY <1>a, FoldedType DEF Event, TypeOK, CompactionType
      <4> QED BY <4>1, <4>2
    <3>2. CASE TimerFires
      BY <3>2 DEF TimerFires, Event
    <3> QED BY <1>15, <3>1, <3>2
  <2>2. UNCHANGED <<pc, used, alive, pending, verdict>>
    BY <1>15 DEF CompactionTask, TimerFires
  <2>3. /\ Len(events) \in Nat /\ Len(events') >= Len(events) /\ Len(events') \in Nat
        /\ \A i \in 1..Len(events) : events'[i] = events[i]
    BY <1>a, <2>1, SendKeeps, LenProperties DEF TypeOK, ChannelType
  <2> QED BY <2>2, <2>3 DEF NoStrandedAsk
<1> QED
  BY <1>1, <1>2, <1>3, <1>4, <1>8, <1>9, <1>10, <1>11, <1>12, <1>13, <1>14, <1>15
     DEF Next, HandleEvent, Unload, UnloadNow, HandleFinishedClosing, HandleCompactedClosing,
         HandleExpiredDeletes

(* A turn that waits for a permission has its request in the queue,           *)
(* registered or answered, or its actor is gone and the reply with it.        *)
THEOREM AskAnswered == Spec => []NoStrandedAsk
<1>1. Init => TypeInv /\ NoStrandedAsk
  BY InitType DEF Init, NoStrandedAsk
<1>2. (TypeInv /\ NoStrandedAsk) /\ [Next]_vars => (TypeInv /\ NoStrandedAsk)'
  BY TypeStep, AskStep
<1> QED BY <1>1, <1>2, PTL DEF Spec

-----------------------------------------------------------------------------
(* Contexts, and the prompts they carry.                                      *)

(* A sequence of prompts the turns may carry: sent, in the order they were    *)
(* sent, and of each turn without a gap.                                      *)
InOrder(m) == \A i, j \in 1..Len(m) : i < j => m[i] < m[j]

Follows(s, i, j) ==
  i < j /\ s[i].turn # None /\ s[i].turn = s[j].turn /\ s[i].kind # "resume"

Unbroken(m, s) ==
  \A i, j \in 1..Len(s) : Follows(s, i, j) /\ j \in ToSet(m) => i \in ToSet(m)

Told(m, s) == ToSet(m) \subseteq 1..Len(s) /\ InOrder(m) /\ Unbroken(m, s)

(* The prompts a caller was told of as the start of a turn.                   *)
Acked(s) == {i \in 1..Len(s) : s[i].turn # None /\ ~s[i].queued /\ s[i].kind # "resume"}

(* The prompts a turn has taken.                                              *)
Taken(s, turn) == {i \in 1..Len(s) : s[i].turn = turn /\ s[i].kind # "resume"}

(* A context that a later request may be built from.                          *)
Sound(c, s) ==
  /\ ~c.open /\ c.folded <= Len(c.msgs)
  /\ Told(c.msgs, s) /\ Acked(s) \subseteq ToSet(c.msgs)

(* The stored contexts are sound, on disk also after a torn save, and differ  *)
(* only after one.                                                            *)
StoredSound ==
  /\ Sound(rec.ctx, sent) /\ Sound(disk.ctx, sent)
  /\ used.faults = 0 => disk.ctx = rec.ctx

(* The task of the active turn is ahead of the record, by the prompts of its  *)
(* turn, and what waits in its inbox comes next.                              *)
TaskAhead ==
  Working =>
    /\ IsPrefix(rec.ctx.msgs, tctx.msgs)
    /\ rec.ctx.folded <= tctx.folded /\ tctx.folded <= Len(tctx.msgs)
    /\ Told(tctx.msgs \o steer, sent)
    /\ Taken(sent, active) \subseteq ToSet(tctx.msgs \o steer)
    /\ pc \notin {"tools", "asking"} => ~tctx.open

(* The checkpoint in the queue is what its task waits for.                    *)
CheckpointAgrees ==
  /\ \A i \in At(events, "Persist") : events[i].ctx = tctx
  /\ At(events, "Persist") # {} => pc = "saving" /\ saved = "none"
  /\ AtMostOne(At(events, "Persist"))

(* A manual compaction works on what the record still carries.                *)
CopyAgrees ==
  comp # None => /\ cctx = rec.ctx
                 /\ \A i \in At(events, "Compacted") : events[i].ctx = Folded(cctx)

(* No turn has a prompt before it starts; each user prompt of a turn is in    *)
(* the transcript.                                                            *)
SentAgrees ==
  \A i \in 1..Len(sent) :
    /\ sent[i].turn <= used.turns
    /\ sent[i].turn # None /\ sent[i].kind = "user" => i \in transcript

ContextInv == TurnInv /\ StoredSound /\ TaskAhead /\ CheckpointAgrees /\ CopyAgrees /\ SentAgrees

-----------------------------------------------------------------------------
(* Sequences of prompts: what a prefix is, and what an appended prompt and an *)
(* appended inbox add.                                                        *)
LEMMA PrefixMeans ==
  ASSUME NEW s \in Seq(Nat), NEW t \in Seq(Nat)
  PROVE  IsPrefix(s, t) <=> Len(s) <= Len(t) /\ \A i \in 1..Len(s) : s[i] = t[i]
<1>1. Len(s) \in Nat /\ Len(t) \in Nat
  BY LenProperties
<1>2. SubSeq(s, 1, Len(s)) = s
  BY SubSeqFull
<1>3. CASE Len(s) <= Len(t)
  <2>1. \A i \in 1..Len(s) : t[i] \in Nat
    BY <1>1, <1>3, ElementOfSeq
  <2> DEFINE p == SubSeq(t, 1, Len(s))
  <2>2. p \in Seq(Nat) /\ Len(p) = Len(s) /\ \A i \in 1..Len(s) : p[i] = t[i]
    BY <1>1, <2>1, SubSeqProperties
  <2> HIDE DEF p
  <2>3. s = p <=> \A i \in 1..Len(s) : s[i] = p[i]
    BY <2>2, SeqEqual
  <2> QED BY <1>2, <1>3, <2>2, <2>3 DEF IsPrefix, p
<1> QED BY <1>1, <1>3 DEF IsPrefix

LEMMA PrefixFacts ==
  ASSUME NEW s \in Seq(Nat), NEW t \in Seq(Nat), NEW n \in Nat
  PROVE  IsPrefix(s, s) /\ IsPrefix(s, s \o t) /\ IsPrefix(s, Append(s, n))
<1>1. Len(s) \in Nat /\ Len(t) \in Nat
  BY LenProperties
<1>2. ASSUME NEW u \in Seq(Nat), Len(s) <= Len(u), \A i \in 1..Len(s) : u[i] = s[i]
      PROVE  IsPrefix(s, u)
  BY <1>2, PrefixMeans
<1>3. s \o t \in Seq(Nat) /\ Len(s) <= Len(s \o t) /\ \A i \in 1..Len(s) : (s \o t)[i] = s[i]
  BY <1>1, ConcatProperties
<1>4. /\ Append(s, n) \in Seq(Nat) /\ Len(s) <= Len(Append(s, n))
      /\ \A i \in 1..Len(s) : Append(s, n)[i] = s[i]
  BY <1>1, AppendProperties
<1>5. IsPrefix(s, s)
  BY <1>1, <1>2
<1>6. IsPrefix(s, s \o t)
  BY <1>2, <1>3, Zenon
<1>7. IsPrefix(s, Append(s, n))
  BY <1>2, <1>4, Zenon
<1> QED BY <1>5, <1>6, <1>7

LEMMA PrefixChain ==
  ASSUME NEW s \in Seq(Nat), NEW t \in Seq(Nat), NEW u \in Seq(Nat), IsPrefix(s, t), IsPrefix(t, u)
  PROVE  IsPrefix(s, u)
<1>1. Len(s) \in Nat /\ Len(t) \in Nat /\ Len(u) \in Nat
  BY LenProperties
<1> QED BY <1>1, PrefixMeans

LEMMA PrefixSet ==
  ASSUME NEW s \in Seq(Nat), NEW t \in Seq(Nat), IsPrefix(s, t)
  PROVE  ToSet(s) \subseteq ToSet(t)
<1>1. Len(s) \in Nat /\ Len(t) \in Nat /\ DOMAIN s = 1..Len(s) /\ DOMAIN t = 1..Len(t)
  BY LenProperties
<1> QED BY <1>1, PrefixMeans, SMTT(30) DEF ToSet

LEMMA AppendSet ==
  ASSUME NEW s \in Seq(Nat), NEW n \in Nat
  PROVE  ToSet(Append(s, n)) = ToSet(s) \cup {n}
<1>1. /\ Len(s) \in Nat /\ DOMAIN s = 1..Len(s)
      /\ DOMAIN Append(s, n) = 1..(Len(s) + 1)
  BY LenProperties, AppendProperties
<1>2. \A i \in 1..Len(s) : Append(s, n)[i] = s[i]
  BY AppendProperties
<1>3. Append(s, n)[Len(s) + 1] = n
  BY AppendProperties
<1> QED BY <1>1, <1>2, <1>3 DEF ToSet

(* What was sent stays as it was when another prompt is.                      *)
LEMMA SentLater ==
  ASSUME NEW s \in SentType, NEW e \in [kind : Kinds, turn : Nat, queued : BOOLEAN]
  PROVE  /\ Len(s) \in Nat /\ Len(Append(s, e)) = Len(s) + 1
         /\ \A i \in 1..Len(s) : Append(s, e)[i] = s[i]
         /\ Append(s, e)[Len(s) + 1] = e
BY LenProperties, AppendProperties DEF SentType

-----------------------------------------------------------------------------
(* Contexts and what was sent.                                                *)
LEMMA ToldPrefix ==
  ASSUME NEW s, NEW p \in Seq(Nat), NEW m \in Seq(Nat), Told(m, s), IsPrefix(p, m)
  PROVE  Told(p, s)
<1>1. /\ Len(p) \in Nat /\ Len(m) \in Nat /\ DOMAIN p = 1..Len(p) /\ DOMAIN m = 1..Len(m)
      /\ p \in [1..Len(p) -> Nat] /\ m \in [1..Len(m) -> Nat]
  BY LenProperties
<1>2. Len(p) <= Len(m) /\ \A i \in 1..Len(p) : p[i] = m[i]
  BY PrefixMeans
<1>3. ToSet(p) \subseteq ToSet(m)
  BY PrefixSet
<1>4. InOrder(p)
  BY <1>1, <1>2 DEF Told, InOrder
<1>5. Unbroken(p, s)
  <2> SUFFICES ASSUME NEW i \in 1..Len(s), NEW j \in 1..Len(s), Follows(s, i, j), j \in ToSet(p)
               PROVE  i \in ToSet(p)
    BY DEF Unbroken
  <2>1. i \in ToSet(m) /\ i < j
    BY <1>3 DEF Told, Unbroken, Follows
  <2>2. PICK a \in 1..Len(m) : m[a] = i
    BY <1>1, <2>1 DEF ToSet
  <2>3. PICK b \in 1..Len(p) : p[b] = j
    BY <1>1 DEF ToSet
  <2>4. b \in 1..Len(m) /\ m[b] = j
    BY <1>1, <1>2, <2>3
  <2>5. a < b
    BY <1>1, <2>1, <2>2, <2>4 DEF Told, InOrder
  <2>6. a \in 1..Len(p) /\ p[a] = i
    BY <1>1, <1>2, <2>2, <2>3, <2>5, SMTT(30)
  <2> QED BY <1>1, <2>6 DEF ToSet
<1> QED BY <1>3, <1>4, <1>5 DEF Told

LEMMA ToldLater ==
  ASSUME NEW s \in SentType, NEW e \in [kind : Kinds, turn : Nat, queued : BOOLEAN],
         NEW m, Told(m, s)
  PROVE  Told(m, Append(s, e))
<1>1. /\ Len(s) \in Nat /\ Len(Append(s, e)) = Len(s) + 1
      /\ \A i \in 1..Len(s) : Append(s, e)[i] = s[i]
  BY SentLater
<1>2. ToSet(m) \subseteq 1..Len(s)
  BY DEF Told
<1>3. Unbroken(m, Append(s, e))
  <2> SUFFICES ASSUME NEW i \in 1..Len(Append(s, e)), NEW j \in 1..Len(Append(s, e)),
                      Follows(Append(s, e), i, j), j \in ToSet(m)
               PROVE  i \in ToSet(m)
    BY DEF Unbroken
  <2>1. i \in 1..Len(s) /\ j \in 1..Len(s)
    BY <1>1, <1>2 DEF Follows
  <2>2. Follows(s, i, j)
    BY <1>1, <2>1 DEF Follows
  <2> QED BY <2>1, <2>2 DEF Told, Unbroken
<1> QED BY <1>1, <1>2, <1>3 DEF Told

LEMMA ToldNext ==
  ASSUME NEW s \in SentType, NEW e \in [kind : Kinds, turn : Nat, queued : BOOLEAN],
         NEW m \in Seq(Nat), Told(m, s), e.turn = None \/ Taken(s, e.turn) \subseteq ToSet(m)
  PROVE  Told(Append(m, Len(s) + 1), Append(s, e))
<1> DEFINE n == Len(s) + 1
<1>1. /\ Len(s) \in Nat /\ Len(Append(s, e)) = Len(s) + 1
      /\ \A i \in 1..Len(s) : Append(s, e)[i] = s[i]
      /\ Append(s, e)[n] = e /\ n \in Nat
  BY SentLater
<1>2. ToSet(m) \subseteq 1..Len(s) /\ InOrder(m) /\ Unbroken(m, Append(s, e))
  BY ToldLater DEF Told
<1>3. ToSet(Append(m, n)) = ToSet(m) \cup {n}
  BY <1>1, AppendSet
<1>4. /\ Len(m) \in Nat /\ Len(Append(m, n)) = Len(m) + 1 /\ DOMAIN m = 1..Len(m)
      /\ \A i \in 1..Len(m) : Append(m, n)[i] = m[i]
      /\ Append(m, n)[Len(m) + 1] = n
  BY <1>1, LenProperties, AppendProperties
<1>5. InOrder(Append(m, n))
  <2> SUFFICES ASSUME NEW i \in 1..Len(m) + 1, NEW j \in 1..Len(m) + 1, i < j
               PROVE  Append(m, n)[i] < Append(m, n)[j]
    BY <1>4 DEF InOrder
  <2>1. i \in 1..Len(m)
    BY <1>4
  <2>2. Append(m, n)[i] = m[i] /\ m[i] \in 1..Len(s)
    BY <1>2, <1>4, <2>1 DEF ToSet
  <2>3. CASE j = Len(m) + 1
    BY <1>1, <1>4, <2>2, <2>3
  <2>4. CASE j \in 1..Len(m)
    BY <1>2, <1>4, <2>1, <2>2, <2>4 DEF InOrder
  <2> QED BY <1>4, <2>3, <2>4
<1>6. Unbroken(Append(m, n), Append(s, e))
  <2> SUFFICES ASSUME NEW i \in 1..n, NEW j \in 1..n, Follows(Append(s, e), i, j),
                      j \in ToSet(m) \cup {n}
               PROVE  i \in ToSet(m) \cup {n}
    BY <1>1, <1>3 DEF Unbroken
  <2>1. CASE j \in ToSet(m)
    BY <1>1, <1>2, <2>1 DEF Unbroken
  <2>2. CASE j = n
    <3>1. /\ i \in 1..Len(s) /\ s[i].turn = e.turn /\ s[i].turn # None /\ s[i].kind # "resume"
      BY <1>1, <2>2 DEF Follows
    <3> QED BY <3>1 DEF Taken
  <2> QED BY <2>1, <2>2
<1> QED BY <1>1, <1>2, <1>3, <1>5, <1>6 DEF Told

LEMMA SoundLater ==
  ASSUME NEW s \in SentType, NEW e \in [kind : Kinds, turn : Nat, queued : BOOLEAN],
         NEW c \in Context, Sound(c, s), e.turn = None \/ e.queued \/ e.kind = "resume"
  PROVE  Sound(c, Append(s, e))
<1>1. /\ Len(s) \in Nat /\ Len(Append(s, e)) = Len(s) + 1
      /\ \A i \in 1..Len(s) : Append(s, e)[i] = s[i]
      /\ Append(s, e)[Len(s) + 1] = e
  BY SentLater
<1>2. Acked(Append(s, e)) = Acked(s)
  BY <1>1 DEF Acked
<1> QED BY <1>2, ToldLater DEF Sound

LEMMA SoundNext ==
  ASSUME NEW s \in SentType, NEW e \in [kind : Kinds, turn : Nat, queued : BOOLEAN],
         NEW c \in Context, Sound(c, s), e.turn = None \/ Taken(s, e.turn) \subseteq ToSet(c.msgs)
  PROVE  Sound([c EXCEPT !.msgs = Append(@, Len(s) + 1)], Append(s, e))
<1> DEFINE d == [c EXCEPT !.msgs = Append(@, Len(s) + 1)]
<1>1. /\ Len(s) \in Nat /\ Len(Append(s, e)) = Len(s) + 1 /\ Len(s) + 1 \in Nat
      /\ \A i \in 1..Len(s) : Append(s, e)[i] = s[i]
      /\ Append(s, e)[Len(s) + 1] = e
  BY SentLater
<1>2. c.msgs \in Seq(Nat) /\ c.folded \in Nat
  BY DEF Context
<1>3. d.msgs = Append(c.msgs, Len(s) + 1) /\ d.folded = c.folded /\ d.open = c.open
  BY DEF Context
<1>4. Told(d.msgs, Append(s, e))
  BY <1>2, <1>3, ToldNext DEF Sound
<1>5. Len(d.msgs) = Len(c.msgs) + 1 /\ Len(c.msgs) \in Nat
  BY <1>1, <1>2, <1>3, AppendProperties, LenProperties
<1>6. ToSet(d.msgs) = ToSet(c.msgs) \cup {Len(s) + 1}
  BY <1>1, <1>2, <1>3, AppendSet
<1>7. Acked(Append(s, e)) \subseteq Acked(s) \cup {Len(s) + 1}
  BY <1>1 DEF Acked
<1> QED BY <1>2, <1>3, <1>4, <1>5, <1>6, <1>7 DEF Sound

LEMMA SoundFolded ==
  ASSUME NEW s, NEW c \in Context, Sound(c, s)
  PROVE  /\ Sound(Folded(c), s) /\ Folded(c).msgs = c.msgs
         /\ c.folded <= Folded(c).folded
<1>1. Len(c.msgs) \in Nat /\ c.folded \in Nat
  BY LenProperties DEF Context
<1>2. Folded(c).msgs = c.msgs /\ Folded(c).folded = Len(c.msgs) /\ Folded(c).open = c.open
  BY DEF Folded, Context
<1> QED BY <1>1, <1>2 DEF Sound

LEMMA SoundAhead ==
  ASSUME NEW s, NEW c \in Context, NEW t \in Context, Sound(c, s), IsPrefix(c.msgs, t.msgs),
         ~t.open, t.folded <= Len(t.msgs), NEW st \in Seq(Nat), Told(t.msgs \o st, s)
  PROVE  Sound(t, s)
<1>1. c.msgs \in Seq(Nat) /\ t.msgs \in Seq(Nat)
  BY DEF Context
<1>2. t.msgs \o st \in Seq(Nat) /\ IsPrefix(t.msgs, t.msgs \o st)
  BY <1>1, ConcatProperties, PrefixFacts, 0 \in Nat
<1>3. Told(t.msgs, s)
  BY <1>1, <1>2, ToldPrefix
<1>4. ToSet(c.msgs) \subseteq ToSet(t.msgs)
  BY <1>1, PrefixSet
<1> QED BY <1>3, <1>4 DEF Sound

-----------------------------------------------------------------------------
(* What the parts of a step do to the contexts.                               *)
Carried == StoredSound /\ TaskAhead /\ SentAgrees

(* A step that brings nothing back (the step of ContextGrows).                *)
Grows ==
  /\ used'.spawns = used.spawns => /\ IsPrefix(rec.ctx.msgs, rec'.ctx.msgs)
                                   /\ rec.ctx.folded <= rec'.ctx.folded
  /\ used.faults = 0 => IsPrefix(disk.ctx.msgs, disk'.ctx.msgs)

LEMMA ContextTypes ==
  ASSUME TypeOK
  PROVE  /\ rec.ctx \in Context /\ disk.ctx \in Context /\ tctx \in Context /\ cctx \in Context
         /\ rec.ctx.msgs \in Seq(Nat) /\ disk.ctx.msgs \in Seq(Nat) /\ tctx.msgs \in Seq(Nat)
         /\ rec.ctx.folded \in Nat /\ tctx.folded \in Nat /\ steer \in Seq(Nat)
         /\ sent \in SentType /\ used \in Counters
BY DEF TypeOK, ActorType, StoreType, TurnType, ChannelType, CompactionType, HistoryType, SentType,
       Record, Context

LEMMA CountsRest ==
  ASSUME NEW u \in Counters
  PROVE  /\ [u EXCEPT !.turns = @ + 1].faults = u.faults
         /\ [u EXCEPT !.comps = @ + 1].faults = u.faults
         /\ [u EXCEPT !.rounds = @ + 1].faults = u.faults
         /\ [u EXCEPT !.asks = @ + 1].faults = u.faults
         /\ [u EXCEPT !.spawns = @ + 1].faults = u.faults
         /\ [u EXCEPT !.spawns = @ + 1].spawns # u.spawns
         /\ [u EXCEPT !.turns = @ + 1].turns = u.turns + 1
BY DEF Counters

(* A failed write leaves one of two contexts, and is counted.                 *)
LEMMA FaultCounts ==
  ASSUME TypeOK, Fault
  PROVE  used'.faults # 0 /\ used'.turns = used.turns
BY DEF Fault, TypeOK, HistoryType, Counters

LEMMA SaveFailsContext ==
  ASSUME TypeOK, NEW from \in Record, NEW r \in Record, SaveFails(from, r)
  PROVE  disk'.ctx \in {from.ctx, r.ctx} /\ used'.faults # 0 /\ used'.turns = used.turns
<1>1. [from EXCEPT !.ctx = r.ctx].ctx = r.ctx
  BY DEF Record
<1> QED BY <1>1, FaultCounts DEF SaveFails

(* The deadline apart, a prompt adds itself to the record or nothing.         *)
LEMMA AwakeContext ==
  ASSUME TypeOK
  PROVE  /\ Awake.ctx = rec.ctx /\ AwakeDisk.ctx \in {disk.ctx, rec.ctx}
         /\ WithPrompt("resume").ctx = rec.ctx
         /\ \A kind : kind # "resume" =>
              WithPrompt(kind).ctx = [rec.ctx EXCEPT !.msgs = Append(@, Len(sent) + 1)]
<1>1. rec \in Record
  BY DEF TypeOK, ActorType
<1>2. Awake.ctx = rec.ctx /\ Awake \in Record
  BY <1>1, NoneType DEF Awake, Record
<1>3. WithPrompt("resume").ctx = rec.ctx
  BY <1>2 DEF WithPrompt
<1>4. ASSUME NEW kind, kind # "resume"
      PROVE  WithPrompt(kind).ctx = [rec.ctx EXCEPT !.msgs = Append(@, Len(sent) + 1)]
  BY <1>2, <1>4 DEF WithPrompt, NextPrompt, Record
<1> QED BY <1>2, <1>3, <1>4 DEF AwakeDisk

LEMMA SettledContext ==
  ASSUME TypeOK, NEW outcome
  PROVE  Settled(outcome).ctx = rec.ctx
BY DEF Settled, TypeOK, ActorType, Record

(* What is only kept, or saved as it is, stays sound.                         *)
LEMMA CalmContext ==
  ASSUME ContextInv, TurnInv', UNCHANGED <<pc, tctx, steer, sent, transcript>>,
         used'.turns = used.turns, active' \in {active, None},
         rec'.ctx = rec.ctx, disk'.ctx \in {disk.ctx, rec.ctx},
         used'.faults = 0 => used.faults = 0
  PROVE  Carried' /\ Grows
<1>a. /\ rec.ctx.msgs \in Seq(Nat) /\ rec.ctx.folded \in Nat /\ disk.ctx.msgs \in Seq(Nat)
      /\ StoredSound /\ TaskAhead /\ SentAgrees
  BY ContextTypes DEF ContextInv, TurnInv, QuietInv, TypeInv
<1>1. StoredSound'
  BY <1>a DEF StoredSound
<1>2. Working' => active' = active
  BY DEF TurnInv, TurnAgrees, Working
<1>3. TaskAhead'
  BY <1>a, <1>2 DEF TaskAhead, Working
<1>4. SentAgrees'
  BY <1>a DEF SentAgrees
<1>5. Grows
  <2>1. IsPrefix(rec.ctx.msgs, rec.ctx.msgs) /\ IsPrefix(disk.ctx.msgs, disk.ctx.msgs)
    BY <1>a, PrefixFacts, 0 \in Nat
  <2> QED BY <1>a, <2>1 DEF Grows, StoredSound
<1> QED BY <1>1, <1>3, <1>4, <1>5 DEF Carried

-----------------------------------------------------------------------------
(* What the turn task does to its context and its inbox: it ends, it goes on  *)
(* with the same prompts, or it has written a checkpoint that it waits for.   *)
Ended == ~Working' /\ (UNCHANGED events \/ \E e : Sends("Finished", e))

GoesOn ==
  /\ Working' /\ pc' # "saving" /\ UNCHANGED steer
  /\ tctx'.msgs = tctx.msgs /\ tctx'.folded = tctx.folded
  /\ pc' \in {"tools", "asking"} \/ (pc \notin {"tools", "asking"} /\ tctx'.open = tctx.open)
  /\ UNCHANGED events \/ \E e : Sends("Ask", e)

Persists ==
  /\ Working' /\ pc # "saving" /\ pc' = "saving" /\ saved' = "none"
  /\ tctx' \in Context
  /\ \E e : Sends("Persist", e) /\ e.ctx = tctx'
  /\ \/ tctx'.msgs = tctx.msgs \o steer /\ steer' = <<>> /\ tctx'.folded = tctx.folded
     \/ /\ tctx'.msgs = tctx.msgs /\ UNCHANGED steer
        /\ tctx'.folded \in {tctx.folded, Len(tctx.msgs)}
  /\ ~tctx'.open \/ (pc \notin {"tools", "asking"} /\ tctx'.open = tctx.open)

LEMMA CheckpointPersists ==
  ASSUME TypeOK, NEW c \in Context, NEW next, Checkpoint(c, next)
  PROVE  /\ tctx' = c /\ pc' = "saving" /\ saved' = "none" /\ Working'
         /\ \E e : Sends("Persist", e) /\ e.ctx = tctx'
<1> DEFINE e == [type |-> "Persist", ctx |-> c]
<1>1. e \in Event /\ e.type = "Persist" /\ e.ctx = c /\ Send(e)
  BY DEF Event, Checkpoint
<1>2. Sends("Persist", e)
  BY <1>1 DEF Sends
<1> HIDE DEF e
<1> QED BY <1>1, <1>2 DEF Checkpoint, Working

LEMMA SettlePersists ==
  ASSUME TypeOK, NEW c \in Context, c.msgs = tctx.msgs, c.folded = tctx.folded, pc # "saving",
         ~c.open \/ (pc \notin {"tools", "asking"} /\ c.open = tctx.open),
         NEW next, Settle(c, next)
  PROVE  Persists
<1>1. c.msgs \in Seq(Nat) /\ steer \in Seq(Nat)
  BY DEF TypeOK, ChannelType, Context
<1>2. c.msgs \o steer \in Seq(Nat)
  BY <1>1, ConcatProperties
<1> DEFINE d == [c EXCEPT !.msgs = @ \o steer]
<1>3. d \in Context /\ d.msgs = c.msgs \o steer /\ d.folded = c.folded /\ d.open = c.open
  BY <1>2 DEF Context
<1>4. Checkpoint(d, next) /\ steer' = <<>>
  BY DEF Settle
<1> HIDE DEF d
<1> QED BY <1>3, <1>4, CheckpointPersists DEF Persists

LEMMA TurnStepEffect ==
  ASSUME TypeInv, TurnStep
  PROVE  /\ Ended \/ GoesOn \/ Persists
         /\ pc = "saving" => saved # "none" \/ ~alive
         /\ Working \/ pc' = "off"
<1>a. /\ TypeOK /\ tctx \in Context /\ used \in Counters /\ then \in Conts
      /\ {"cancelled", "completed", Failure} \subseteq Outcomes
  BY FailureType DEF TypeInv, TypeOK, TurnType, HistoryType, Outcomes
<1>s. /\ pc = "saving" => saved # "none" \/ ~alive
      /\ Working \/ pc' = "off"
  BY DEF TurnStep, LoopCancelled, BeginStep, MaybeCompact, CompactInTurn, ReplyWithoutTools,
         ReplyWithTools, RetryModel, RecoverModel, FailModel, Backoff, AskPermission, TakeDecision,
         EndBatch, Interrupted, Saved, SaveLost, DropTurn, Working
<1> SUFFICES Ended \/ GoesOn \/ Persists
  BY <1>s
<1>e. ASSUME NEW o \in Outcomes, Finish(o)
      PROVE  Ended
  BY <1>a, <1>e, FinishSends DEF Ended, Working
<1>p. ASSUME NEW c \in Context, NEW next, pc \notin {"saving", "tools", "asking"}, UNCHANGED steer,
             c.msgs = tctx.msgs, c.open = tctx.open, c.folded \in {tctx.folded, Len(tctx.msgs)},
             Checkpoint(c, next)
      PROVE  Persists
  BY <1>a, <1>p, CheckpointPersists DEF Persists
<1>1. CASE LoopCancelled \/ FailModel \/ SaveLost
  BY <1>a, <1>e, <1>1 DEF LoopCancelled, FailModel, SaveLost
<1>2. CASE BeginStep
  BY <1>a, <1>2, <1>e, <1>p DEF BeginStep, GoesOn, Working
<1>3. CASE MaybeCompact \/ RecoverModel
  BY <1>3 DEF MaybeCompact, RecoverModel, GoesOn, Working
<1>4. CASE CompactInTurn
  <2>1. /\ Folded(tctx) \in Context /\ Folded(tctx).msgs = tctx.msgs
        /\ Folded(tctx).open = tctx.open /\ Folded(tctx).folded = Len(tctx.msgs)
    BY <1>a, FoldedType DEF Folded, Context
  <2>2. CASE Checkpoint(Folded(tctx), "model")
    BY <1>4, <1>p, <2>1, <2>2 DEF CompactInTurn
  <2>3. CASE Checkpoint(tctx, "fail")
    BY <1>a, <1>4, <1>p, <2>3 DEF CompactInTurn
  <2> QED BY <1>a, <1>4, <1>e, <2>2, <2>3 DEF CompactInTurn
<1>5. CASE ReplyWithoutTools \/ RetryModel
  BY <1>a, <1>5, SettlePersists DEF ReplyWithoutTools, RetryModel
<1>6. CASE ReplyWithTools
  <2>1. [tctx EXCEPT !.open = TRUE].msgs = tctx.msgs /\ [tctx EXCEPT !.open = TRUE].folded = tctx.folded
    BY <1>a DEF Context
  <2> QED BY <1>6, <2>1 DEF ReplyWithTools, GoesOn, Working
<1>7. CASE Backoff
  BY <1>a, <1>7, <1>e, SettlePersists DEF Backoff, GoesOn, Working
<1>8. CASE AskPermission
  <2> DEFINE e == [type |-> "Ask", turn |-> used.turns, ask |-> used'.asks]
  <2>1. e \in Event /\ e.type = "Ask"
    BY <1>a, <1>8, AskCountType DEF AskPermission, Event, Counters
  <2>2. Sends("Ask", e)
    BY <1>8, <2>1 DEF AskPermission, Sends
  <2> QED BY <1>8, <2>2 DEF AskPermission, GoesOn, Working
<1>9. CASE TakeDecision
  BY <1>9 DEF TakeDecision, GoesOn, Working
<1>10. CASE EndBatch
  <2> DEFINE c == WithResults(tctx)
  <2>1. c \in Context /\ c.msgs = tctx.msgs /\ c.folded = tctx.folded /\ ~c.open
    BY <1>a DEF WithResults, Context
  <2>2. Settle(c, "batch") /\ pc # "saving"
    BY <1>10 DEF EndBatch, Interrupted
  <2> HIDE DEF c
  <2> QED BY <1>a, <2>1, <2>2, SettlePersists
<1>11. CASE Saved
  BY <1>a, <1>11, <1>e DEF Saved, GoesOn, Working, Conts
<1>12. CASE DropTurn
  BY <1>12 DEF DropTurn, Ended, Working
<1> QED
  BY <1>1, <1>2, <1>3, <1>4, <1>5, <1>6, <1>7, <1>8, <1>9, <1>10, <1>11, <1>12 DEF TurnStep

-----------------------------------------------------------------------------
(* The queue and what waits for it.                                           *)
LEMMA TakeKeepsCheckpoint ==
  ASSUME TypeOK, NEW u, Receives(u), u # "Persist", CheckpointAgrees, events' = Tail(events),
         UNCHANGED <<pc, saved, tctx>>
  PROVE  CheckpointAgrees'
<1>1. \A i \in At(events', "Persist") : i + 1 \in At(events, "Persist") /\ events'[i] = events[i + 1]
  BY TakeAt
<1>2. At(events', "Persist") \subseteq Int
  BY DEF At
<1>3. AtMostOne(At(events', "Persist"))
  <2> SUFFICES ASSUME NEW i \in At(events', "Persist"), NEW j \in At(events', "Persist")
               PROVE  i = j
    BY DEF AtMostOne
  <2>1. i + 1 = j + 1
    BY <1>1 DEF CheckpointAgrees, AtMostOne
  <2> QED BY <1>2, <2>1
<1>4. \A i \in At(events', "Persist") : events'[i].ctx = tctx
  BY <1>1 DEF CheckpointAgrees
<1>5. At(events', "Persist") # {} => At(events, "Persist") # {}
  BY <1>1
<1> QED BY <1>3, <1>4, <1>5 DEF CheckpointAgrees

(* Sending anything else does too. *)
LEMMA SendKeepsCheckpoint ==
  ASSUME TypeOK, CheckpointAgrees, UNCHANGED events \/ \E u : u # "Persist" /\ \E e : Sends(u, e),
         At(events, "Persist") = {} \/ UNCHANGED <<pc, saved, tctx>>
  PROVE  CheckpointAgrees'
<1>1. /\ At(events', "Persist") = At(events, "Persist")
      /\ \A i \in At(events, "Persist") : events'[i] = events[i]
  <2>1. CASE UNCHANGED events
    BY <2>1 DEF At
  <2>2. ASSUME NEW u, u # "Persist", NEW e, Sends(u, e)
        PROVE  /\ At(events', "Persist") = At(events, "Persist")
               /\ \A i \in At(events, "Persist") : events'[i] = events[i]
    BY <2>2, SendAt
  <2> QED BY <2>1, <2>2
<1> QED BY <1>1 DEF CheckpointAgrees, AtMostOne

LEMMA CheckpointStep ==
  ASSUME ContextInv, [Next]_vars
  PROVE  CheckpointAgrees'
<1> USE DEF vars, actorVars, turnVars, compVars, storeVars, histVars, turnFrame
<1>a. /\ TypeInv /\ TypeOK /\ CheckpointAgrees /\ TurnAgrees
      /\ Working => alive
  BY DEF ContextInv, TurnInv, QuietInv, TypeInv, TurnAgrees, StoppedIsEmpty
<1>1. CASE \E kind \in Kinds : PromptStarts(kind)
  <2>1. active = None /\ UNCHANGED events
    BY <1>1 DEF PromptStarts
  <2>2. At(events, "Persist") = {}
    BY <1>a, <2>1 DEF TurnAgrees, Working, CheckpointAgrees
  <2> QED BY <1>a, <2>1, <2>2, SendKeepsCheckpoint
<1>2. CASE Prompt /\ ~\E kind \in Kinds : PromptStarts(kind)
  <2>1. UNCHANGED <<events, pc, saved, tctx>>
    BY <1>2 DEF Prompt, PromptWakeFails, PromptSaveFails, PromptRecordFails, PromptSteers,
                PromptSteerFails
  <2> QED BY <1>a, <2>1, SendKeepsCheckpoint
<1>3. CASE \/ Cancel \/ Compact \/ Keep \/ KeepOrCompactFails \/ Tick \/ UNCHANGED vars
           \/ \E ask \in 1..MaxAsks, allow \in BOOLEAN : RespondPermission(ask, allow)
           \/ \E c \in Callers : UnloadRefused(c) \/ UnloadDeferred(c)
  <2>1. UNCHANGED <<events, pc, saved, tctx>>
    BY <1>3 DEF Cancel, Compact, Keep, KeepOrCompactFails, Tick, RespondPermission, UnloadRefused,
                UnloadDeferred
  <2> QED BY <1>a, <2>1, SendKeepsCheckpoint
<1>4. CASE Stop \/ Spawn
  <2>1. At(events', "Persist") = {}
    BY <1>4 DEF Stop, Spawn, At
  <2> QED BY <2>1 DEF CheckpointAgrees, AtMostOne
<1>5. CASE HandleAsk \/ HandleFinished \/ HandleCompacted \/ HandleExpired
  <2>1. /\ events' = Tail(events) /\ UNCHANGED <<pc, saved, tctx>>
        /\ Receives("Ask") \/ Receives("Finished") \/ Receives("Compacted") \/ Receives("Expired")
    BY <1>5 DEF HandleAsk, HandleFinished, HandleCompacted, HandleExpired
  <2> QED BY <1>a, <2>1, TakeKeepsCheckpoint
<1>6. CASE HandlePersist
  <2>1. Receives("Persist") /\ events' = Tail(events)
    BY <1>6 DEF HandlePersist
  <2>2. At(events', "Persist") = {}
    BY <1>a, <2>1, TakeOwn DEF CheckpointAgrees
  <2> QED BY <2>2 DEF CheckpointAgrees, AtMostOne
<1>7. CASE TurnStep
  <2>1. At(events, "Persist") = {}
    BY <1>7, <1>a, TurnStepEffect DEF CheckpointAgrees, Working
  <2>2. CASE Ended \/ GoesOn
    BY <1>a, <2>1, <2>2, SendKeepsCheckpoint DEF Ended, GoesOn
  <2>3. CASE Persists
    <3>1. PICK e : Sends("Persist", e) /\ e.ctx = tctx'
      BY <2>3 DEF Persists
    <3>2. alive /\ pc' = "saving" /\ saved' = "none"
      BY <1>7, <1>a, <2>3, TurnStepEffect DEF Persists, Working
    <3>3. At(events', "Persist") = {Len(events) + 1} /\ events'[Len(events) + 1] = e
      BY <1>a, <2>1, <3>1, <3>2, SendOwn
    <3> QED BY <3>1, <3>2, <3>3 DEF CheckpointAgrees, AtMostOne
  <2> QED BY <1>7, <1>a, <2>2, <2>3, TurnStepEffect
<1>8. CASE CompactionTask \/ TimerFires
  <2>1. UNCHANGED <<pc, saved, tctx>>
    BY <1>8 DEF CompactionTask, TimerFires
  <2>2. \E u : u # "Persist" /\ \E e : Sends(u, e)
    <3>1. CASE CompactionTask
      <4>1. PICK ok \in BOOLEAN :
              Send([type |-> "Compacted", id |-> ctask, ctx |-> Folded(cctx), ok |-> ok])
        BY <3>1 DEF CompactionTask
      <4> DEFINE e == [type |-> "Compacted", id |-> ctask, ctx |-> Folded(cctx), ok |-> ok]
      <4>2. e \in Event /\ e.type = "Compacted"
        BY <1>a, FoldedType DEF Event, TypeOK, CompactionType
      <4>3. Sends("Compacted", e)
        BY <4>1, <4>2 DEF Sends
      <4> QED BY <4>3
    <3>2. CASE TimerFires
      <4>1. Sends("Expired", [type |-> "Expired"])
        BY <3>2 DEF TimerFires, Sends, Event
      <4> QED BY <4>1
    <3> QED BY <1>8, <3>1, <3>2
  <2> QED BY <1>a, <2>1, <2>2, SendKeepsCheckpoint
<1> QED
  BY <1>1, <1>2, <1>3, <1>4, <1>5, <1>6, <1>7, <1>8
     DEF Next, HandleEvent, Unload, UnloadNow, HandleFinishedClosing, HandleCompactedClosing,
         HandleExpiredDeletes

(* The record under a running compaction does not change.                     *)
LEMMA CopyCalm ==
  ASSUME TypeOK, CopyAgrees, comp' \in {comp, None}, UNCHANGED cctx,
         comp' # None => rec'.ctx = rec.ctx,
         \/ UNCHANGED events
         \/ \E u : u # "Compacted" /\ \E e : Sends(u, e)
         \/ \E u : u # "Compacted" /\ Receives(u) /\ events' = Tail(events)
  PROVE  CopyAgrees'
<1>1. ASSUME NEW i \in At(events', "Compacted")
      PROVE  \E j \in At(events, "Compacted") : events'[i] = events[j]
  <2>1. CASE UNCHANGED events
    BY <1>1, <2>1
  <2>2. CASE \E u : u # "Compacted" /\ \E e : Sends(u, e)
    <3>1. PICK u, e : u # "Compacted" /\ Sends(u, e)
      BY <2>2
    <3>2. /\ At(events', "Compacted") = At(events, "Compacted")
          /\ \A j \in At(events, "Compacted") : events'[j] = events[j]
      BY <3>1, SendAt
    <3> QED BY <1>1, <3>2
  <2>3. CASE \E u : u # "Compacted" /\ Receives(u) /\ events' = Tail(events)
    <3>1. PICK u : u # "Compacted" /\ Receives(u) /\ events' = Tail(events)
      BY <2>3
    <3>2. /\ i + 1 \in At(events, "Compacted")
          /\ events'[i] = events[i + 1]
      BY <1>1, <3>1, TakeAt, ZenonT(40)
    <3> QED BY <3>2
  <2> QED BY <2>1, <2>2, <2>3
<1> QED BY <1>1 DEF CopyAgrees, Folded

LEMMA CopyStep ==
  ASSUME ContextInv, [Next]_vars
  PROVE  CopyAgrees'
<1> USE DEF vars, actorVars, turnVars, compVars, storeVars, histVars, turnFrame
<1>a. /\ TypeInv /\ TypeOK /\ CopyAgrees /\ TurnAgrees /\ CompactionAgrees /\ IdleIsQuiet
      /\ CheckpointAgrees
  BY DEF ContextInv, TurnInv, QuietInv, TypeInv
<1>1. CASE Prompt
  <2>1. comp' = None
    BY <1>1 DEF Prompt, PromptWakeFails, PromptSaveFails, PromptRecordFails, PromptStarts,
                PromptSteers, PromptSteerFails, Admits
  <2> QED BY <2>1 DEF CopyAgrees
<1>2. CASE Stop \/ Spawn \/ HandleCompacted
  BY <1>2 DEF Stop, Spawn, HandleCompacted, CopyAgrees
<1>3. CASE Compact
  <2>1. cctx' = rec'.ctx /\ comp = None /\ alive /\ UNCHANGED events
    BY <1>3, <1>a DEF Compact, IdleIsQuiet
  <2>2. At(events', "Compacted") = {}
    BY <1>a, <2>1 DEF CompactionAgrees
  <2> QED BY <2>1, <2>2 DEF CopyAgrees
<1>4. CASE \/ Cancel \/ Keep \/ KeepOrCompactFails \/ Tick \/ UNCHANGED vars
           \/ \E ask \in 1..MaxAsks, allow \in BOOLEAN : RespondPermission(ask, allow)
           \/ \E c \in Callers : UnloadRefused(c) \/ UnloadDeferred(c)
  <2>1. UNCHANGED <<events, comp, cctx>> /\ rec'.ctx = rec.ctx
    BY <1>4, <1>a
       DEF Cancel, Keep, KeepOrCompactFails, Tick, RespondPermission, UnloadRefused,
           UnloadDeferred, TypeOK, ActorType, Record
  <2> QED BY <1>a, <2>1, CopyCalm
<1>5. CASE HandleAsk \/ HandleExpired \/ HandleFinished
  <2>1. /\ events' = Tail(events) /\ UNCHANGED <<comp, cctx>> /\ rec'.ctx = rec.ctx
        /\ Receives("Ask") \/ Receives("Expired") \/ Receives("Finished")
    BY <1>5, <1>a, SettledContext DEF HandleAsk, HandleExpired, HandleFinished
  <2> QED BY <1>a, <2>1, CopyCalm
<1>6. CASE HandlePersist
  <2>1. Receives("Persist") /\ alive /\ comp' = comp
    BY <1>6 DEF HandlePersist, Receives
  <2>2. 1 \in At(events, "Persist")
    BY <1>a, <2>1, TakeOwn DEF CheckpointAgrees
  <2>3. Working
    BY <1>a, <2>2 DEF CheckpointAgrees, Working
  <2>4. comp' = None
    BY <1>a, <2>1, <2>3 DEF TurnAgrees, IdleIsQuiet
  <2> QED BY <2>4 DEF CopyAgrees
<1>7. CASE TurnStep
  <2>1. UNCHANGED <<rec, comp, cctx>>
    BY <1>7
       DEF TurnStep, LoopCancelled, BeginStep, MaybeCompact, CompactInTurn, ReplyWithoutTools,
           ReplyWithTools, RetryModel, RecoverModel, FailModel, Backoff, AskPermission, TakeDecision,
           EndBatch, Saved, SaveLost, DropTurn
  <2>2. UNCHANGED events \/ \E u : u # "Compacted" /\ \E e : Sends(u, e)
    BY <1>7, <1>a, TurnStepEffect DEF Ended, GoesOn, Persists
  <2> QED BY <1>a, <2>1, <2>2, CopyCalm
<1>8. CASE TimerFires
  <2>1. Sends("Expired", [type |-> "Expired"])
    BY <1>8 DEF TimerFires, Sends, Event
  <2>2. \E u : u # "Compacted" /\ \E e : Sends(u, e)
    BY <2>1
  <2>3. UNCHANGED <<rec, comp, cctx>>
    BY <1>8 DEF TimerFires
  <2> QED BY <1>a, <2>2, <2>3, CopyCalm
<1>9. CASE CompactionTask
  <2>1. PICK ok \in BOOLEAN :
          Send([type |-> "Compacted", id |-> ctask, ctx |-> Folded(cctx), ok |-> ok])
    BY <1>9 DEF CompactionTask
  <2> DEFINE e == [type |-> "Compacted", id |-> ctask, ctx |-> Folded(cctx), ok |-> ok]
  <2>2. e \in Event /\ e.type = "Compacted" /\ e.ctx = Folded(cctx)
    BY <1>a, FoldedType DEF Event, TypeOK, CompactionType
  <2>3. Sends("Compacted", e)
    BY <2>1, <2>2 DEF Sends
  <2>4. ctask # None /\ UNCHANGED <<comp, rec, cctx, alive>>
    BY <1>9 DEF CompactionTask
  <2> HIDE DEF e
  <2> SUFFICES ASSUME comp # None PROVE CopyAgrees'
    BY <2>4 DEF CopyAgrees
  <2>5. alive /\ At(events, "Compacted") = {}
    BY <1>a, <2>4 DEF ContextInv, TurnInv, StoppedIsEmpty, CompactionAgrees
  <2>6. At(events', "Compacted") = {Len(events) + 1} /\ events'[Len(events) + 1] = e
    BY <1>a, <2>3, <2>5, SendOwn
  <2> QED BY <1>a, <2>2, <2>4, <2>6 DEF CopyAgrees, Folded
<1> QED
  BY <1>1, <1>2, <1>3, <1>4, <1>5, <1>6, <1>7, <1>8, <1>9
     DEF Next, HandleEvent, Unload, UnloadNow, HandleFinishedClosing, HandleCompactedClosing,
         HandleExpiredDeletes

-----------------------------------------------------------------------------
(* One more prompt is sent.                                                   *)
Prompted == [kind : Kinds, turn : Nat, queued : BOOLEAN]

LEMMA StoredNext ==
  ASSUME ContextInv, NEW e \in Prompted, sent' = Append(sent, e),
         \/ rec'.ctx = rec.ctx /\ (e.turn = None \/ e.queued \/ e.kind = "resume")
         \/ /\ rec'.ctx = [rec.ctx EXCEPT !.msgs = Append(@, Len(sent) + 1)]
            /\ e.turn = None \/ Taken(sent, e.turn) = {},
         \/ disk'.ctx = rec'.ctx
         \/ disk'.ctx \in {disk.ctx, rec.ctx} /\ (e.turn = None \/ e.queued),
         used'.faults = 0 => used.faults = 0 /\ (disk'.ctx = rec'.ctx \/ rec'.ctx = rec.ctx)
  PROVE  StoredSound' /\ Grows
<1> USE DEF Prompted
<1>a. /\ rec.ctx \in Context /\ disk.ctx \in Context /\ rec.ctx.msgs \in Seq(Nat)
      /\ disk.ctx.msgs \in Seq(Nat) /\ rec.ctx.folded \in Nat /\ sent \in SentType
      /\ StoredSound
  BY ContextTypes DEF ContextInv, TurnInv, QuietInv, TypeInv
<1>b. Len(sent) + 1 \in Nat
  BY <1>a, SentLater
<1>1. Sound(rec'.ctx, sent')
  <2>1. CASE rec'.ctx = rec.ctx /\ (e.turn = None \/ e.queued \/ e.kind = "resume")
    BY <1>a, <2>1, SoundLater DEF StoredSound
  <2>2. CASE /\ rec'.ctx = [rec.ctx EXCEPT !.msgs = Append(@, Len(sent) + 1)]
             /\ e.turn = None \/ Taken(sent, e.turn) = {}
    <3>1. e.turn = None \/ Taken(sent, e.turn) \subseteq ToSet(rec.ctx.msgs)
      BY <2>2
    <3>2. Sound([rec.ctx EXCEPT !.msgs = Append(@, Len(sent) + 1)], Append(sent, e))
      BY <1>a, <3>1, SoundNext DEF StoredSound
    <3> QED BY <2>2, <3>2
  <2> QED BY <2>1, <2>2
<1>2. e.turn = None \/ e.queued => Sound(disk.ctx, sent') /\ Sound(rec.ctx, sent')
  BY <1>a, SoundLater DEF StoredSound
<1>3. Sound(disk'.ctx, sent')
  BY <1>1, <1>2
<1>4. used'.faults = 0 => disk'.ctx = rec'.ctx
  BY <1>a DEF StoredSound
<1>5. /\ IsPrefix(rec.ctx.msgs, rec'.ctx.msgs) /\ rec.ctx.folded <= rec'.ctx.folded
      /\ IsPrefix(rec.ctx.msgs, rec.ctx.msgs)
  <2>1. /\ IsPrefix(rec.ctx.msgs, rec.ctx.msgs)
        /\ IsPrefix(rec.ctx.msgs, Append(rec.ctx.msgs, Len(sent) + 1))
    BY <1>a, <1>b, PrefixFacts
  <2>2. CASE rec'.ctx = [rec.ctx EXCEPT !.msgs = Append(@, Len(sent) + 1)]
    <3>1. /\ rec'.ctx.msgs = Append(rec.ctx.msgs, Len(sent) + 1)
          /\ rec'.ctx.folded = rec.ctx.folded
      BY <1>a, <2>2 DEF Context
    <3> QED BY <1>a, <2>1, <3>1
  <2> QED BY <1>a, <2>1, <2>2
<1>6. used.faults = 0 => IsPrefix(disk.ctx.msgs, disk'.ctx.msgs)
  BY <1>a, <1>5 DEF StoredSound
<1> QED BY <1>1, <1>3, <1>4, <1>5, <1>6 DEF StoredSound, Grows

LEMMA ConcatAppend ==
  ASSUME NEW s \in Seq(Nat), NEW t \in Seq(Nat), NEW n \in Nat
  PROVE  s \o Append(t, n) = Append(s \o t, n)
<1>1. <<n>> \in Seq(Nat) /\ s \o t \in Seq(Nat)
  BY ConcatProperties
<1>2. Append(t, n) = t \o <<n>> /\ Append(s \o t, n) = (s \o t) \o <<n>>
  BY <1>1, AppendIsConcat
<1>3. s \o (t \o <<n>>) = (s \o t) \o <<n>>
  BY <1>1, ConcatAssociative
<1> QED BY <1>2, <1>3

LEMMA TaskNext ==
  ASSUME ContextInv, NEW e \in Prompted, sent' = Append(sent, e),
         UNCHANGED <<pc, tctx, active>>, rec'.ctx = rec.ctx,
         \/ e.turn = None /\ UNCHANGED steer
         \/ e.turn = active /\ e.kind # "resume" /\ steer' = Append(steer, Len(sent) + 1)
  PROVE  TaskAhead'
<1> USE DEF Prompted
<1> SUFFICES ASSUME Working PROVE TaskAhead'
  BY DEF TaskAhead, Working
<1>a. /\ tctx.msgs \in Seq(Nat) /\ steer \in Seq(Nat) /\ sent \in SentType /\ TaskAhead
      /\ active # None
  BY ContextTypes DEF ContextInv, TurnInv, QuietInv, TypeInv, TurnAgrees
<1> DEFINE m == tctx.msgs \o steer
           n == Len(sent) + 1
<1>b. m \in Seq(Nat)
  BY <1>a, ConcatProperties
<1>1. /\ Len(sent) \in Nat /\ Len(sent') = n /\ n \in Nat
      /\ \A i \in 1..Len(sent) : sent'[i] = sent[i]
      /\ sent'[n] = e
  BY <1>a, SentLater
<1>2. Told(m, sent) /\ Taken(sent, active) \subseteq ToSet(m)
  BY <1>a DEF TaskAhead
<1>3. Taken(sent', active) \subseteq Taken(sent, active) \cup {n}
  BY <1>1 DEF Taken
<1>4. CASE e.turn = None /\ UNCHANGED steer
  <2>1. Told(m, sent')
    BY <1>a, <1>b, <1>2, ToldLater
  <2>2. n \notin Taken(sent', active)
    BY <1>a, <1>1, <1>4 DEF Taken
  <2> HIDE DEF n
  <2> QED BY <1>a, <1>2, <1>3, <1>4, <2>1, <2>2 DEF TaskAhead
<1>5. CASE e.turn = active /\ e.kind # "resume" /\ steer' = Append(steer, n)
  <2>1. tctx.msgs \o steer' = Append(m, n)
    BY <1>a, <1>1, <1>5, ConcatAppend
  <2>2. Told(Append(m, n), sent')
    BY <1>a, <1>b, <1>2, <1>5, ToldNext
  <2>3. ToSet(Append(m, n)) = ToSet(m) \cup {n}
    BY <1>1, <1>b, AppendSet
  <2> HIDE DEF m, n
  <2>4. Taken(sent', active) \subseteq ToSet(Append(m, n))
    BY <1>2, <1>3, <2>3
  <2> QED BY <1>a, <1>5, <2>1, <2>2, <2>4 DEF TaskAhead
<1> QED BY <1>4, <1>5

LEMMA SentNext ==
  ASSUME ContextInv, NEW e \in Prompted, sent' = Append(sent, e),
         used'.turns \in Nat, used.turns <= used'.turns, e.turn <= used'.turns,
         transcript \subseteq transcript',
         e.turn # None /\ e.kind = "user" => Len(sent) + 1 \in transcript'
  PROVE  SentAgrees'
<1> USE DEF Prompted
<1>a. sent \in SentType /\ SentAgrees /\ used.turns \in Nat
      /\ \A i \in 1..Len(sent) : sent[i].turn \in Nat
  <2>1. sent \in SentType /\ used \in Counters
    BY ContextTypes DEF ContextInv, TurnInv, QuietInv, TypeInv
  <2>2. \A i \in 1..Len(sent) : sent[i] \in Prompted
    BY <2>1, ElementOfSeq DEF SentType
  <2> QED BY <2>1, <2>2 DEF ContextInv, Counters
<1>1. /\ Len(sent) \in Nat /\ Len(sent') = Len(sent) + 1
      /\ \A i \in 1..Len(sent) : sent'[i] = sent[i]
      /\ sent'[Len(sent) + 1] = e
  BY <1>a, SentLater
<1>2. ASSUME NEW i \in 1..Len(sent')
      PROVE  /\ sent'[i].turn <= used'.turns
             /\ sent'[i].turn # None /\ sent'[i].kind = "user" => i \in transcript'
  <2>1. CASE i \in 1..Len(sent)
    <3>1. sent'[i] = sent[i]
      BY <1>1, <2>1
    <3>2. /\ sent[i].turn <= used.turns
          /\ sent[i].turn # None /\ sent[i].kind = "user" => i \in transcript'
      BY <1>a, <2>1 DEF SentAgrees
    <3> QED BY <1>a, <2>1, <3>1, <3>2
  <2>2. CASE i = Len(sent) + 1
    BY <1>1, <2>2
  <2> QED BY <1>1, <2>1, <2>2
<1> QED BY <1>2 DEF SentAgrees

-----------------------------------------------------------------------------
(* The steps that change a context.                                           *)
LEMMA PromptCarries ==
  ASSUME ContextInv, TurnInv', Prompt
  PROVE  Carried' /\ Grows
<1> USE DEF turnVars
<1>a. /\ TypeOK /\ disk \in Record /\ rec \in Record /\ used \in Counters /\ used.turns \in Nat
      /\ rec.ctx \in Context /\ rec.ctx.msgs \in Seq(Nat) /\ active \in Nat /\ sent \in SentType
      /\ None \in Nat
  BY ContextTypes, NoneType
     DEF ContextInv, TurnInv, QuietInv, TypeInv, TypeOK, ActorType, StoreType, Counters
<1>b. /\ Awake.ctx = rec.ctx /\ AwakeDisk.ctx \in {disk.ctx, rec.ctx}
      /\ Awake \in Record /\ AwakeDisk \in Record
      /\ \A kind : WithPrompt(kind) \in Record
      /\ WithPrompt("resume").ctx = rec.ctx
      /\ \A kind : kind # "resume" =>
           WithPrompt(kind).ctx = [rec.ctx EXCEPT !.msgs = Append(@, Len(sent) + 1)]
  BY <1>a, AwakeContext, AwakeType, WithPromptType
<1>c. active = None => ~Working
  BY DEF ContextInv, TurnInv, TurnAgrees
<1>d. active # None => active <= used.turns
  BY <1>a DEF ContextInv, TurnInv, TurnAgrees
<1>f. Fault => used'.faults # 0 /\ used'.turns = used.turns
  BY <1>a, FaultCounts
<1> DEFINE said(kind, turn, queued) == [kind |-> kind, turn |-> turn, queued |-> queued]
<1>g. \A kind \in Kinds, turn \in Nat, queued \in BOOLEAN : said(kind, turn, queued) \in Prompted
  BY DEF Prompted
(* Nothing starts and nobody is told of a turn. *)
<1>1. ASSUME NEW kind \in Kinds, NEW queued \in BOOLEAN, Answer(kind, None, queued),
             UNCHANGED <<pc, tctx, steer, active, transcript>>, used'.turns = used.turns,
             \/ rec'.ctx = rec.ctx /\ disk'.ctx \in {disk.ctx, rec.ctx}
                /\ (used'.faults = 0 => used.faults = 0)
             \/ /\ active = None /\ rec'.ctx = WithPrompt(kind).ctx
                /\ disk'.ctx \in {disk.ctx, rec.ctx, rec'.ctx} /\ used'.faults # 0
      PROVE  Carried' /\ Grows
  <2> DEFINE e == said(kind, None, queued)
  <2>1. e \in Prompted /\ e.turn = None /\ sent' = Append(sent, e)
    BY <1>a, <1>g, <1>1 DEF Answer
  <2> HIDE DEF e
  <2>2. rec'.ctx = rec.ctx \/ rec'.ctx = [rec.ctx EXCEPT !.msgs = Append(@, Len(sent) + 1)]
    BY <1>b, <1>1 DEF Kinds
  <2>3. StoredSound' /\ Grows
    BY <1>1, <2>1, <2>2, StoredNext
  <2>4. TaskAhead'
    <3>1. CASE rec'.ctx = rec.ctx
      BY <1>1, <2>1, <3>1, TaskNext
    <3>2. CASE active = None
      BY <1>1, <1>c, <3>2 DEF TaskAhead, Working
    <3> QED BY <1>1, <3>1, <3>2
  <2>5. SentAgrees'
    BY <1>a, <1>1, <2>1, SentNext DEF None
  <2> QED BY <2>3, <2>4, <2>5 DEF Carried
<1>2. ASSUME NEW kind \in Kinds, PromptWakeFails(kind)
      PROVE  Carried' /\ Grows
  <2>1. disk'.ctx \in {disk.ctx, rec.ctx} /\ used'.faults # 0 /\ used'.turns = used.turns
    BY <1>a, <1>b, <1>2, SaveFailsContext DEF PromptWakeFails
  <2> QED BY <1>b, <1>1, <1>2, <2>1 DEF PromptWakeFails
<1>3. ASSUME NEW kind \in Kinds, PromptSaveFails(kind)
      PROVE  Carried' /\ Grows
  <2>1. rec' = WithPrompt(kind) /\ rec' \in Record /\ SaveFails(AwakeDisk, rec')
    BY <1>b, <1>3 DEF PromptSaveFails
  <2>2. disk'.ctx \in {AwakeDisk.ctx, rec'.ctx} /\ used'.faults # 0 /\ used'.turns = used.turns
    BY <1>a, <1>b, <2>1, SaveFailsContext
  <2> QED BY <1>b, <1>1, <1>3, <2>1, <2>2 DEF PromptSaveFails
<1>4. CASE PromptRecordFails
  BY <1>f, <1>1, <1>4 DEF PromptRecordFails, Kinds
<1>5. CASE PromptSteerFails
  <2>1. rec'.ctx = rec.ctx /\ disk'.ctx \in {disk.ctx, rec.ctx}
    BY <1>b, <1>5 DEF PromptSteerFails
  <2> QED BY <1>f, <1>1, <1>5, <2>1 DEF PromptSteerFails, Kinds
<1>6. ASSUME NEW kind \in Kinds, PromptStarts(kind)
      PROVE  Carried' /\ Grows
  <2> DEFINE e == said(kind, used.turns + 1, FALSE)
             n == Len(sent) + 1
  <2>1. /\ active = None /\ rec' = WithPrompt(kind) /\ disk' = rec' /\ tctx' = rec'.ctx
        /\ steer' = <<>> /\ pc' = "loop" /\ sent' = Append(sent, e)
        /\ used'.turns = used.turns + 1 /\ active' = used.turns + 1 /\ used'.faults = used.faults
        /\ transcript' = IF kind = "user" THEN transcript \cup {n} ELSE transcript
    <3>1. /\ active = None /\ rec' = WithPrompt(kind) /\ disk' = rec' /\ tctx' = rec'.ctx
          /\ steer' = <<>> /\ pc' = "loop" /\ used' = [used EXCEPT !.turns = @ + 1]
          /\ active' = used'.turns /\ Answer(kind, active', FALSE)
          /\ transcript' = IF kind = "user" THEN transcript \cup {n} ELSE transcript
      BY <1>6 DEF PromptStarts, NextPrompt
    <3>2. used'.turns = used.turns + 1 /\ used'.faults = used.faults
      BY <1>a, <3>1, CountsRest
    <3> QED BY <3>1, <3>2 DEF Answer
  <2>2. e \in Prompted /\ e.turn = used.turns + 1 /\ ~e.queued /\ e.kind = kind
    <3>1. used.turns + 1 \in Nat
      BY <1>a
    <3> QED BY <1>g, <3>1
  <2>3. /\ Len(sent) \in Nat /\ Len(sent') = n /\ n \in Nat /\ sent'[n] = e
        /\ \A i \in 1..Len(sent) : sent'[i] = sent[i]
    BY <1>a, <2>1, <2>2, SentLater DEF Prompted
  <2> HIDE DEF e
  <2>4. Taken(sent, used.turns + 1) = {}
    <3>1. \A i \in 1..Len(sent) : sent[i] \in Prompted
      BY <1>a, ElementOfSeq DEF SentType, Prompted
    <3>2. \A i \in 1..Len(sent) : sent[i].turn \in Nat /\ sent[i].turn <= used.turns
      BY <3>1 DEF ContextInv, SentAgrees, Prompted
    <3> QED BY <1>a, <3>2 DEF Taken
  <2>5. /\ kind = "resume" => rec'.ctx = rec.ctx
        /\ kind # "resume" => rec'.ctx = [rec.ctx EXCEPT !.msgs = Append(@, n)]
    BY <1>b, <2>1
  <2>6. StoredSound' /\ Grows
    BY <2>1, <2>2, <2>4, <2>5, StoredNext
  <2>7. TaskAhead'
    <3>1. rec'.ctx \in Context /\ rec'.ctx.msgs \in Seq(Nat)
      BY <1>b, <2>1 DEF Record, Context
    <3>2. IsPrefix(rec'.ctx.msgs, rec'.ctx.msgs) /\ rec'.ctx.msgs \o <<>> = rec'.ctx.msgs
      BY <1>a, <3>1, PrefixFacts, ConcatEmptySeq
    <3>3. Taken(sent', active') \subseteq ToSet(rec'.ctx.msgs)
      <4>1. Taken(sent', active') \subseteq {n} /\ (kind = "resume" => Taken(sent', active') = {})
        BY <2>1, <2>2, <2>3, <2>4 DEF Taken
      <4>2. kind # "resume" => rec'.ctx.msgs = Append(rec.ctx.msgs, n)
        BY <1>a, <2>5 DEF Context
      <4>3. kind # "resume" => n \in ToSet(rec'.ctx.msgs)
        BY <1>a, <2>3, <4>2, AppendSet
      <4> QED BY <4>1, <4>3
    <3>4. rec'.ctx.folded \in Nat /\ rec'.ctx.folded <= rec'.ctx.folded
      BY <3>1 DEF Context
    <3> QED BY <2>1, <2>6, <3>2, <3>3, <3>4 DEF TaskAhead, StoredSound, Sound
  <2>8. SentAgrees'
    BY <1>a, <2>1, <2>2, SentNext
  <2> QED BY <2>6, <2>7, <2>8 DEF Carried
<1>7. ASSUME NEW kind \in Kinds, PromptSteers(kind)
      PROVE  Carried' /\ Grows
  <2> DEFINE turn == IF pc = "off" THEN None ELSE active
             e == said(kind, turn, TRUE)
             n == Len(sent) + 1
  <2>1. /\ kind # "resume" /\ active # None
        /\ rec'.ctx = rec.ctx /\ disk'.ctx \in {disk.ctx, rec.ctx} /\ UNCHANGED <<pc, tctx, active, used>>
        /\ transcript' = IF kind = "user" THEN transcript \cup {n} ELSE transcript
        /\ sent' = Append(sent, e)
        /\ steer' = IF pc = "off" THEN steer ELSE Append(steer, n)
    BY <1>b, <1>7 DEF PromptSteers, Admits, Answer, NextPrompt
  <2>2. e \in Prompted /\ e.turn = turn /\ e.queued /\ e.kind = kind /\ turn \in Nat
    BY <1>a, <1>g
  <2> HIDE DEF e
  <2>3. StoredSound' /\ Grows
    BY <2>1, <2>2, StoredNext
  <2>4. TaskAhead'
    BY <2>1, <2>2, TaskNext
  <2>5. turn <= used.turns
    BY <1>a, <1>d DEF None
  <2>6. SentAgrees'
    BY <1>a, <2>1, <2>2, <2>5, SentNext
  <2> QED BY <2>3, <2>4, <2>6 DEF Carried
<1> QED BY <1>2, <1>3, <1>4, <1>5, <1>6, <1>7 DEF Prompt

(* A checkpoint the actor handles is the one its task waits for. *)
LEMMA PersistCarries ==
  ASSUME ContextInv, TurnInv', HandlePersist
  PROVE  Carried' /\ Grows
<1>a. /\ TypeOK /\ disk \in Record /\ rec \in Record /\ used \in Counters
      /\ rec.ctx \in Context /\ disk.ctx \in Context /\ tctx \in Context /\ rec.ctx.msgs \in Seq(Nat)
      /\ tctx.msgs \in Seq(Nat) /\ steer \in Seq(Nat) /\ tctx.folded \in Nat /\ disk.ctx.msgs \in Seq(Nat)
      /\ StoredSound /\ TaskAhead /\ SentAgrees /\ CheckpointAgrees
  BY ContextTypes DEF ContextInv, TurnInv, QuietInv, TypeInv, TypeOK, ActorType, StoreType
<1>1. /\ Receives("Persist") /\ UNCHANGED <<active, pc, tctx, steer, sent, transcript>>
  BY DEF HandlePersist, histVars
<1>2. /\ 1 \in At(events, "Persist") /\ events[1].ctx = tctx /\ pc = "saving"
  BY <1>a, <1>1, TakeOwn DEF CheckpointAgrees
<1>3. Head(events).ctx = tctx /\ Working
  BY <1>2 DEF Working
<1> DEFINE updated == [rec EXCEPT !.ctx = tctx]
<1>4. updated \in Record /\ updated.ctx = tctx
  BY <1>a DEF Record
<1>5. \/ rec' = updated /\ disk' = updated /\ UNCHANGED used
      \/ SaveFails(disk, updated) /\ UNCHANGED rec
  BY <1>3 DEF HandlePersist
<1> HIDE DEF updated
<1>6. \/ rec'.ctx = tctx /\ disk'.ctx = tctx /\ used' = used
      \/ rec' = rec /\ disk'.ctx \in {disk.ctx, tctx} /\ used'.faults # 0 /\ used'.turns = used.turns
  BY <1>a, <1>4, <1>5, SaveFailsContext
<1>7. /\ IsPrefix(rec.ctx.msgs, tctx.msgs) /\ rec.ctx.folded <= tctx.folded
      /\ tctx.folded <= Len(tctx.msgs) /\ ~tctx.open /\ Told(tctx.msgs \o steer, sent)
      /\ Taken(sent, active) \subseteq ToSet(tctx.msgs \o steer)
  BY <1>a, <1>2, <1>3 DEF TaskAhead
<1>8. Sound(tctx, sent)
  BY <1>a, <1>7, SoundAhead DEF StoredSound
<1>9. IsPrefix(rec.ctx.msgs, rec.ctx.msgs) /\ IsPrefix(tctx.msgs, tctx.msgs)
      /\ IsPrefix(disk.ctx.msgs, disk.ctx.msgs)
  BY <1>a, PrefixFacts, 0 \in Nat
<1>10. StoredSound'
  BY <1>a, <1>1, <1>6, <1>8 DEF StoredSound
<1>11. TaskAhead'
  BY <1>a, <1>1, <1>6, <1>7, <1>9 DEF TaskAhead
<1>12. SentAgrees'
  BY <1>a, <1>1, <1>6 DEF SentAgrees
<1>13. Grows
  <2>1. rec.ctx.folded \in Nat
    BY <1>a DEF Context
  <2> QED BY <1>a, <1>6, <1>7, <1>9, <2>1 DEF Grows, StoredSound
<1> QED BY <1>10, <1>11, <1>12, <1>13 DEF Carried

(* A compaction that is applied folds what the record carries. *)
LEMMA CompactedCarries ==
  ASSUME ContextInv, TurnInv', HandleCompacted
  PROVE  Carried' /\ Grows
<1>a. /\ TypeOK /\ disk \in Record /\ rec \in Record /\ used \in Counters
      /\ rec.ctx \in Context /\ rec.ctx.msgs \in Seq(Nat) /\ disk.ctx.msgs \in Seq(Nat)
      /\ rec.ctx.folded \in Nat
      /\ StoredSound /\ SentAgrees /\ CopyAgrees /\ CompactionAgrees
  BY ContextTypes DEF ContextInv, TurnInv, QuietInv, TypeInv, TypeOK, ActorType, StoreType
<1>1. /\ Receives("Compacted") /\ alive /\ comp # None /\ comp' = None
      /\ UNCHANGED <<active, pc, tctx, steer, sent, transcript>>
  BY DEF HandleCompacted, Receives, turnVars, histVars
<1>2. 1 \in At(events, "Compacted")
  BY <1>a, <1>1, TakeOwn DEF CompactionAgrees
<1> DEFINE f == Folded(rec.ctx)
           updated == [rec EXCEPT !.ctx = f]
<1>3. Head(events).ctx = f
  BY <1>a, <1>1, <1>2 DEF CopyAgrees
<1>4. f \in Context /\ f.msgs = rec.ctx.msgs /\ rec.ctx.folded <= f.folded /\ Sound(f, sent)
  BY <1>a, FoldedType, SoundFolded DEF StoredSound
<1>5. updated \in Record /\ updated.ctx = f
  BY <1>a, <1>4 DEF Record
<1>6. \/ rec' = updated /\ disk' = updated /\ UNCHANGED used
      \/ SaveFails(disk, updated) /\ UNCHANGED rec
      \/ UNCHANGED <<rec, disk, used>>
  BY <1>3 DEF HandleCompacted
<1> HIDE DEF updated, f
<1>7. \/ rec'.ctx = f /\ disk'.ctx = f /\ used' = used
      \/ rec' = rec /\ disk'.ctx \in {disk.ctx, f} /\ used'.faults # 0 /\ used'.turns = used.turns
      \/ UNCHANGED <<rec, disk, used>>
  BY <1>a, <1>5, <1>6, SaveFailsContext
<1>8. ~Working'
  <2>1. active = None /\ ~Working
    BY <1>1 DEF ContextInv, TurnInv, QuietInv, IdleIsQuiet, TurnAgrees
  <2> QED BY <1>1, <2>1 DEF Working
<1>9. IsPrefix(rec.ctx.msgs, rec.ctx.msgs) /\ IsPrefix(disk.ctx.msgs, disk.ctx.msgs)
  BY <1>a, PrefixFacts, 0 \in Nat
<1>10. StoredSound'
  BY <1>a, <1>1, <1>4, <1>7 DEF StoredSound
<1>11. TaskAhead'
  BY <1>8 DEF TaskAhead
<1>12. SentAgrees'
  BY <1>a, <1>1, <1>7 DEF SentAgrees
<1>13. Grows
  BY <1>a, <1>4, <1>7, <1>9 DEF Grows, StoredSound
<1> QED BY <1>10, <1>11, <1>12, <1>13 DEF Carried

LEMMA TurnCarries ==
  ASSUME ContextInv, TurnInv', TurnStep
  PROVE  Carried' /\ Grows
<1>a. /\ TypeInv /\ TypeOK /\ used \in Counters
      /\ rec.ctx \in Context /\ tctx \in Context /\ rec.ctx.msgs \in Seq(Nat)
      /\ tctx.msgs \in Seq(Nat) /\ steer \in Seq(Nat) /\ tctx.folded \in Nat /\ disk.ctx.msgs \in Seq(Nat)
      /\ rec.ctx.folded \in Nat /\ StoredSound /\ TaskAhead /\ SentAgrees
  BY ContextTypes DEF ContextInv, TurnInv, QuietInv, TypeInv
<1>1. /\ UNCHANGED <<active, rec, disk, sent, transcript>>
      /\ used'.turns = used.turns /\ used'.faults = used.faults
  BY <1>a, CountsNoTurn, CountsRest
     DEF TurnStep, LoopCancelled, BeginStep, MaybeCompact, CompactInTurn, ReplyWithoutTools,
         ReplyWithTools, RetryModel, RecoverModel, FailModel, Backoff, AskPermission, TakeDecision,
         EndBatch, Saved, SaveLost, DropTurn, turnFrame, storeVars, histVars, Round
<1>2. StoredSound' /\ SentAgrees'
  BY <1>a, <1>1 DEF StoredSound, SentAgrees
<1>3. Grows
  <2>1. IsPrefix(rec.ctx.msgs, rec.ctx.msgs) /\ IsPrefix(disk.ctx.msgs, disk.ctx.msgs)
    BY <1>a, PrefixFacts, 0 \in Nat
  <2> QED BY <1>a, <1>1, <2>1 DEF Grows
<1>4. TaskAhead'
  <2>1. Ended \/ GoesOn \/ Persists
    BY <1>a, TurnStepEffect
  <2>2. Working' => Working
    BY <1>a, TurnStepEffect DEF Working
  <2> SUFFICES ASSUME Working', Working PROVE TaskAhead'
    BY <2>2 DEF TaskAhead
  <2>3. /\ IsPrefix(rec.ctx.msgs, tctx.msgs) /\ rec.ctx.folded <= tctx.folded
        /\ tctx.folded <= Len(tctx.msgs) /\ Told(tctx.msgs \o steer, sent)
        /\ Taken(sent, active) \subseteq ToSet(tctx.msgs \o steer)
        /\ pc \notin {"tools", "asking"} => ~tctx.open
    BY <1>a DEF TaskAhead
  <2>4. CASE GoesOn
    <3>1. pc' \notin {"tools", "asking"} => ~tctx'.open
      BY <2>3, <2>4 DEF GoesOn
    <3> QED BY <1>1, <2>3, <2>4, <3>1 DEF GoesOn, TaskAhead
  <2>5. CASE Persists
    <3>1. ~tctx'.open
      BY <2>3, <2>5 DEF Persists
    <3>2. Len(tctx.msgs) \in Nat /\ Len(steer) \in Nat
      BY <1>a, LenProperties
    <3>3. CASE tctx'.msgs = tctx.msgs \o steer /\ steer' = <<>> /\ tctx'.folded = tctx.folded
      <4> DEFINE m == tctx.msgs \o steer
      <4>1. m \in Seq(Nat) /\ Len(m) = Len(tctx.msgs) + Len(steer) /\ m \o <<>> = m
        BY <1>a, ConcatProperties, ConcatEmptySeq
      <4>2. IsPrefix(tctx.msgs, m)
        BY <1>a, PrefixFacts, 0 \in Nat
      <4>3. IsPrefix(rec.ctx.msgs, m)
        BY <1>a, <2>3, <4>1, <4>2, PrefixChain
      <4>4. tctx.folded <= Len(m)
        BY <1>a, <2>3, <3>2, <4>1
      <4>5. tctx'.msgs = m /\ tctx'.msgs \o steer' = m
        BY <3>3, <4>1
      <4> HIDE DEF m
      <4>6. Told(m, sent) /\ Taken(sent, active) \subseteq ToSet(m)
        BY <2>3 DEF m
      <4> QED BY <1>1, <2>3, <3>1, <3>3, <4>3, <4>4, <4>5, <4>6 DEF TaskAhead
    <3>4. CASE /\ tctx'.msgs = tctx.msgs /\ UNCHANGED steer
               /\ tctx'.folded \in {tctx.folded, Len(tctx.msgs)}
      <4>1. rec.ctx.folded <= tctx'.folded /\ tctx'.folded <= Len(tctx.msgs)
        BY <1>a, <2>3, <3>2, <3>4
      <4> QED BY <1>1, <2>3, <3>1, <3>4, <4>1 DEF TaskAhead
    <3> QED BY <2>5, <3>3, <3>4 DEF Persists
  <2> QED BY <2>1, <2>4, <2>5 DEF Ended
<1> QED BY <1>2, <1>3, <1>4 DEF Carried

LEMMA SpawnCarries ==
  ASSUME ContextInv, TurnInv', Spawn
  PROVE  Carried' /\ Grows
<1>a. /\ used \in Counters /\ disk.ctx.msgs \in Seq(Nat) /\ StoredSound /\ SentAgrees
  BY ContextTypes DEF ContextInv, TurnInv, QuietInv, TypeInv
<1>1. /\ rec' = disk /\ ~Working' /\ UNCHANGED <<disk, sent, transcript>>
      /\ used'.turns = used.turns /\ used'.spawns # used.spawns
  BY <1>a, CountsNoTurn, CountsRest DEF Spawn, Working, storeVars
<1>2. IsPrefix(disk.ctx.msgs, disk.ctx.msgs)
  BY <1>a, PrefixFacts, 0 \in Nat
<1> QED BY <1>a, <1>1, <1>2 DEF Carried, StoredSound, TaskAhead, SentAgrees, Grows

LEMMA ContextStep ==
  ASSUME ContextInv, [Next]_vars
  PROVE  ContextInv' /\ Grows
<1> USE DEF vars, actorVars, turnVars, compVars, storeVars, histVars, turnFrame
<1>a. /\ TypeOK /\ TurnInv' /\ CheckpointAgrees' /\ CopyAgrees'
      /\ rec \in Record /\ disk \in Record /\ used \in Counters
  BY TurnInvStep, CheckpointStep, CopyStep
     DEF ContextInv, TurnInv, QuietInv, TypeInv, TypeOK, ActorType, StoreType, HistoryType
<1>f. Fault => used'.faults # 0 /\ used'.turns = used.turns
  BY <1>a, FaultCounts
<1>s. SaveFails(disk, rec) =>
        disk'.ctx \in {disk.ctx, rec.ctx} /\ used'.faults # 0 /\ used'.turns = used.turns
  BY <1>a, SaveFailsContext
<1> SUFFICES Carried' /\ Grows
  BY <1>a DEF ContextInv, Carried
<1>1. CASE \/ Cancel \/ HandleAsk \/ HandleExpired \/ CompactionTask \/ Tick \/ TimerFires
           \/ \E ask \in 1..MaxAsks, allow \in BOOLEAN : RespondPermission(ask, allow)
           \/ \E c \in Callers : UnloadRefused(c) \/ UnloadDeferred(c)
           \/ UNCHANGED vars
  <2>1. UNCHANGED <<pc, tctx, steer, sent, transcript, used, active, rec, disk>>
    BY <1>1 DEF Cancel, HandleAsk, HandleExpired, CompactionTask, Tick, TimerFires,
                RespondPermission, UnloadRefused, UnloadDeferred
  <2> QED BY <1>a, <2>1, CalmContext
<1>2. CASE Compact
  <2>1. /\ UNCHANGED <<pc, tctx, steer, sent, transcript, active, rec>> /\ disk' = rec
        /\ used'.turns = used.turns /\ used'.faults = used.faults
    BY <1>a, <1>2, CountsNoTurn, CountsRest DEF Compact
  <2> QED BY <1>a, <2>1, CalmContext
<1>3. CASE Keep
  <2>1. /\ UNCHANGED <<pc, tctx, steer, sent, transcript, active, used>>
        /\ rec'.ctx = rec.ctx /\ disk'.ctx = rec.ctx
    BY <1>a, <1>3 DEF Keep, Record
  <2> QED BY <1>a, <2>1, CalmContext
<1>4. CASE KeepOrCompactFails
  <2>1. /\ UNCHANGED <<pc, tctx, steer, sent, transcript, active, rec>>
        /\ SaveFails(disk, rec)
    BY <1>4 DEF KeepOrCompactFails
  <2> QED BY <1>a, <1>s, <2>1, CalmContext
<1>5. CASE HandleCompactedClosing \/ \E c \in Callers : UnloadNow(c)
  <2>1. /\ UNCHANGED <<pc, tctx, steer, sent, transcript, rec>> /\ active' = None
        /\ (disk' = rec /\ UNCHANGED used) \/ SaveFails(disk, rec)
    BY <1>5 DEF HandleCompactedClosing, UnloadNow, Stop
  <2> QED BY <1>a, <1>s, <2>1, CalmContext
<1>6. CASE HandleExpiredDeletes
  <2>1. /\ UNCHANGED <<pc, tctx, steer, sent, transcript, rec, disk>> /\ active' = None
        /\ UNCHANGED used \/ Fault
    BY <1>6 DEF HandleExpiredDeletes, Stop
  <2> QED BY <1>a, <1>f, <2>1, CalmContext
<1>7. CASE HandleFinished \/ HandleFinishedClosing
  <2>1. /\ UNCHANGED <<pc, tctx, steer, sent, transcript>> /\ active' = None
        /\ rec'.ctx = rec.ctx
        /\ \/ disk' = rec' /\ UNCHANGED used
           \/ SaveFails(disk, rec') \/ SaveFails(rec', rec')
    BY <1>a, <1>7, SettledContext DEF HandleFinished, HandleFinishedClosing, Stop
  <2>2. rec' \in Record
    BY <1>a DEF TurnInv, QuietInv, TypeInv, TypeOK, ActorType
  <2>3. disk'.ctx \in {disk.ctx, rec.ctx} /\ used'.turns = used.turns
        /\ (used'.faults = 0 => used.faults = 0)
    <3>1. CASE disk' = rec' /\ UNCHANGED used
      BY <2>1, <3>1
    <3>2. CASE SaveFails(disk, rec')
      BY <1>a, <2>1, <2>2, <3>2, SaveFailsContext
    <3>3. CASE SaveFails(rec', rec')
      BY <1>a, <2>1, <2>2, <3>3, SaveFailsContext
    <3> QED BY <2>1, <3>1, <3>2, <3>3
  <2> QED BY <1>a, <2>1, <2>3, CalmContext
<1>8. CASE Prompt \/ HandlePersist \/ HandleCompacted \/ TurnStep \/ Spawn
  BY <1>a, <1>8, PromptCarries, PersistCarries, CompactedCarries, TurnCarries, SpawnCarries
<1> QED
  BY <1>1, <1>2, <1>3, <1>4, <1>5, <1>6, <1>7, <1>8 DEF Next, HandleEvent, Unload

LEMMA ContextInit == Init => ContextInv
<1> SUFFICES ASSUME Init PROVE ContextInv
  OBVIOUS
<1>1. Len(sent) = 0 /\ sent = <<>> /\ events = <<>> /\ rec.ctx = EmptyContext /\ disk.ctx = EmptyContext
  BY EmptySeq DEF Init
<1>2. At(events, "Persist") = {}
  BY <1>1 DEF At
<1>3. Sound(EmptyContext, <<>>)
  <2>1. ToSet(<<>>) = {} /\ Len(<<>>) = 0
    BY DEF ToSet
  <2> QED BY <2>1 DEF Sound, EmptyContext, Told, InOrder, Unbroken, Acked
<1> QED BY <1>1, <1>2, <1>3, TurnInit
        DEF Init, ContextInv, StoredSound, TaskAhead, CheckpointAgrees, CopyAgrees, SentAgrees,
            AtMostOne, Working

LEMMA ContextInvariant == Spec => []ContextInv
<1>1. ContextInv /\ [Next]_vars => ContextInv'
  BY ContextStep
<1> QED BY ContextInit, <1>1, PTL DEF Spec

-----------------------------------------------------------------------------
(* Every context a later request is built from, in memory or on disk, can be  *)
(* sent, and carries what was asked in the order in which it was asked.       *)
THEOREM ContextCorrect == Spec => []ContextIsSound
<1>1. ContextInv => ContextIsSound
  BY DEF ContextInv, StoredSound, Sound, Told, InOrder, ContextIsSound, ContextsClosed,
         ContextInOrder
<1> QED BY <1>1, ContextInvariant, PTL

(* What the actor believes of its tasks is true, and no prompt of a turn      *)
(* overtakes another one into the context.                                    *)
THEOREM TurnsCorrect == Spec => []TurnsHold
<1>1. ContextInv => NoOvertaking
  BY DEF ContextInv, StoredSound, Sound, Told, Unbroken, Follows, NoOvertaking
<1>2. NoOvertaking /\ TurnTracked => TurnsHold
  BY DEF TurnsHold
<1> QED BY <1>1, <1>2, ContextInvariant, TurnCorrect, PTL

(* A prompt that was acknowledged as the start of a turn is in the saved      *)
(* context from then on, and one of a user in the transcript, over failed     *)
(* saves, compactions, later turns and restarts.                              *)
THEOREM DurableCorrect == Spec => []AcknowledgedIsDurable
<1>1. ContextInv => AcknowledgedIsDurable
  BY DEF ContextInv, StoredSound, Sound, Acked, SentAgrees, AcknowledgedIsDurable
<1> QED BY <1>1, ContextInvariant, PTL

(* No step brings back a copy that is behind, and a cancelled compaction      *)
(* leaves no mark.                                                            *)
THEOREM NeverReverts == Spec => ContextNeverReverts
<1>1. ContextInv /\ [Next]_vars => Grows
  BY ContextStep
<1> DEFINE Dropped == comp # None /\ ctoken /\ comp' = None /\ used'.spawns = used.spawns
                        => rec'.ctx = rec.ctx
<1>2. ContextInv /\ [Next]_vars => Dropped
  <2> SUFFICES ASSUME ContextInv, [Next]_vars, comp # None, ctoken, comp' = None,
                      used'.spawns = used.spawns
               PROVE  rec'.ctx = rec.ctx
    OBVIOUS
  <2>a. TypeOK /\ used \in Counters
    BY DEF ContextInv, TurnInv, QuietInv, TypeInv, TypeOK, HistoryType
  <2>1. \/ UNCHANGED comp \/ HandleCompacted \/ Spawn \/ Compact
        \/ HandleFinishedClosing \/ HandleCompactedClosing \/ HandleExpiredDeletes
        \/ \E c \in Callers : UnloadNow(c)
    BY DEF Next, vars, actorVars, turnFrame, Prompt, PromptWakeFails, PromptSaveFails,
           PromptRecordFails, PromptStarts, PromptSteers, PromptSteerFails, Cancel,
           RespondPermission, Unload, UnloadRefused, UnloadDeferred, Keep, KeepOrCompactFails,
           HandleEvent, HandlePersist, HandleAsk, HandleFinished, HandleExpired,
           TurnStep, LoopCancelled, BeginStep, MaybeCompact, CompactInTurn, ReplyWithoutTools,
           ReplyWithTools, RetryModel, RecoverModel, FailModel, Backoff, AskPermission,
           TakeDecision, EndBatch, Saved, SaveLost, DropTurn, CompactionTask, Tick, TimerFires
  <2>2. CASE UNCHANGED comp
    BY <2>2
  <2>3. CASE HandleCompacted
    BY <2>3 DEF HandleCompacted, Applies
  <2>4. CASE Spawn
    BY <2>a, <2>4, CountsRest DEF Spawn
  <2>5. CASE HandleFinishedClosing
    BY <2>a, <2>5, SettledContext DEF HandleFinishedClosing
  <2>6. CASE Compact \/ HandleCompactedClosing \/ HandleExpiredDeletes \/ \E c \in Callers : UnloadNow(c)
    BY <2>6 DEF Compact, HandleCompactedClosing, HandleExpiredDeletes, UnloadNow
  <2> QED BY <2>1, <2>2, <2>3, <2>4, <2>5, <2>6
<1>3. Spec => [][Grows]_vars
  BY <1>1, ContextInvariant, PTL DEF Spec
<1>4. Spec => [][Dropped]_vars
  <2> HIDE DEF Dropped
  <2> QED BY <1>2, ContextInvariant, PTL DEF Spec
<1> QED BY <1>3, <1>4, PTL
        DEF ContextNeverReverts, ContextGrows, CancelledCompactionDropped, Grows
=============================================================================
