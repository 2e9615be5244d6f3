------------------------- MODULE SessionActorProofs -------------------------
(* SessionActor, for every value of its constants: its types, that only what  *)
(* was approved runs (OnlyApprovedRun), that an idle phase is quiet           *)
(* (IdleIsQuiet) and that an unload is answered (UnloadOwed). Then the actor  *)
(* implements SessionContract: the initial state is one of the contract, and  *)
(* every step of the actor, its tasks and its repository is a step of it or   *)
(* none at all.                                                               *)
EXTENDS SessionRefinement, SequenceTheorems, TLAPS

(* A turn that waits for a decision has asked for one. *)
AskCounted == pc = "asking" => used.asks # 0

TypeInv == TypeOK /\ AskCounted

-----------------------------------------------------------------------------
(* The helpers of the turn task keep the types.                            *)

LEMMA SendType ==
  ASSUME TypeOK, NEW e \in Event, Send(e)
  PROVE  events' \in Seq(Event)
BY DEF TypeOK, ChannelType, Send

LEMMA CheckpointType ==
  ASSUME TypeOK, NEW c \in Context, NEW next \in Conts, Checkpoint(c, next)
  PROVE  /\ events' \in Seq(Event)
         /\ tctx' \in Context /\ pc' = "saving" /\ then' \in Conts /\ saved' = "none"
<1>1. [type |-> "Persist", ctx |-> c] \in Event
  BY DEF Event
<1> QED BY <1>1, SendType DEF Checkpoint

LEMMA SettleType ==
  ASSUME TypeOK, NEW c \in Context, NEW next \in Conts, Settle(c, next)
  PROVE  /\ events' \in Seq(Event) /\ steer' = <<>>
         /\ tctx' \in Context /\ pc' = "saving" /\ then' \in Conts /\ saved' = "none"
<1>1. c.msgs \in Seq(Nat) /\ steer \in Seq(Nat)
  BY DEF TypeOK, ChannelType, Context
<1>2. c.msgs \o steer \in Seq(Nat)
  BY <1>1, ConcatProperties
<1>3. [c EXCEPT !.msgs = @ \o steer] \in Context
  BY <1>2 DEF Context
<1> QED BY <1>3, CheckpointType DEF Settle

LEMMA FinishType ==
  ASSUME TypeOK, NEW o \in Outcomes, Finish(o)
  PROVE  events' \in Seq(Event) /\ pc' = "done"
<1>1. [type |-> "Finished", turn |-> used.turns, outcome |-> o] \in Event
  BY DEF Event, TypeOK, HistoryType, Counters
<1> QED BY <1>1, SendType DEF Finish

LEMMA FailureType == Failure \in Outcomes
BY DEF Failure, Outcomes

LEMMA EmptyContextType == EmptyContext \in Context
BY DEF EmptyContext, Context

(* Counting one more of something keeps the type of the counters. *)
LEMMA CountType ==
  ASSUME NEW u \in Counters
  PROVE  /\ [u EXCEPT !.turns = @ + 1] \in Counters
         /\ [u EXCEPT !.rounds = @ + 1] \in Counters
         /\ [u EXCEPT !.comps = @ + 1] \in Counters
         /\ [u EXCEPT !.faults = @ + 1] \in Counters
         /\ [u EXCEPT !.spawns = @ + 1] \in Counters
<1>1. [u EXCEPT !.turns = @ + 1] \in Counters
  BY DEF Counters
<1>2. [u EXCEPT !.rounds = @ + 1] \in Counters
  BY DEF Counters
<1>3. [u EXCEPT !.comps = @ + 1] \in Counters
  BY DEF Counters
<1>4. [u EXCEPT !.faults = @ + 1] \in Counters
  BY DEF Counters
<1>5. [u EXCEPT !.spawns = @ + 1] \in Counters
  BY DEF Counters
<1> QED BY <1>1, <1>2, <1>3, <1>4, <1>5

LEMMA AskCountType ==
  ASSUME NEW u \in Counters, u.asks < MaxAsks
  PROVE  /\ [u EXCEPT !.asks = @ + 1] \in Counters
         /\ [u EXCEPT !.asks = @ + 1].asks \in 1..MaxAsks
BY BoundsAssumption DEF Counters

LEMMA FoldedType ==
  ASSUME NEW c \in Context
  PROVE  Folded(c) \in Context
<1>1. Len(c.msgs) \in Nat
  BY LenProperties DEF Context
<1> QED BY <1>1 DEF Folded, Context

(* What a step of the turn task leaves alone keeps its type. *)
LEMMA TurnFrameType ==
  ASSUME TypeOK, UNCHANGED turnFrame
  PROVE  ActorType' /\ CompactionType' /\ StoreType'
BY DEF TypeOK, ActorType, CompactionType, StoreType, turnFrame, compVars, storeVars

-----------------------------------------------------------------------------

(* A freshly created session's actor starts with every variable in its type. *)
THEOREM InitType == Init => TypeInv
<1> SUFFICES ASSUME Init PROVE TypeInv
  OBVIOUS
<1>1. rec \in Record
  BY EphemeralAssumption, EmptyContextType DEF Init, Record, None
<1>2. used \in Counters
  BY BoundsAssumption DEF Init, Counters
<1>3. ActorType
  BY <1>1, BoundsAssumption DEF Init, ActorType, Phases, None
<1>4. ChannelType
  BY DEF Init, ChannelType
<1>5. TurnType
  BY EmptyContextType DEF Init, TurnType, Labels, Conts
<1>6. CompactionType /\ StoreType
  BY <1>1, EmptyContextType DEF Init, CompactionType, StoreType, None
<1>7. HistoryType
  <2>1. sent \in Seq([kind : Kinds, turn : Nat, queued : BOOLEAN])
    BY EmptySeq DEF Init
  <2>2. ended \in Seq(Outcomes \cup {"running"})
    BY EmptySeq DEF Init
  <2> QED BY <1>2, <2>1, <2>2 DEF Init, HistoryType
<1> QED BY <1>3, <1>4, <1>5, <1>6, <1>7 DEF TypeInv, TypeOK, AskCounted, Init

(* A step of the turn task that asks for nothing and counts nothing keeps   *)
(* the types, if what it writes has them.                                   *)
LEMMA TurnMove ==
  ASSUME TypeInv,
         UNCHANGED <<turnFrame, recovered, token, verdict, used, histVars>>,
         events' \in Seq(Event), steer' \in Seq(Nat), tctx' \in Context, then' \in Conts,
         pc' \in Labels \ {"asking"}, saved' \in {"none", "ok", "err"}
  PROVE  TypeInv'
<1>1. ActorType' /\ CompactionType' /\ StoreType'
  BY TurnFrameType DEF TypeInv
<1>2. ChannelType' /\ TurnType'
  BY DEF TypeInv, TypeOK, ChannelType, TurnType
<1>3. HistoryType'
  BY DEF turnFrame, histVars, TypeInv, TypeOK, HistoryType
<1> QED BY <1>1, <1>2, <1>3 DEF TypeInv, TypeOK, AskCounted

LEMMA TurnStepType ==
  ASSUME TypeInv, TurnStep
  PROVE  TypeInv'
<1> USE DEF turnFrame, storeVars, compVars, histVars
<1>1. CASE LoopCancelled
  BY <1>1, FinishType, TurnFrameType
     DEF LoopCancelled, TypeInv, TypeOK, AskCounted, ChannelType, TurnType, HistoryType, Outcomes,
         Labels
<1>2. CASE BeginStep
  <2>1. tctx \in Context
    BY DEF TypeInv, TypeOK, TurnType
  <2>2. CASE Finish(Failure) /\ UNCHANGED <<then, tctx, saved>>
    <3>1. events' \in Seq(Event) /\ pc' = "done"
      BY <2>2, FinishType, FailureType DEF TypeInv
    <3> QED
      BY <1>2, <2>2, <3>1, TurnMove
         DEF BeginStep, TypeInv, TypeOK, ChannelType, TurnType, Labels
  <2>3. CASE Checkpoint(tctx, "fit")
    <3>1. /\ events' \in Seq(Event)
          /\ tctx' \in Context /\ pc' = "saving" /\ then' \in Conts /\ saved' = "none"
      BY <2>1, <2>3, CheckpointType DEF Conts, TypeInv
    <3> QED BY <1>2, <3>1, TurnMove DEF BeginStep, TypeInv, TypeOK, ChannelType, TurnType, Labels
  <2>4. CASE pc' = "fit" /\ UNCHANGED <<events, then, tctx, saved>>
    BY <1>2, <2>4, TurnMove DEF BeginStep, TypeInv, TypeOK, ChannelType, TurnType, Labels
  <2> QED BY <1>2, <2>2, <2>3, <2>4 DEF BeginStep
<1>3. CASE MaybeCompact
  BY <1>3, TurnFrameType
     DEF MaybeCompact, TypeInv, TypeOK, AskCounted, ChannelType, TurnType, HistoryType, Labels
<1>4. CASE CompactInTurn
  <2>1. tctx \in Context /\ Folded(tctx) \in Context
    BY FoldedType DEF TypeInv, TypeOK, TurnType
  <2>2. ASSUME NEW c \in Context, NEW next \in Conts, Checkpoint(c, next)
        PROVE  TypeInv'
    <3>1. /\ events' \in Seq(Event)
          /\ tctx' \in Context /\ pc' = "saving" /\ then' \in Conts /\ saved' = "none"
      BY <2>2, CheckpointType DEF TypeInv
    <3> QED
      BY <1>4, <3>1, TurnMove
         DEF CompactInTurn, TypeInv, TypeOK, ChannelType, TurnType, Labels
  <2>3. CASE tctx' = EmptyContext /\ Finish(Failure) /\ UNCHANGED <<then, saved>>
    <3>1. events' \in Seq(Event) /\ pc' = "done" /\ tctx' \in Context
      BY <2>3, FinishType, FailureType, EmptyContextType DEF TypeInv
    <3> QED
      BY <1>4, <2>3, <3>1, TurnMove
         DEF CompactInTurn, TypeInv, TypeOK, ChannelType, TurnType, Labels
  <2> QED BY <1>4, <2>1, <2>2, <2>3 DEF CompactInTurn, Conts
<1>5. CASE ReplyWithoutTools
  <2>1. tctx \in Context
    BY DEF TypeInv, TypeOK, TurnType
  <2> QED
    BY <1>5, <2>1, SettleType, EmptySeq, TurnFrameType
       DEF ReplyWithoutTools, TypeInv, TypeOK, AskCounted, ChannelType, TurnType, HistoryType,
           Labels, Conts
<1>6. CASE ReplyWithTools
  <2>1. used' \in Counters
    BY <1>6, CountType DEF ReplyWithTools, Round, TypeInv, TypeOK, HistoryType
  <2>2. tctx' \in Context
    BY <1>6 DEF ReplyWithTools, Context, TypeInv, TypeOK, TurnType
  <2> QED
    BY <1>6, <2>1, <2>2, TurnFrameType
       DEF ReplyWithTools, TypeInv, TypeOK, AskCounted, ChannelType, TurnType, HistoryType, Labels
<1>7. CASE RetryModel
  <2>1. used' \in Counters
    BY <1>7, CountType DEF RetryModel, Round, TypeInv, TypeOK, HistoryType
  <2>2. tctx \in Context
    BY DEF TypeInv, TypeOK, TurnType
  <2> QED
    BY <1>7, <2>1, <2>2, SettleType, EmptySeq, TurnFrameType
       DEF RetryModel, TypeInv, TypeOK, AskCounted, ChannelType, TurnType, HistoryType, Labels,
           Conts
<1>8. CASE RecoverModel
  <2>1. used' \in Counters
    BY <1>8, CountType DEF RecoverModel, Round, TypeInv, TypeOK, HistoryType
  <2> QED
    BY <1>8, <2>1, TurnFrameType
       DEF RecoverModel, TypeInv, TypeOK, AskCounted, ChannelType, TurnType, HistoryType, Labels
<1>9. CASE FailModel
  BY <1>9, FinishType, FailureType, TurnFrameType
     DEF FailModel, TypeInv, TypeOK, AskCounted, ChannelType, TurnType, HistoryType, Labels
<1>10. CASE Backoff
  <2>1. tctx \in Context
    BY DEF TypeInv, TypeOK, TurnType
  <2>2. CASE Finish("cancelled") /\ UNCHANGED <<steer, then, tctx, saved>>
    <3>1. events' \in Seq(Event) /\ pc' = "done"
      BY <2>2, FinishType DEF Outcomes, TypeInv
    <3> QED
      BY <1>10, <2>2, <3>1, TurnMove
         DEF Backoff, TypeInv, TypeOK, ChannelType, TurnType, Labels
  <2>3. CASE Settle(tctx, "model")
    <3>1. /\ events' \in Seq(Event) /\ steer' \in Seq(Nat)
          /\ tctx' \in Context /\ pc' = "saving" /\ then' \in Conts /\ saved' = "none"
      BY <2>1, <2>3, SettleType, EmptySeq DEF Conts, TypeInv
    <3> QED BY <1>10, <3>1, TurnMove DEF Backoff, TypeInv, TypeOK, ChannelType, TurnType, Labels
  <2>4. CASE pc' = "model" /\ UNCHANGED <<events, steer, then, tctx, saved>>
    BY <1>10, <2>4, TurnMove DEF Backoff, TypeInv, TypeOK, ChannelType, TurnType, Labels
  <2> QED BY <1>10, <2>2, <2>3, <2>4 DEF Backoff
<1>11. CASE AskPermission
  <2>1. used' \in Counters /\ used'.asks \in 1..MaxAsks
    BY <1>11, AskCountType DEF AskPermission, TypeInv, TypeOK, HistoryType
  <2>2. [type |-> "Ask", turn |-> used.turns, ask |-> used'.asks] \in Event
    BY <2>1 DEF Event, TypeInv, TypeOK, HistoryType, Counters
  <2>3. events' \in Seq(Event)
    BY <1>11, <2>2, SendType DEF AskPermission, TypeInv
  <2> QED
    BY <1>11, <2>1, <2>3, TurnFrameType
       DEF AskPermission, TypeInv, TypeOK, AskCounted, ChannelType, TurnType, HistoryType, Labels
<1>12. CASE TakeDecision
  <2>1. used.asks \in 1..MaxAsks
    BY <1>12, BoundsAssumption
       DEF TakeDecision, TypeInv, AskCounted, TypeOK, HistoryType, Counters
  <2> QED
    BY <1>12, <2>1, TurnFrameType
       DEF TakeDecision, TypeInv, TypeOK, AskCounted, ChannelType, TurnType, HistoryType, Labels
<1>13. CASE EndBatch
  <2>1. WithResults(tctx) \in Context
    BY DEF WithResults, TypeInv, TypeOK, TurnType, Context
  <2> QED
    BY <1>13, <2>1, SettleType, EmptySeq, TurnFrameType
       DEF EndBatch, TypeInv, TypeOK, AskCounted, ChannelType, TurnType, HistoryType, Labels, Conts
<1>14. CASE Saved
  <2>1. events' \in Seq(Event) /\ pc' \in {"done", "loop", "fit", "model", "backoff"}
    BY <1>14, FinishType, FailureType
       DEF Saved, TypeInv, TypeOK, ChannelType, TurnType, Outcomes, Conts
  <2> QED
    BY <1>14, <2>1, TurnFrameType
       DEF Saved, TypeInv, TypeOK, AskCounted, ChannelType, TurnType, HistoryType, Labels
<1>15. CASE SaveLost
  BY <1>15, FinishType, FailureType, TurnFrameType
     DEF SaveLost, TypeInv, TypeOK, AskCounted, ChannelType, TurnType, HistoryType, Labels
<1>16. CASE DropTurn
  BY <1>16, TurnFrameType
     DEF DropTurn, TypeInv, TypeOK, AskCounted, ChannelType, TurnType, HistoryType, Labels
<1> QED
  BY <1>1, <1>2, <1>3, <1>4, <1>5, <1>6, <1>7, <1>8, <1>9, <1>10, <1>11, <1>12, <1>13, <1>14,
     <1>15, <1>16 DEF TurnStep

-----------------------------------------------------------------------------
(* The helpers of the actor keep the types.                                *)

SentType == Seq([kind : Kinds, turn : Nat, queued : BOOLEAN])
EndedType == Seq(Outcomes \cup {"running"})

LEMMA FaultType ==
  ASSUME TypeOK, Fault
  PROVE  used' \in Counters /\ used'.asks = used.asks
<1>1. used \in Counters /\ used' = [used EXCEPT !.faults = @ + 1]
  BY DEF TypeOK, HistoryType, Fault
<1> QED BY <1>1, CountType DEF Counters

LEMMA SaveFailsType ==
  ASSUME TypeOK, NEW from \in Record, NEW r \in Record, SaveFails(from, r)
  PROVE  disk' \in Record /\ used' \in Counters /\ used'.asks = used.asks
<1>1. [from EXCEPT !.ctx = r.ctx] \in Record
  BY DEF Record
<1> QED BY <1>1, FaultType DEF SaveFails

LEMMA RejectType ==
  ASSUME TypeOK, RejectPending
  PROVE  pending' = None /\ verdict' \in [1..MaxAsks -> {"none", "allow", "deny"}]
BY DEF TypeOK, TurnType, RejectPending

LEMMA NoneType == None \in Nat /\ None \in 0..MaxAsks
BY BoundsAssumption DEF None

LEMMA StopType ==
  ASSUME TypeOK, Stop, rec' \in Record
  PROVE  /\ ActorType' /\ events' = <<>> /\ token' \in BOOLEAN /\ ctoken' \in BOOLEAN
         /\ verdict' \in [1..MaxAsks -> {"none", "allow", "deny"}]
<1>1. /\ alive' = FALSE /\ phase' = "Closing"
      /\ active' = None /\ comp' = None /\ closing' = None /\ timer' = None
      /\ pending' = None
      /\ verdict' \in [1..MaxAsks -> {"none", "allow", "deny"}]
  BY RejectType DEF Stop
<1>2. ActorType'
  BY <1>1, NoneType DEF ActorType, Phases
<1>3. events' = <<>> /\ token' \in BOOLEAN /\ ctoken' \in BOOLEAN
  BY DEF Stop, TypeOK, TurnType, CompactionType
<1> QED BY <1>1, <1>2, <1>3

LEMMA AwakeType ==
  ASSUME TypeOK
  PROVE  Awake \in Record /\ AwakeDisk \in Record /\ (Wake => timer' \in Nat)
BY NoneType DEF TypeOK, ActorType, StoreType, Record, Awake, AwakeDisk, Wake

LEMMA NextPromptType ==
  ASSUME TypeOK
  PROVE  NextPrompt \in Nat
<1>1. sent \in SentType
  BY DEF TypeOK, HistoryType, SentType
<1> QED BY <1>1, LenProperties DEF NextPrompt, SentType

LEMMA WithPromptType ==
  ASSUME TypeOK, NEW kind
  PROVE  WithPrompt(kind) \in Record
<1>1. Awake \in Record /\ NextPrompt \in Nat
  BY AwakeType, NextPromptType
<1>2. Append(Awake.ctx.msgs, NextPrompt) \in Seq(Nat)
  BY <1>1 DEF Record, Context
<1>3. [Awake EXCEPT !.ctx.msgs = Append(@, NextPrompt)] \in Record
  BY <1>1, <1>2 DEF Record, Context
<1> QED BY <1>1, <1>3 DEF WithPrompt

LEMMA AnswerType ==
  ASSUME TypeOK, NEW kind \in Kinds, NEW turn \in Nat, NEW queued \in BOOLEAN,
         Answer(kind, turn, queued)
  PROVE  sent' \in SentType
<1>1. sent \in SentType
  BY DEF TypeOK, HistoryType, SentType
<1> QED BY <1>1 DEF Answer, SentType

LEMMA SettledType ==
  ASSUME TypeOK, NEW outcome \in Outcomes
  PROVE  Settled(outcome) \in Record
<1>1. rec \in Record /\ now + 1 \in Nat
  BY DEF TypeOK, ActorType, HistoryType
<1>2. ASSUME NEW b \in BOOLEAN, NEW n \in Nat
      PROVE  [rec EXCEPT !.completed = b, !.deadline = n] \in Record
  BY <1>1 DEF Record
<1>3. (rec.completed \/ outcome = "completed") \in BOOLEAN
  OBVIOUS
<1>4. [rec EXCEPT !.completed = @ \/ outcome = "completed", !.deadline = now + 1] \in Record
  BY <1>1, <1>2, <1>3, Zenon
<1> QED BY <1>1, <1>4 DEF Settled

(* Setting an entry that may not exist keeps a sequence what it is. *)
LEMMA ExceptType ==
  ASSUME NEW S, NEW s \in Seq(S), NEW i, NEW v \in S
  PROVE  [s EXCEPT ![i] = v] \in Seq(S)
<1>1. CASE i \in 1..Len(s)
  BY <1>1, ExceptSeq
<1>2. CASE i \notin 1..Len(s)
  <2>1. s \in [1..Len(s) -> S]
    BY LenProperties
  <2>2. [s EXCEPT ![i] = v] = s
    BY <1>2, <2>1
  <2> QED BY <2>2
<1> QED BY <1>1, <1>2

LEMMA EndType ==
  ASSUME TypeOK, NEW o \in Outcomes
  PROVE  [ended EXCEPT ![active] = o] \in EndedType
<1>1. ended \in EndedType /\ o \in Outcomes \cup {"running"}
  BY DEF TypeOK, HistoryType, EndedType
<1> QED BY <1>1, ExceptType DEF EndedType

LEMMA HeadType ==
  ASSUME TypeOK, NEW t, Receives(t)
  PROVE  /\ Head(events) \in Event /\ Head(events).type = t
         /\ Tail(events) \in Seq(Event)
<1>1. events \in Seq(Event) /\ events # <<>>
  BY DEF TypeOK, ChannelType, Receives
<1> QED BY <1>1, HeadTailProperties DEF Receives

-----------------------------------------------------------------------------

LEMMA PromptType ==
  ASSUME TypeInv, Prompt
  PROVE  TypeInv'
<1> USE DEF turnVars, compVars
<1>a. TypeOK
  BY DEF TypeInv
<1>b. /\ Awake \in Record /\ AwakeDisk \in Record /\ (Wake => timer' \in Nat)
      /\ NextPrompt \in Nat /\ disk \in Record
      /\ \A kind : WithPrompt(kind) \in Record
  BY <1>a, AwakeType, NextPromptType, WithPromptType DEF TypeOK, StoreType
<1>1. ASSUME NEW kind \in Kinds, PromptWakeFails(kind)
      PROVE  TypeInv'
  <2>1. /\ disk' \in Record /\ used' \in Counters /\ used'.asks = used.asks
        /\ sent' \in SentType /\ timer' \in Nat /\ rec' \in Record
    BY <1>a, <1>b, <1>1, SaveFailsType, AnswerType, NoneType DEF PromptWakeFails
  <2>2. ActorType' /\ ChannelType' /\ TurnType' /\ CompactionType' /\ StoreType'
    BY <1>a, <1>1, <2>1
       DEF PromptWakeFails, TypeOK, ActorType, ChannelType, TurnType, CompactionType, StoreType
  <2>3. HistoryType' /\ AskCounted'
    BY <1>1, <2>1 DEF PromptWakeFails, TypeInv, TypeOK, HistoryType, AskCounted, SentType
  <2> QED BY <2>2, <2>3 DEF TypeInv, TypeOK
<1>2. ASSUME NEW kind \in Kinds, PromptSaveFails(kind)
      PROVE  TypeInv'
  <2>1. /\ disk' \in Record /\ used' \in Counters /\ used'.asks = used.asks
        /\ sent' \in SentType /\ timer' \in Nat /\ rec' \in Record
    BY <1>a, <1>b, <1>2, SaveFailsType, AnswerType, NoneType DEF PromptSaveFails
  <2>2. ActorType' /\ ChannelType' /\ TurnType' /\ CompactionType' /\ StoreType'
    BY <1>a, <1>2, <2>1
       DEF PromptSaveFails, TypeOK, ActorType, ChannelType, TurnType, CompactionType, StoreType
  <2>3. HistoryType' /\ AskCounted'
    BY <1>2, <2>1 DEF PromptSaveFails, TypeInv, TypeOK, HistoryType, AskCounted, SentType
  <2> QED BY <2>2, <2>3 DEF TypeInv, TypeOK
<1>3. ASSUME NEW kind \in Kinds, PromptStarts(kind)
      PROVE  TypeInv'
  <2>1. /\ used' \in Counters /\ used'.turns \in Nat /\ active' \in Nat
        /\ disk' \in Record /\ timer' \in Nat /\ rec' \in Record
    BY <1>a, <1>b, <1>3, CountType DEF PromptStarts, TypeOK, HistoryType, Counters
  <2>2. sent' \in SentType
    BY <1>a, <1>3, <2>1, AnswerType DEF PromptStarts
  <2>3. ended' \in EndedType
    BY <1>a, <1>3 DEF PromptStarts, TypeOK, HistoryType, EndedType
  <2>4. tctx' \in Context /\ steer' \in Seq(Nat)
    BY <1>3, <2>1, EmptySeq DEF PromptStarts, Record
  <2>5. transcript' \subseteq Nat
    BY <1>a, <1>b, <1>3 DEF PromptStarts, TypeOK, StoreType
  <2>6. ActorType' /\ ChannelType' /\ TurnType' /\ CompactionType' /\ StoreType'
    BY <1>a, <1>3, <2>1, <2>4, <2>5
       DEF PromptStarts, TypeOK, ActorType, ChannelType, TurnType, CompactionType, StoreType,
           Phases, Labels
  <2>7. HistoryType' /\ AskCounted'
    BY <1>a, <1>3, <2>1, <2>2, <2>3
       DEF PromptStarts, TypeOK, HistoryType, AskCounted, SentType, EndedType
  <2> QED BY <2>6, <2>7 DEF TypeInv, TypeOK
<1>4. ASSUME NEW kind \in Kinds, PromptSteers(kind)
      PROVE  TypeInv'
  <2>1. disk' \in Record /\ timer' \in Nat /\ rec' \in Record
    BY <1>b, <1>4 DEF PromptSteers
  <2>2. sent' \in SentType
    BY <1>a, <1>4, AnswerType, NoneType DEF PromptSteers, TypeOK, ActorType
  <2>3. steer' \in Seq(Nat)
    <3>1. steer' = steer \/ steer' = Append(steer, NextPrompt)
      BY <1>4 DEF PromptSteers
    <3> QED BY <1>a, <1>b, <3>1 DEF TypeOK, ChannelType
  <2>4. transcript' \subseteq Nat
    BY <1>a, <1>b, <1>4 DEF PromptSteers, TypeOK, StoreType
  <2>5. ActorType' /\ ChannelType' /\ TurnType' /\ CompactionType' /\ StoreType'
    BY <1>a, <1>4, <2>1, <2>3, <2>4
       DEF PromptSteers, TypeOK, ActorType, ChannelType, TurnType, CompactionType, StoreType
  <2>6. HistoryType' /\ AskCounted'
    BY <1>4, <2>2 DEF PromptSteers, TypeInv, TypeOK, HistoryType, AskCounted, SentType
  <2> QED BY <2>5, <2>6 DEF TypeInv, TypeOK
<1>5. CASE PromptRecordFails
  <2>1. /\ disk' \in Record /\ used' \in Counters /\ used'.asks = used.asks
        /\ sent' \in SentType /\ timer' \in Nat /\ rec' \in Record
    BY <1>a, <1>b, <1>5, FaultType, AnswerType, NoneType DEF PromptRecordFails, Kinds
  <2>2. ActorType' /\ ChannelType' /\ TurnType' /\ CompactionType' /\ StoreType'
    BY <1>a, <1>5, <2>1
       DEF PromptRecordFails, TypeOK, ActorType, ChannelType, TurnType, CompactionType, StoreType
  <2>3. HistoryType' /\ AskCounted'
    BY <1>5, <2>1 DEF PromptRecordFails, TypeInv, TypeOK, HistoryType, AskCounted, SentType
  <2> QED BY <2>2, <2>3 DEF TypeInv, TypeOK
<1>6. CASE PromptSteerFails
  <2>1. /\ disk' \in Record /\ used' \in Counters /\ used'.asks = used.asks
        /\ sent' \in SentType /\ timer' \in Nat /\ rec' \in Record
    BY <1>a, <1>b, <1>6, FaultType, AnswerType, NoneType DEF PromptSteerFails, Kinds
  <2>2. ActorType' /\ ChannelType' /\ TurnType' /\ CompactionType' /\ StoreType'
    BY <1>a, <1>6, <2>1
       DEF PromptSteerFails, TypeOK, ActorType, ChannelType, TurnType, CompactionType, StoreType
  <2>3. HistoryType' /\ AskCounted'
    BY <1>6, <2>1 DEF PromptSteerFails, TypeInv, TypeOK, HistoryType, AskCounted, SentType
  <2> QED BY <2>2, <2>3 DEF TypeInv, TypeOK
<1> QED BY <1>1, <1>2, <1>3, <1>4, <1>5, <1>6 DEF Prompt

LEMMA RequestType ==
  ASSUME TypeInv,
         \/ Cancel \/ Unload \/ Compact \/ Keep \/ KeepOrCompactFails
         \/ \E ask \in 1..MaxAsks, allow \in BOOLEAN : RespondPermission(ask, allow)
  PROVE  TypeInv'
<1> USE DEF actorVars, turnVars, compVars, storeVars, histVars
<1>a. TypeOK /\ rec \in Record /\ disk \in Record
  BY DEF TypeInv, TypeOK, ActorType, StoreType
<1>1. CASE Cancel
  <2>1. pending' = None /\ verdict' \in [1..MaxAsks -> {"none", "allow", "deny"}]
    BY <1>a, <1>1, RejectType DEF Cancel
  <2>2. ActorType' /\ ChannelType'
    BY <1>a, <1>1, <2>1, NoneType DEF Cancel, TypeOK, ActorType, ChannelType, Phases
  <2>3. TurnType' /\ CompactionType' /\ StoreType'
    BY <1>a, <1>1, <2>1 DEF Cancel, TypeOK, TurnType, CompactionType, StoreType
  <2>4. HistoryType' /\ AskCounted'
    BY <1>1 DEF Cancel, TypeInv, TypeOK, HistoryType, AskCounted
  <2> QED BY <2>2, <2>3, <2>4 DEF TypeInv, TypeOK
<1>2. ASSUME NEW ask \in 1..MaxAsks, NEW allow \in BOOLEAN, RespondPermission(ask, allow)
      PROVE  TypeInv'
  <2>1. verdict' \in [1..MaxAsks -> {"none", "allow", "deny"}]
    BY <1>a, <1>2 DEF RespondPermission, TypeOK, TurnType
  <2>2. approved' \subseteq 1..MaxAsks
    BY <1>a, <1>2 DEF RespondPermission, TypeOK, HistoryType
  <2>3. ActorType' /\ ChannelType'
    BY <1>a, <1>2, NoneType DEF RespondPermission, TypeOK, ActorType, ChannelType, Phases
  <2>4. TurnType' /\ CompactionType' /\ StoreType'
    BY <1>a, <1>2, <2>1 DEF RespondPermission, TypeOK, TurnType, CompactionType, StoreType
  <2>5. HistoryType' /\ AskCounted'
    BY <1>2, <2>2 DEF RespondPermission, TypeInv, TypeOK, HistoryType, AskCounted
  <2> QED BY <2>3, <2>4, <2>5 DEF TypeInv, TypeOK
<1>3. ASSUME NEW c \in Callers, UnloadRefused(c)
      PROVE  TypeInv'
  <2>1. ActorType' /\ ChannelType' /\ TurnType' /\ CompactionType' /\ StoreType'
    BY <1>a, <1>3
       DEF UnloadRefused, TypeOK, ActorType, ChannelType, TurnType, CompactionType, StoreType
  <2>2. HistoryType' /\ AskCounted'
    BY <1>3 DEF UnloadRefused, TypeInv, TypeOK, HistoryType, AskCounted
  <2> QED BY <2>1, <2>2 DEF TypeInv, TypeOK
<1>4. ASSUME NEW c \in Callers, UnloadDeferred(c)
      PROVE  TypeInv'
  <2>1. pending' \in 0..MaxAsks /\ verdict' \in [1..MaxAsks -> {"none", "allow", "deny"}]
    BY <1>a, <1>4, RejectType, NoneType DEF UnloadDeferred, TypeOK, ActorType, TurnType
  <2>2. ActorType' /\ ChannelType'
    BY <1>a, <1>4, <2>1 DEF UnloadDeferred, TypeOK, ActorType, ChannelType, Phases
  <2>3. TurnType' /\ CompactionType' /\ StoreType'
    BY <1>a, <1>4, <2>1 DEF UnloadDeferred, TypeOK, TurnType, CompactionType, StoreType
  <2>4. HistoryType' /\ AskCounted'
    BY <1>4 DEF UnloadDeferred, TypeInv, TypeOK, HistoryType, AskCounted
  <2> QED BY <2>2, <2>3, <2>4 DEF TypeInv, TypeOK
<1>5. ASSUME NEW c \in Callers, UnloadNow(c)
      PROVE  TypeInv'
  <2>1. ActorType' /\ ChannelType' /\ TurnType' /\ ctoken' \in BOOLEAN
    BY <1>a, <1>5, StopType, EmptySeq DEF UnloadNow, TypeOK, ChannelType, TurnType
  <2>2. disk' \in Record /\ used' \in Counters /\ used'.asks = used.asks
    BY <1>a, <1>5, SaveFailsType DEF UnloadNow, TypeOK, HistoryType
  <2>3. CompactionType' /\ StoreType'
    BY <1>a, <1>5, <2>1, <2>2 DEF UnloadNow, TypeOK, CompactionType, StoreType
  <2>4. HistoryType' /\ AskCounted'
    BY <1>5, <2>2 DEF UnloadNow, TypeInv, TypeOK, HistoryType, AskCounted
  <2> QED BY <2>1, <2>3, <2>4 DEF TypeInv, TypeOK
<1>6. CASE Compact
  <2>1. used' \in Counters /\ used'.comps \in Nat /\ used'.asks = used.asks
    BY <1>a, <1>6, CountType DEF Compact, TypeOK, HistoryType, Counters
  <2>2. ActorType' /\ ChannelType'
    BY <1>a, <1>6, <2>1 DEF Compact, TypeOK, ActorType, ChannelType, Phases
  <2>3. TurnType' /\ CompactionType' /\ StoreType'
    BY <1>a, <1>6, <2>1 DEF Compact, TypeOK, TurnType, CompactionType, StoreType, Record
  <2>4. HistoryType' /\ AskCounted'
    BY <1>6, <2>1 DEF Compact, TypeInv, TypeOK, HistoryType, AskCounted
  <2> QED BY <2>2, <2>3, <2>4 DEF TypeInv, TypeOK
<1>7. CASE Keep
  <2>1. rec' \in Record /\ disk' \in Record
    BY <1>a, <1>7, NoneType DEF Keep, Record
  <2>2. ActorType' /\ ChannelType'
    BY <1>a, <1>7, <2>1, NoneType DEF Keep, TypeOK, ActorType, ChannelType
  <2>3. TurnType' /\ CompactionType' /\ StoreType'
    BY <1>a, <1>7, <2>1 DEF Keep, TypeOK, TurnType, CompactionType, StoreType
  <2>4. HistoryType' /\ AskCounted'
    BY <1>7 DEF Keep, TypeInv, TypeOK, HistoryType, AskCounted
  <2> QED BY <2>2, <2>3, <2>4 DEF TypeInv, TypeOK
<1>8. CASE KeepOrCompactFails
  <2>1. disk' \in Record /\ used' \in Counters /\ used'.asks = used.asks
    BY <1>a, <1>8, SaveFailsType DEF KeepOrCompactFails
  <2>2. ActorType' /\ ChannelType' /\ TurnType' /\ CompactionType' /\ StoreType'
    BY <1>a, <1>8, <2>1
       DEF KeepOrCompactFails, TypeOK, ActorType, ChannelType, TurnType, CompactionType, StoreType
  <2>3. HistoryType' /\ AskCounted'
    BY <1>8, <2>1 DEF KeepOrCompactFails, TypeInv, TypeOK, HistoryType, AskCounted
  <2> QED BY <2>2, <2>3 DEF TypeInv, TypeOK
<1> QED BY <1>1, <1>2, <1>3, <1>4, <1>5, <1>6, <1>7, <1>8 DEF Unload

LEMMA EventType ==
  ASSUME TypeInv, HandleEvent
  PROVE  TypeInv'
<1> USE DEF actorVars, turnVars, compVars, storeVars, histVars
<1>a. TypeOK /\ rec \in Record /\ disk \in Record /\ active \in Nat
  BY DEF TypeInv, TypeOK, ActorType, StoreType
<1>1. CASE HandlePersist
  <2> DEFINE updated == [rec EXCEPT !.ctx = Head(events).ctx]
  <2>1. Head(events) \in Event /\ Head(events).type = "Persist" /\ events' \in Seq(Event)
    BY <1>a, <1>1, HeadType DEF HandlePersist
  <2>2. Head(events).ctx \in Context
    BY <2>1 DEF Event
  <2>3. updated \in Record
    BY <1>a, <2>2 DEF Record
  <2>4. /\ rec' \in Record /\ disk' \in Record /\ saved' \in {"none", "ok", "err"}
        /\ used' \in Counters /\ used'.asks = used.asks
    <3>1. CASE rec' = updated /\ disk' = updated /\ saved' = "ok" /\ UNCHANGED used
      BY <1>a, <2>3, <3>1 DEF TypeOK, HistoryType
    <3>2. CASE SaveFails(disk, updated) /\ saved' = "err" /\ UNCHANGED rec
      BY <1>a, <2>3, <3>2, SaveFailsType
    <3> QED BY <1>1, <3>1, <3>2 DEF HandlePersist
  <2>5. ActorType' /\ ChannelType'
    BY <1>a, <1>1, <2>1, <2>4 DEF HandlePersist, TypeOK, ActorType, ChannelType
  <2>6. TurnType' /\ CompactionType' /\ StoreType'
    BY <1>a, <1>1, <2>4 DEF HandlePersist, TypeOK, TurnType, CompactionType, StoreType
  <2>7. HistoryType' /\ AskCounted'
    BY <1>1, <2>4 DEF HandlePersist, TypeInv, TypeOK, HistoryType, AskCounted
  <2> QED BY <2>5, <2>6, <2>7 DEF TypeInv, TypeOK
<1>2. CASE HandleAsk
  <2>1. Head(events) \in Event /\ Head(events).type = "Ask" /\ events' \in Seq(Event)
    BY <1>a, <1>2, HeadType DEF HandleAsk
  <2>2. Head(events).ask \in 1..MaxAsks
    BY <2>1 DEF Event
  <2>3. /\ verdict' \in [1..MaxAsks -> {"none", "allow", "deny"}]
        /\ pending' \in 0..MaxAsks /\ phase' \in Phases
    <3>1. CASE active = None \/ active # Head(events).turn
      BY <1>a, <1>2, <2>2, <3>1 DEF HandleAsk, TypeOK, ActorType, TurnType
    <3>2. CASE ~(active = None \/ active # Head(events).turn)
      BY <1>a, <1>2, <2>2, <3>2 DEF HandleAsk, TypeOK, TurnType, Phases
    <3> QED BY <3>1, <3>2
  <2>4. ActorType' /\ ChannelType'
    BY <1>a, <1>2, <2>1, <2>3 DEF HandleAsk, TypeOK, ActorType, ChannelType
  <2>5. TurnType' /\ CompactionType' /\ StoreType'
    BY <1>a, <1>2, <2>3 DEF HandleAsk, TypeOK, TurnType, CompactionType, StoreType
  <2>6. HistoryType' /\ AskCounted'
    BY <1>2 DEF HandleAsk, TypeInv, TypeOK, HistoryType, AskCounted
  <2> QED BY <2>4, <2>5, <2>6 DEF TypeInv, TypeOK
<1>3. CASE HandleFinished
  <2>1. Head(events) \in Event /\ Head(events).type = "Finished" /\ events' \in Seq(Event)
    BY <1>a, <1>3, HeadType DEF HandleFinished
  <2>2. Head(events).outcome \in Outcomes
    BY <2>1 DEF Event
  <2>3. rec' \in Record /\ ended' \in EndedType
    BY <1>a, <1>3, <2>2, SettledType, EndType DEF HandleFinished
  <2>4. disk' \in Record /\ used' \in Counters /\ used'.asks = used.asks
    BY <1>a, <1>3, <2>3, SaveFailsType DEF HandleFinished, TypeOK, HistoryType
  <2>5. pending' = None /\ verdict' \in [1..MaxAsks -> {"none", "allow", "deny"}]
    BY <1>a, <1>3, RejectType DEF HandleFinished
  <2>6. timer' \in Nat
    BY <1>a, <1>3, <2>3 DEF HandleFinished, Arm, Record, TypeOK, ActorType
  <2>7. ActorType' /\ ChannelType'
    BY <1>a, <1>3, <2>1, <2>3, <2>5, <2>6, NoneType
       DEF HandleFinished, TypeOK, ActorType, ChannelType, Phases
  <2>8. TurnType' /\ CompactionType' /\ StoreType'
    BY <1>a, <1>3, <2>4, <2>5 DEF HandleFinished, TypeOK, TurnType, CompactionType, StoreType
  <2>9. HistoryType' /\ AskCounted'
    BY <1>3, <2>3, <2>4
       DEF HandleFinished, TypeInv, TypeOK, HistoryType, AskCounted, EndedType
  <2> QED BY <2>7, <2>8, <2>9 DEF TypeInv, TypeOK
<1>4. CASE HandleFinishedClosing
  <2>1. Head(events) \in Event /\ Head(events).type = "Finished"
    BY <1>a, <1>4, HeadType DEF HandleFinishedClosing
  <2>2. Head(events).outcome \in Outcomes
    BY <2>1 DEF Event
  <2>3. rec' \in Record /\ ended' \in EndedType
    BY <1>a, <1>4, <2>2, SettledType, EndType DEF HandleFinishedClosing
  <2>4. disk' \in Record /\ used' \in Counters /\ used'.asks = used.asks
    BY <1>a, <1>4, <2>3, SaveFailsType DEF HandleFinishedClosing, TypeOK, HistoryType
  <2>5. unloads' \in [Callers -> {"no", "waiting", "ok", "error", "closed"}]
    BY <1>a, <1>4 DEF HandleFinishedClosing, TypeOK, HistoryType
  <2>6. ActorType' /\ ChannelType' /\ TurnType' /\ ctoken' \in BOOLEAN
    BY <1>a, <1>4, <2>3, StopType, EmptySeq
       DEF HandleFinishedClosing, TypeOK, ChannelType, TurnType
  <2>7. CompactionType' /\ StoreType'
    BY <1>a, <1>4, <2>4, <2>6 DEF HandleFinishedClosing, TypeOK, CompactionType, StoreType
  <2>8. HistoryType' /\ AskCounted'
    BY <1>4, <2>3, <2>4, <2>5
       DEF HandleFinishedClosing, TypeInv, TypeOK, HistoryType, AskCounted, EndedType
  <2> QED BY <2>6, <2>7, <2>8 DEF TypeInv, TypeOK
<1>5. CASE HandleCompacted
  <2> DEFINE updated == [rec EXCEPT !.ctx = Head(events).ctx]
  <2>1. Head(events) \in Event /\ Head(events).type = "Compacted" /\ events' \in Seq(Event)
    BY <1>a, <1>5, HeadType DEF HandleCompacted
  <2>2. Head(events).ctx \in Context
    BY <2>1 DEF Event
  <2>3. updated \in Record
    BY <1>a, <2>2 DEF Record
  <2>4. rec' \in Record /\ disk' \in Record /\ used' \in Counters /\ used'.asks = used.asks
    <3>1. CASE rec' = updated /\ disk' = updated /\ UNCHANGED used
      BY <1>a, <2>3, <3>1 DEF TypeOK, HistoryType
    <3>2. CASE SaveFails(disk, updated) /\ UNCHANGED rec
      BY <1>a, <2>3, <3>2, SaveFailsType
    <3>3. CASE UNCHANGED <<rec, disk, used>>
      BY <1>a, <3>3 DEF TypeOK, HistoryType
    <3> QED BY <1>5, <3>1, <3>2, <3>3 DEF HandleCompacted
  <2>5. ActorType' /\ ChannelType'
    BY <1>a, <1>5, <2>1, <2>4, NoneType DEF HandleCompacted, TypeOK, ActorType, ChannelType, Phases
  <2>6. TurnType' /\ CompactionType' /\ StoreType'
    BY <1>a, <1>5, <2>4 DEF HandleCompacted, TypeOK, TurnType, CompactionType, StoreType
  <2>7. HistoryType' /\ AskCounted'
    BY <1>5, <2>4 DEF HandleCompacted, TypeInv, TypeOK, HistoryType, AskCounted
  <2> QED BY <2>5, <2>6, <2>7 DEF TypeInv, TypeOK
<1>6. CASE HandleCompactedClosing
  <2>1. disk' \in Record /\ used' \in Counters /\ used'.asks = used.asks
    BY <1>a, <1>6, SaveFailsType DEF HandleCompactedClosing, TypeOK, HistoryType
  <2>2. unloads' \in [Callers -> {"no", "waiting", "ok", "error", "closed"}]
    BY <1>a, <1>6 DEF HandleCompactedClosing, TypeOK, HistoryType
  <2>3. ActorType' /\ ChannelType' /\ TurnType' /\ ctoken' \in BOOLEAN
    BY <1>a, <1>6, StopType, EmptySeq DEF HandleCompactedClosing, TypeOK, ChannelType, TurnType
  <2>4. CompactionType' /\ StoreType'
    BY <1>a, <1>6, <2>1, <2>3 DEF HandleCompactedClosing, TypeOK, CompactionType, StoreType
  <2>5. HistoryType' /\ AskCounted'
    BY <1>6, <2>1, <2>2 DEF HandleCompactedClosing, TypeInv, TypeOK, HistoryType, AskCounted
  <2> QED BY <2>3, <2>4, <2>5 DEF TypeInv, TypeOK
<1>7. CASE HandleExpired
  <2>1. events' \in Seq(Event)
    BY <1>a, <1>7, HeadType DEF HandleExpired
  <2>2. timer' \in Nat
    BY <1>a, <1>7 DEF HandleExpired, Record
  <2>3. ActorType' /\ ChannelType' /\ TurnType' /\ CompactionType' /\ StoreType'
    BY <1>a, <1>7, <2>1, <2>2
       DEF HandleExpired, TypeOK, ActorType, ChannelType, TurnType, CompactionType, StoreType
  <2>4. HistoryType' /\ AskCounted'
    BY <1>7 DEF HandleExpired, TypeInv, TypeOK, HistoryType, AskCounted
  <2> QED BY <2>3, <2>4 DEF TypeInv, TypeOK
<1>8. CASE HandleExpiredDeletes
  <2>1. exists' \in BOOLEAN /\ used' \in Counters /\ used'.asks = used.asks
    BY <1>a, <1>8, FaultType DEF HandleExpiredDeletes, TypeOK, StoreType, HistoryType
  <2>2. unloads' \in [Callers -> {"no", "waiting", "ok", "error", "closed"}]
    BY <1>a, <1>8 DEF HandleExpiredDeletes, TypeOK, HistoryType
  <2>3. ActorType' /\ ChannelType' /\ TurnType' /\ ctoken' \in BOOLEAN
    BY <1>a, <1>8, StopType, EmptySeq DEF HandleExpiredDeletes, TypeOK, ChannelType, TurnType
  <2>4. CompactionType' /\ StoreType'
    BY <1>a, <1>8, <2>1, <2>3 DEF HandleExpiredDeletes, TypeOK, CompactionType, StoreType
  <2>5. HistoryType' /\ AskCounted'
    BY <1>8, <2>1, <2>2 DEF HandleExpiredDeletes, TypeInv, TypeOK, HistoryType, AskCounted
  <2> QED BY <2>3, <2>4, <2>5 DEF TypeInv, TypeOK
<1> QED BY <1>1, <1>2, <1>3, <1>4, <1>5, <1>6, <1>7, <1>8 DEF HandleEvent

LEMMA EnvironmentType ==
  ASSUME TypeInv, CompactionTask \/ Tick \/ TimerFires \/ Spawn
  PROVE  TypeInv'
<1> USE DEF actorVars, turnVars, compVars, storeVars, histVars
<1>a. TypeOK /\ disk \in Record
  BY DEF TypeInv, TypeOK, StoreType
<1>1. CASE CompactionTask
  <2>1. PICK ok \in BOOLEAN :
          Send([type |-> "Compacted", id |-> ctask, ctx |-> Folded(cctx), ok |-> ok])
    BY <1>1 DEF CompactionTask
  <2>2. [type |-> "Compacted", id |-> ctask, ctx |-> Folded(cctx), ok |-> ok] \in Event
    BY <1>a, FoldedType DEF Event, TypeOK, CompactionType
  <2>3. events' \in Seq(Event)
    BY <1>a, <2>1, <2>2, SendType
  <2>4. ActorType' /\ ChannelType' /\ TurnType' /\ CompactionType' /\ StoreType'
    BY <1>a, <1>1, <2>3, NoneType
       DEF CompactionTask, TypeOK, ActorType, ChannelType, TurnType, CompactionType, StoreType
  <2>5. HistoryType' /\ AskCounted'
    BY <1>1 DEF CompactionTask, TypeInv, TypeOK, HistoryType, AskCounted
  <2> QED BY <2>4, <2>5 DEF TypeInv, TypeOK
<1>2. CASE Tick
  <2>1. ActorType' /\ ChannelType' /\ TurnType' /\ CompactionType' /\ StoreType'
    BY <1>a, <1>2
       DEF Tick, TypeOK, ActorType, ChannelType, TurnType, CompactionType, StoreType
  <2>2. HistoryType' /\ AskCounted'
    BY <1>2 DEF Tick, TypeInv, TypeOK, ActorType, HistoryType, AskCounted
  <2> QED BY <2>1, <2>2 DEF TypeInv, TypeOK
<1>3. CASE TimerFires
  <2>1. [type |-> "Expired"] \in Event
    BY DEF Event
  <2>2. events' \in Seq(Event)
    BY <1>a, <1>3, <2>1, SendType DEF TimerFires
  <2>3. ActorType' /\ ChannelType' /\ TurnType' /\ CompactionType' /\ StoreType'
    BY <1>a, <1>3, <2>2, NoneType
       DEF TimerFires, TypeOK, ActorType, ChannelType, TurnType, CompactionType, StoreType
  <2>4. HistoryType' /\ AskCounted'
    BY <1>3 DEF TimerFires, TypeInv, TypeOK, HistoryType, AskCounted
  <2> QED BY <2>3, <2>4 DEF TypeInv, TypeOK
<1>4. CASE Spawn
  <2>1. used' \in Counters
    BY <1>a, <1>4, CountType DEF Spawn, TypeOK, HistoryType
  <2>2. unloads' \in [Callers -> {"no", "waiting", "ok", "error", "closed"}]
    BY <1>4 DEF Spawn
  <2>3. rec' \in Record /\ timer' \in Nat
    BY <1>a, <1>4 DEF Spawn, Record
  <2>4. ActorType' /\ ChannelType'
    BY <1>4, <2>3, NoneType, EmptySeq DEF Spawn, ActorType, ChannelType, Phases
  <2>5. TurnType' /\ CompactionType' /\ StoreType'
    BY <1>a, <1>4, NoneType DEF Spawn, TypeOK, TurnType, CompactionType, StoreType, Labels
  <2>6. HistoryType' /\ AskCounted'
    BY <1>a, <1>4, <2>1, <2>2 DEF Spawn, TypeOK, HistoryType, AskCounted
  <2> QED BY <2>4, <2>5, <2>6 DEF TypeInv, TypeOK
<1> QED BY <1>1, <1>2, <1>3, <1>4

LEMMA StutterType ==
  ASSUME TypeInv, UNCHANGED vars
  PROVE  TypeInv'
<1> USE DEF vars, actorVars, turnVars, compVars, storeVars, histVars
<1>1. ActorType' /\ ChannelType' /\ TurnType' /\ CompactionType' /\ StoreType'
  BY DEF TypeInv, TypeOK, ActorType, ChannelType, TurnType, CompactionType, StoreType
<1>2. HistoryType' /\ AskCounted'
  BY DEF TypeInv, TypeOK, HistoryType, AskCounted
<1> QED BY <1>1, <1>2 DEF TypeInv, TypeOK

LEMMA TypeStep ==
  ASSUME TypeInv, [Next]_vars
  PROVE  TypeInv'
BY PromptType, RequestType, EventType, TurnStepType, EnvironmentType, StutterType DEF Next

(* Every variable keeps its type whatever the clients, the tasks and the    *)
(* repository do, for every value of the bounds.                            *)
THEOREM TypeCorrect == Spec => []TypeOK
<1>1. Init => TypeInv
  BY InitType
<1>2. TypeInv /\ [Next]_vars => TypeInv'
  BY TypeStep
<1>3. TypeInv => TypeOK
  BY DEF TypeInv
<1> QED BY <1>1, <1>2, <1>3, PTL DEF Spec

-----------------------------------------------------------------------------
(* An approval reaches only the call it was given for: the decision a call  *)
(* takes is the one recorded under its own request.                         *)

ApprovalInv ==
  /\ TypeInv
  /\ \A a \in 1..MaxAsks : verdict[a] = "allow" => a \in approved
  /\ OnlyApprovedRun

(* Denying whatever is registered allows nothing. *)
LEMMA RejectAllows ==
  ASSUME TypeInv, RejectPending, NEW a \in 1..MaxAsks, verdict'[a] = "allow"
  PROVE  verdict[a] = "allow"
BY DEF TypeInv, TypeOK, TurnType, RejectPending

LEMMA ApprovalStep ==
  ASSUME ApprovalInv, [Next]_vars
  PROVE  ApprovalInv'
<1> USE DEF vars, actorVars, turnVars, compVars, storeVars, histVars, turnFrame
<1>a. TypeInv /\ TypeInv'
  BY TypeStep DEF ApprovalInv
<1>b. ASSUME UNCHANGED <<verdict, approved, ran>>
      PROVE  ApprovalInv'
  BY <1>a, <1>b DEF ApprovalInv, OnlyApprovedRun
<1>c. ASSUME RejectPending, UNCHANGED <<approved, ran>>
      PROVE  ApprovalInv'
  BY <1>a, <1>c, RejectAllows DEF ApprovalInv, OnlyApprovedRun
<1>1. CASE Prompt
  BY <1>1, <1>b
     DEF Prompt, PromptWakeFails, PromptSaveFails, PromptRecordFails, PromptStarts, PromptSteers,
         PromptSteerFails
<1>2. CASE Cancel
  BY <1>2, <1>c DEF Cancel
<1>3. ASSUME NEW ask \in 1..MaxAsks, NEW allow \in BOOLEAN, RespondPermission(ask, allow)
      PROVE  ApprovalInv'
  <2>1. /\ verdict' = [verdict EXCEPT ![ask] = IF allow THEN "allow" ELSE "deny"]
        /\ approved' = IF allow THEN approved \cup {ask} ELSE approved
        /\ UNCHANGED ran
    BY <1>3 DEF RespondPermission, Matches
  <2>2. ASSUME NEW a \in 1..MaxAsks, verdict'[a] = "allow"
        PROVE  a \in approved'
    BY <1>a, <2>1, <2>2 DEF ApprovalInv, TypeInv, TypeOK, TurnType
  <2>3. OnlyApprovedRun'
    BY <2>1 DEF ApprovalInv, OnlyApprovedRun
  <2> QED BY <1>a, <2>2, <2>3 DEF ApprovalInv
<1>4. CASE Unload
  BY <1>4, <1>b, <1>c DEF Unload, UnloadRefused, UnloadDeferred, UnloadNow, Stop
<1>5. CASE Compact \/ Keep \/ KeepOrCompactFails
  BY <1>5, <1>b DEF Compact, Keep, KeepOrCompactFails
<1>6. CASE HandleAsk
  <2>1. UNCHANGED <<approved, ran>>
    BY <1>6 DEF HandleAsk
  <2>2. ASSUME NEW a \in 1..MaxAsks, verdict'[a] = "allow"
        PROVE  verdict[a] = "allow"
    BY <1>a, <1>6, <2>2 DEF HandleAsk, TypeInv, TypeOK, TurnType
  <2> QED BY <1>a, <2>1, <2>2 DEF ApprovalInv, OnlyApprovedRun
<1>7. CASE HandlePersist \/ HandleCompacted \/ HandleExpired
  BY <1>7, <1>b DEF HandlePersist, HandleCompacted, HandleExpired
<1>8. CASE HandleFinished
  BY <1>8, <1>c DEF HandleFinished
<1>9. CASE HandleFinishedClosing \/ HandleCompactedClosing \/ HandleExpiredDeletes
  BY <1>9, <1>c DEF HandleFinishedClosing, HandleCompactedClosing, HandleExpiredDeletes, Stop
<1>10. CASE TakeDecision
  <2>1. used.asks \in 1..MaxAsks
    BY <1>a, <1>10, BoundsAssumption
       DEF TakeDecision, TypeInv, AskCounted, TypeOK, HistoryType, Counters
  <2>2. ran' \subseteq approved' /\ UNCHANGED <<verdict, approved>>
    BY <1>10, <2>1 DEF TakeDecision, Allowed, ApprovalInv, OnlyApprovedRun
  <2> QED BY <1>a, <2>2 DEF ApprovalInv, OnlyApprovedRun
<1>11. CASE TurnStep /\ ~TakeDecision
  BY <1>11, <1>b
     DEF TurnStep, LoopCancelled, BeginStep, MaybeCompact, CompactInTurn, ReplyWithoutTools,
         ReplyWithTools, RetryModel, RecoverModel, FailModel, Backoff, AskPermission, EndBatch,
         Saved, SaveLost, DropTurn
<1>12. CASE CompactionTask \/ Tick \/ TimerFires \/ Spawn
  BY <1>12, <1>b DEF CompactionTask, Tick, TimerFires, Spawn
<1>13. CASE UNCHANGED vars
  BY <1>13, <1>b
<1> QED
  BY <1>1, <1>2, <1>3, <1>4, <1>5, <1>6, <1>7, <1>8, <1>9, <1>10, <1>11, <1>12, <1>13
     DEF Next, HandleEvent

(* Only approved calls run, for any number of requests, turns and restarts. *)
THEOREM ApprovalCorrect == Spec => []OnlyApprovedRun
<1>1. Init => ApprovalInv
  BY InitType DEF Init, ApprovalInv, OnlyApprovedRun
<1>2. ApprovalInv /\ [Next]_vars => ApprovalInv'
  BY ApprovalStep
<1>3. ApprovalInv => OnlyApprovedRun
  BY DEF ApprovalInv
<1> QED BY <1>1, <1>2, <1>3, PTL DEF Spec

-----------------------------------------------------------------------------
(* The queue of events: sending appends, taking drops the head.               *)
LEMMA SendKeeps ==
  ASSUME TypeOK, NEW e \in Event, Send(e)
  PROVE  /\ \A i \in 1..Len(events) : i \in 1..Len(events') /\ events'[i] = events[i]
         /\ alive => /\ Len(events') = Len(events) + 1
                     /\ events'[Len(events) + 1] = e
         /\ ~alive => events' = events
<1>1. events \in Seq(Event) /\ Len(events) \in Nat
  BY DEF TypeOK, ChannelType
<1>2. CASE alive
  <2>1. events' = Append(events, e)
    BY <1>2 DEF Send
  <2> QED BY <1>1, <1>2, <2>1, AppendProperties
<1>3. CASE ~alive
  BY <1>1, <1>3 DEF Send
<1> QED BY <1>2, <1>3

LEMMA TakeKeeps ==
  ASSUME TypeOK, NEW t, Receives(t)
  PROVE  /\ Len(Tail(events)) = Len(events) - 1 /\ events[1].type = t
         /\ \A i \in 1..Len(Tail(events)) : i + 1 \in 1..Len(events) /\ Tail(events)[i] = events[i + 1]
         /\ \A i \in 1..Len(events) : events[i].type # t =>
              i - 1 \in 1..Len(Tail(events)) /\ Tail(events)[i - 1] = events[i]
<1>1. events \in Seq(Event) /\ events # <<>> /\ Head(events).type = t
  BY DEF TypeOK, ChannelType, Receives
<1>2. /\ Len(events) \in Nat \ {0} /\ Len(Tail(events)) = Len(events) - 1
      /\ Head(events) = events[1]
      /\ \A i \in 1..Len(Tail(events)) : Tail(events)[i] = events[i + 1]
  BY <1>1, HeadTailProperties
<1> QED BY <1>1, <1>2

(* What the turn task sends, and where it goes: it sends its end last and     *)
(* once, and asks for permission only to wait for the answer.                 *)
Sends(type, e) == e \in Event /\ e.type = type /\ Send(e)
Working == pc \notin {"off", "done"}

LEMMA CheckpointSends ==
  ASSUME TypeOK, NEW c \in Context, NEW next, Checkpoint(c, next)
  PROVE  pc' = "saving" /\ \E e : Sends("Persist", e)
<1> DEFINE e == [type |-> "Persist", ctx |-> c]
<1>1. e \in Event /\ e.type = "Persist" /\ Send(e)
  BY DEF Event, Checkpoint
<1>2. Sends("Persist", e)
  BY <1>1 DEF Sends
<1> QED BY <1>2 DEF Checkpoint

LEMMA SettleSends ==
  ASSUME TypeOK, NEW c \in Context, NEW next, Settle(c, next)
  PROVE  pc' = "saving" /\ \E e : Sends("Persist", e)
<1>1. c.msgs \in Seq(Nat) /\ steer \in Seq(Nat)
  BY DEF TypeOK, ChannelType, Context
<1>2. c.msgs \o steer \in Seq(Nat)
  BY <1>1, ConcatProperties
<1>3. [c EXCEPT !.msgs = @ \o steer] \in Context
  BY <1>2 DEF Context
<1> QED BY <1>3, CheckpointSends DEF Settle

LEMMA FinishSends ==
  ASSUME TypeOK, NEW o \in Outcomes, Finish(o)
  PROVE  pc' = "done" /\ \E e : Sends("Finished", e) /\ e.turn = used.turns
<1> DEFINE e == [type |-> "Finished", turn |-> used.turns, outcome |-> o]
<1>1. e \in Event /\ e.type = "Finished" /\ Send(e) /\ e.turn = used.turns
  BY DEF Event, TypeOK, HistoryType, Counters, Finish
<1>2. Sends("Finished", e)
  BY <1>1 DEF Sends
<1> QED BY <1>1, <1>2 DEF Finish

LEMMA TurnStepSends ==
  ASSUME TypeInv, TurnStep
  PROVE  \/ pc = "done" /\ pc' = "off" /\ events' = events
         \/ Working /\ pc' = "done" /\ \E e : Sends("Finished", e) /\ e.turn = used.turns
         \/ Working /\ pc' = "saving" /\ \E e : Sends("Persist", e)
         \/ Working /\ pc' = "asking" /\ \E e : Sends("Ask", e) /\ e.ask = used'.asks
         \/ Working /\ Working' /\ pc' # "asking" /\ events' = events
<1>a. /\ TypeOK /\ tctx \in Context /\ used \in Counters /\ then \in Conts
      /\ {"cancelled", "completed", Failure} \subseteq Outcomes
  BY FailureType DEF TypeInv, TypeOK, TurnType, HistoryType, Outcomes
<1> USE DEF Working
<1>1. CASE LoopCancelled
  BY <1>a, <1>1, FinishSends DEF LoopCancelled
<1>2. CASE BeginStep
  BY <1>a, <1>2, FinishSends, CheckpointSends DEF BeginStep
<1>3. CASE MaybeCompact
  BY <1>3 DEF MaybeCompact
<1>4. CASE CompactInTurn
  BY <1>a, <1>4, FoldedType, FinishSends, CheckpointSends DEF CompactInTurn
<1>5. CASE ReplyWithoutTools
  BY <1>a, <1>5, SettleSends DEF ReplyWithoutTools
<1>6. CASE ReplyWithTools \/ RecoverModel
  BY <1>6 DEF ReplyWithTools, RecoverModel
<1>7. CASE RetryModel
  BY <1>a, <1>7, SettleSends DEF RetryModel
<1>8. CASE FailModel
  BY <1>a, <1>8, FinishSends DEF FailModel
<1>9. CASE Backoff
  BY <1>a, <1>9, FinishSends, SettleSends DEF Backoff
<1>10. CASE AskPermission
  <2> DEFINE e == [type |-> "Ask", turn |-> used.turns, ask |-> used'.asks]
  <2>1. used'.asks \in 1..MaxAsks /\ used.turns \in Nat /\ Send(e) /\ pc = "tools" /\ pc' = "asking"
    BY <1>a, <1>10, AskCountType DEF AskPermission, Counters
  <2>2. e \in Event /\ e.type = "Ask" /\ e.ask = used'.asks
    BY <2>1 DEF Event
  <2> HIDE DEF e
  <2> QED BY <2>1, <2>2 DEF Sends
<1>11. CASE TakeDecision
  BY <1>11 DEF TakeDecision
<1>12. CASE EndBatch
  <2>1. WithResults(tctx) \in Context
    BY <1>a DEF WithResults, Context
  <2> QED BY <1>a, <1>12, <2>1, SettleSends DEF EndBatch, Interrupted
<1>13. CASE Saved
  <2>1. pc = "saving"
    BY <1>13 DEF Saved
  <2>2. \/ \E o \in Outcomes : Finish(o)
        \/ pc' \in {"loop", "fit", "model", "backoff"} /\ events' = events
    BY <1>a, <1>13 DEF Saved, Conts
  <2> QED BY <1>a, <2>1, <2>2, FinishSends
<1>14. CASE SaveLost
  BY <1>a, <1>14, FinishSends DEF SaveLost
<1>15. CASE DropTurn
  BY <1>15 DEF DropTurn
<1> QED
  BY <1>1, <1>2, <1>3, <1>4, <1>5, <1>6, <1>7, <1>8, <1>9, <1>10, <1>11, <1>12, <1>13, <1>14, <1>15
     DEF TurnStep

-----------------------------------------------------------------------------
(* What the phase says of the turn and the compaction, and what an unload   *)
(* that waits may rely on.                                                  *)

QuietInv == TypeInv /\ IdleIsQuiet /\ UnloadOwed

LEMMA StopQuiet ==
  ASSUME TypeInv, UnloadOwed, Stop,
         \A c \in Callers : unloads'[c] = "waiting" => unloads[c] = "waiting" /\ c # closing
  PROVE  IdleIsQuiet' /\ UnloadOwed'
BY DEF Stop, IdleIsQuiet, UnloadOwed

(* The number of a turn or of a compaction is never the absent one. *)
LEMMA CountPositive ==
  ASSUME NEW u \in Counters
  PROVE  u.turns + 1 # None /\ u.comps + 1 # None
BY DEF Counters, None

LEMMA QuietStep ==
  ASSUME QuietInv, [Next]_vars
  PROVE  QuietInv'
<1> USE DEF vars, actorVars, turnVars, compVars, storeVars, histVars, turnFrame
<1>a. /\ TypeInv /\ TypeInv' /\ IdleIsQuiet /\ UnloadOwed
      /\ unloads \in [Callers -> {"no", "waiting", "ok", "error", "closed"}]
  BY TypeStep DEF QuietInv, TypeInv, TypeOK, HistoryType
<1>u. used \in Counters
  BY <1>a DEF TypeInv, TypeOK, HistoryType
<1>b. ASSUME UNCHANGED <<alive, phase, active, comp, pending, closing, unloads>>
      PROVE  QuietInv'
  BY <1>a, <1>b DEF QuietInv, IdleIsQuiet, UnloadOwed
<1>1. ASSUME NEW kind \in Kinds, PromptStarts(kind)
      PROVE  QuietInv'
  <2>1. /\ alive /\ comp = None /\ active = None /\ active' = used.turns + 1 /\ phase' = "Running"
        /\ UNCHANGED <<alive, comp, pending, closing, unloads>>
    BY <1>1 DEF PromptStarts, Admits
  <2>2. active' # None
    BY <1>u, <2>1, CountPositive
  <2> QED BY <1>a, <2>1, <2>2 DEF QuietInv, IdleIsQuiet, UnloadOwed
<1>2. CASE Prompt /\ ~\E kind \in Kinds : PromptStarts(kind)
  BY <1>2, <1>b
     DEF Prompt, PromptWakeFails, PromptSaveFails, PromptRecordFails, PromptSteers,
         PromptSteerFails
<1>3. CASE Cancel
  BY <1>a, <1>3 DEF Cancel, RejectPending, QuietInv, IdleIsQuiet, UnloadOwed
<1>4. ASSUME NEW ask \in 1..MaxAsks, NEW allow \in BOOLEAN, RespondPermission(ask, allow)
      PROVE  QuietInv'
  <2>1. /\ alive /\ pending # None /\ pending' = None /\ phase' = "Running"
        /\ UNCHANGED <<alive, active, comp, closing, unloads>>
    BY <1>4 DEF RespondPermission, Matches, None
  <2> QED BY <1>a, <2>1 DEF QuietInv, IdleIsQuiet, UnloadOwed
<1>5. ASSUME NEW c \in Callers, UnloadRefused(c)
      PROVE  QuietInv'
  <2>1. /\ unloads' = [unloads EXCEPT ![c] = "closed"]
        /\ UNCHANGED <<alive, phase, active, comp, pending, closing>>
    BY <1>5 DEF UnloadRefused
  <2> QED BY <1>a, <2>1 DEF QuietInv, IdleIsQuiet, UnloadOwed
<1>6. ASSUME NEW c \in Callers, UnloadDeferred(c)
      PROVE  QuietInv'
  <2>1. /\ alive /\ Busy /\ phase' = "Closing" /\ closing' = c
        /\ pending' = pending \/ pending' = None
        /\ UNCHANGED <<alive, active, comp>>
    BY <1>6 DEF UnloadDeferred, RejectPending
  <2>2. IdleIsQuiet'
    BY <1>a, <2>1 DEF IdleIsQuiet, Busy
  <2>3. \A u \in Callers : unloads'[u] = "waiting" => u = c
    BY <1>a, <1>6 DEF UnloadDeferred, UnloadOwed
  <2>4. UnloadOwed'
    BY <2>1, <2>3 DEF UnloadOwed, Busy
  <2> QED BY <1>a, <2>2, <2>4 DEF QuietInv
<1>7. ASSUME NEW c \in Callers, UnloadNow(c)
      PROVE  QuietInv'
  <2>1. \A u \in Callers : unloads'[u] # "waiting"
    BY <1>a, <1>7 DEF UnloadNow, UnloadOwed, Busy
  <2>2. Stop
    BY <1>7 DEF UnloadNow
  <2> QED BY <1>a, <2>1, <2>2, StopQuiet DEF QuietInv
<1>8. CASE Compact
  <2>1. /\ alive /\ phase = "Idle" /\ comp' = used.comps + 1 /\ phase' = "Compacting"
        /\ UNCHANGED <<alive, active, pending, closing, unloads>>
    BY <1>8 DEF Compact
  <2>2. comp' # None
    BY <1>u, <2>1, CountPositive
  <2> QED BY <1>a, <2>1, <2>2 DEF QuietInv, IdleIsQuiet, UnloadOwed
<1>9. CASE Keep \/ KeepOrCompactFails
  BY <1>9, <1>b DEF Keep, KeepOrCompactFails
<1>10. CASE HandleAsk
  <2>1. CASE active = None \/ active # Head(events).turn
    BY <1>10, <2>1, <1>b DEF HandleAsk
  <2>2. CASE ~(active = None \/ active # Head(events).turn)
    <3>1. phase' = "WaitingPermission" /\ UNCHANGED <<alive, active, comp, closing, unloads>>
      BY <1>10, <2>2 DEF HandleAsk
    <3> QED BY <1>a, <2>2, <3>1 DEF QuietInv, IdleIsQuiet, UnloadOwed
  <2> QED BY <2>1, <2>2
<1>11. CASE HandleFinished
  <2>1. /\ alive /\ active # None /\ closing = None
        /\ active' = None /\ phase' = "Idle" /\ pending' = None
        /\ UNCHANGED <<alive, comp, closing, unloads>>
    BY <1>11 DEF HandleFinished, Receives, UnloadWaits, RejectPending
  <2>2. comp = None
    BY <1>a, <2>1 DEF IdleIsQuiet
  <2>3. UnloadOwed'
    BY <1>a, <2>1, CallersAssumption DEF UnloadOwed, None
  <2> QED BY <1>a, <2>1, <2>2, <2>3 DEF QuietInv, IdleIsQuiet
<1>12. CASE HandleFinishedClosing
  <2>1. Stop
    BY <1>12 DEF HandleFinishedClosing
  <2>2. \A u \in Callers : unloads'[u] = "waiting" => unloads[u] = "waiting" /\ u # closing
    BY <1>a, <1>12 DEF HandleFinishedClosing
  <2> QED BY <1>a, <2>1, <2>2, StopQuiet DEF QuietInv
<1>13. CASE HandleCompacted
  <2>1. /\ alive /\ comp # None /\ closing = None /\ comp' = None /\ phase' = "Idle"
        /\ UNCHANGED <<alive, active, pending, closing, unloads>>
    BY <1>13 DEF HandleCompacted, Receives, UnloadWaits
  <2>2. active = None
    BY <1>a, <2>1 DEF IdleIsQuiet
  <2>3. UnloadOwed'
    BY <1>a, <2>1, CallersAssumption DEF UnloadOwed, None
  <2> QED BY <1>a, <2>1, <2>2, <2>3 DEF QuietInv, IdleIsQuiet
<1>14. CASE HandleCompactedClosing
  <2>1. Stop
    BY <1>14 DEF HandleCompactedClosing
  <2>2. \A u \in Callers : unloads'[u] = "waiting" => unloads[u] = "waiting" /\ u # closing
    BY <1>a, <1>14 DEF HandleCompactedClosing
  <2> QED BY <1>a, <2>1, <2>2, StopQuiet DEF QuietInv
<1>15. CASE HandleExpiredDeletes
  <2>1. Stop
    BY <1>15 DEF HandleExpiredDeletes
  <2>2. \A u \in Callers : unloads'[u] = "waiting" => unloads[u] = "waiting" /\ u # closing
    BY <1>a, <1>15 DEF HandleExpiredDeletes
  <2> QED BY <1>a, <2>1, <2>2, StopQuiet DEF QuietInv
<1>16. CASE HandlePersist \/ HandleExpired
  BY <1>16, <1>b DEF HandlePersist, HandleExpired
<1>17. CASE TurnStep
  BY <1>17, <1>b
     DEF TurnStep, LoopCancelled, BeginStep, MaybeCompact, CompactInTurn, ReplyWithoutTools,
         ReplyWithTools, RetryModel, RecoverModel, FailModel, Backoff, AskPermission, TakeDecision,
         EndBatch, Saved, SaveLost, DropTurn
<1>18. CASE CompactionTask \/ Tick \/ TimerFires
  BY <1>18, <1>b DEF CompactionTask, Tick, TimerFires
<1>19. CASE Spawn
  <2>1. /\ phase' = "Idle" /\ active' = None /\ comp' = None /\ pending' = None
        /\ unloads' = [c \in Callers |-> "no"]
    BY <1>19 DEF Spawn
  <2> QED BY <1>a, <2>1 DEF QuietInv, IdleIsQuiet, UnloadOwed
<1>20. CASE UNCHANGED vars
  BY <1>20, <1>b
<1> QED
  BY <1>1, <1>2, <1>3, <1>4, <1>5, <1>6, <1>7, <1>8, <1>9, <1>10, <1>11, <1>12, <1>13, <1>14,
     <1>15, <1>16, <1>17, <1>18, <1>19, <1>20
     DEF Next, HandleEvent, Unload

LEMMA QuietInit == Init => QuietInv
<1> SUFFICES ASSUME Init PROVE IdleIsQuiet /\ UnloadOwed
  BY InitType DEF QuietInv
<1> QED BY DEF Init, IdleIsQuiet, UnloadOwed

(* The phase Idle means that neither a turn nor a compaction runs, the two  *)
(* never run together, and a registered permission request has its turn.    *)
THEOREM PhaseCorrect == Spec => []IdleIsQuiet
<1>1. QuietInv /\ [Next]_vars => QuietInv'
  BY QuietStep
<1>2. QuietInv => IdleIsQuiet
  BY DEF QuietInv
<1> QED BY QuietInit, <1>1, <1>2, PTL DEF Spec

(* An unload that was told to wait is remembered by a live actor that still *)
(* has something to wait for.                                               *)
THEOREM UnloadCorrect == Spec => []UnloadOwed
<1>1. QuietInv /\ [Next]_vars => QuietInv'
  BY QuietStep
<1>2. QuietInv => UnloadOwed
  BY DEF QuietInv
<1> QED BY QuietInit, <1>1, <1>2, PTL DEF Spec

-----------------------------------------------------------------------------
(* The refinement of SessionContract.                                         *)

(* Every turn that started has an ending, or has none yet.                    *)
TurnsCounted == Len(ended) = used.turns

(* The active turn is the last that started, it has not ended, and no grace   *)
(* period runs under it.                                                      *)
ActiveIsLast == active # None =>
  active = used.turns /\ ended[active] = "running" /\ ~Graced

(* The caller the actor remembers is one that waits.                          *)
ClosingWaits == closing # None => unloads[closing] = "waiting"

RefinementInv == QuietInv /\ TurnsCounted /\ ActiveIsLast /\ ClosingWaits

-----------------------------------------------------------------------------
LEMMA RefinementTypes ==
  ASSUME RefinementInv
  PROVE  /\ used \in Counters /\ used.turns \in Nat /\ active \in Nat
         /\ closing \in Callers \cup {None} /\ rec \in Record
         /\ ended \in Seq(Outcomes \cup {"running"})
         /\ unloads \in [Callers -> {"no", "waiting", "ok", "error", "closed"}]
         /\ sent \in Seq([kind : Kinds, turn : Nat, queued : BOOLEAN])
BY DEF RefinementInv, QuietInv, TypeInv, TypeOK, ActorType, HistoryType, Counters

LEMMA RefinementInit == Init => RefinementInv
<1> SUFFICES ASSUME Init PROVE RefinementInv
  OBVIOUS
<1>1. Len(ended) = 0 /\ used.turns = 0
  BY DEF Init
<1> QED BY <1>1, QuietInit DEF Init, RefinementInv, TurnsCounted, ActiveIsLast, ClosingWaits

(* A failed write is counted, and counts no turn.                             *)
LEMMA FaultCountsNoTurn ==
  ASSUME RefinementInv, Fault
  PROVE  used'.turns = used.turns
BY RefinementTypes DEF Fault, Counters

(* What neither starts nor ends anything keeps what the mapping rests on.     *)
LEMMA CalmStep ==
  ASSUME RefinementInv, QuietInv', used'.turns = used.turns,
         UNCHANGED <<active, closing, ended, unloads>>,
         active # None /\ Graced' => Graced
  PROVE  RefinementInv'
BY DEF RefinementInv, TurnsCounted, ActiveIsLast, ClosingWaits

(* A session that stops has nothing to answer any more.                       *)
LEMMA StopStep ==
  ASSUME RefinementInv, QuietInv', Stop, used'.turns = used.turns, Len(ended') = Len(ended)
  PROVE  RefinementInv'
BY DEF RefinementInv, TurnsCounted, ActiveIsLast, ClosingWaits, Stop

(* A prompt takes the deadline of a session away that it has.                 *)
LEMMA AwakeNotGraced ==
  ASSUME RefinementInv, NEW kind,
         rec' = Awake \/ rec' = WithPrompt(kind)
  PROVE  ~Graced'
<1>1. Awake \in Record /\ (~Awake.eph \/ Awake.deadline = None)
  BY RefinementTypes DEF Awake, Graced, Record, None
<1>2. WithPrompt(kind).eph = Awake.eph /\ WithPrompt(kind).deadline = Awake.deadline
  BY <1>1 DEF WithPrompt, Record
<1> QED BY <1>1, <1>2 DEF Graced

(* The end of a turn is written where the turn began.                         *)
LEMMA EndKeepsLength ==
  ASSUME RefinementInv, NEW o
  PROVE  Len([ended EXCEPT ![active] = o]) = Len(ended)
<1>1. ended \in Seq(Outcomes \cup {"running"})
  BY RefinementTypes
<1>2. DOMAIN [ended EXCEPT ![active] = o] = DOMAIN ended
  OBVIOUS
<1> DEFINE S == Outcomes \cup {"running"} \cup {o}
<1>3. [ended EXCEPT ![active] = o] \in Seq(S)
  <2>1. ended \in Seq(S)
    BY <1>1
  <2> QED BY <2>1, ExceptType
<1> HIDE DEF S
<1> QED BY <1>1, <1>2, <1>3, LenProperties

-----------------------------------------------------------------------------
LEMMA RefinementStep ==
  ASSUME RefinementInv, [Next]_vars
  PROVE  RefinementInv'
<1> USE DEF vars, actorVars, turnVars, compVars, storeVars, histVars, turnFrame
<1>a. QuietInv'
  BY QuietStep DEF RefinementInv
<1>t. /\ used \in Counters /\ used.turns \in Nat /\ rec \in Record
      /\ unloads \in [Callers -> {"no", "waiting", "ok", "error", "closed"}]
      /\ ended \in Seq(Outcomes \cup {"running"})
  BY RefinementTypes
<1>1. ASSUME NEW kind \in Kinds, PromptStarts(kind)
      PROVE  RefinementInv'
  <2>1. /\ ended' = Append(ended, "running") /\ used'.turns = used.turns + 1
        /\ active' = used.turns + 1 /\ UNCHANGED <<closing, unloads>>
        /\ rec' = WithPrompt(kind)
    BY <1>1, <1>t DEF PromptStarts, Counters
  <2>2. Len(ended') = Len(ended) + 1 /\ ended'[Len(ended) + 1] = "running"
    BY <1>t, <2>1, AppendProperties
  <2>3. ~Graced'
    BY <2>1, AwakeNotGraced
  <2> QED BY <1>a, <2>1, <2>2, <2>3 DEF RefinementInv, TurnsCounted, ActiveIsLast, ClosingWaits
<1>2. CASE Prompt /\ ~\E kind \in Kinds : PromptStarts(kind)
  <2>1. UNCHANGED <<active, closing, ended, unloads>> /\ used'.turns = used.turns
    BY <1>2, FaultCountsNoTurn
       DEF Prompt, PromptWakeFails, PromptSaveFails, PromptRecordFails, PromptSteers,
           PromptSteerFails, SaveFails
  <2>2. \E kind : rec' = Awake \/ rec' = WithPrompt(kind)
    BY <1>2
       DEF Prompt, PromptWakeFails, PromptSaveFails, PromptRecordFails, PromptSteers,
           PromptSteerFails
  <2> QED BY <1>a, <2>1, <2>2, AwakeNotGraced, CalmStep
<1>3. CASE Cancel \/ \E ask \in 1..MaxAsks, allow \in BOOLEAN : RespondPermission(ask, allow)
  BY <1>3, <1>a, CalmStep DEF Cancel, RespondPermission, Graced
<1>4. ASSUME NEW c \in Callers, UnloadRefused(c)
      PROVE  RefinementInv'
  <2>1. unloads' = [unloads EXCEPT ![c] = "closed"] /\ unloads[c] = "no"
        /\ UNCHANGED <<active, closing, ended, used, rec>>
    BY <1>4 DEF UnloadRefused
  <2> QED BY <1>a, <1>t, <2>1
          DEF RefinementInv, TurnsCounted, ActiveIsLast, ClosingWaits, Graced
<1>5. ASSUME NEW c \in Callers, UnloadDeferred(c)
      PROVE  RefinementInv'
  BY <1>5, <1>a DEF UnloadDeferred, RefinementInv, TurnsCounted, ActiveIsLast, ClosingWaits, Graced
<1>6. ASSUME NEW c \in Callers, UnloadNow(c)
      PROVE  RefinementInv'
  BY <1>6, <1>a, FaultCountsNoTurn, StopStep DEF UnloadNow, SaveFails
<1>7. CASE Compact
  BY <1>7, <1>a, <1>t, CalmStep DEF Compact, Graced, Counters
<1>8. CASE Keep \/ KeepOrCompactFails
  <2>1. CASE Keep
    <3>1. ~rec'.eph
      BY <1>t, <2>1 DEF Keep, Record
    <3> QED BY <1>a, <2>1, <3>1, CalmStep DEF Keep, Graced
  <2>2. CASE KeepOrCompactFails
    BY <1>a, <2>2, FaultCountsNoTurn, CalmStep DEF KeepOrCompactFails, SaveFails, Graced
  <2> QED BY <1>8, <2>1, <2>2
<1>9. CASE HandlePersist
  <2>1. rec'.eph = rec.eph /\ rec'.deadline = rec.deadline
    BY <1>9, <1>t DEF HandlePersist, Record
  <2> QED BY <1>9, <1>a, <2>1, FaultCountsNoTurn, CalmStep DEF HandlePersist, SaveFails, Graced
<1>10. CASE HandleAsk \/ HandleExpired
  BY <1>10, <1>a, CalmStep DEF HandleAsk, HandleExpired, Graced
<1>11. CASE HandleFinished
  <2>1. Len(ended') = Len(ended)
    BY <1>11, EndKeepsLength DEF HandleFinished
  <2>2. active' = None /\ closing = None /\ UNCHANGED closing /\ used'.turns = used.turns
    BY <1>11, FaultCountsNoTurn DEF HandleFinished, UnloadWaits, SaveFails
  <2> QED BY <1>a, <2>1, <2>2 DEF RefinementInv, TurnsCounted, ActiveIsLast, ClosingWaits
<1>12. CASE HandleFinishedClosing
  <2>1. Len(ended') = Len(ended)
    BY <1>12, EndKeepsLength DEF HandleFinishedClosing
  <2>2. Stop /\ used'.turns = used.turns
    BY <1>12, FaultCountsNoTurn DEF HandleFinishedClosing, SaveFails
  <2> QED BY <1>a, <2>1, <2>2, StopStep
<1>13. CASE HandleCompacted
  <2>1. rec'.eph = rec.eph /\ rec'.deadline = rec.deadline
    BY <1>13, <1>t DEF HandleCompacted, Record
  <2>2. UNCHANGED <<active, closing, ended, unloads>> /\ used'.turns = used.turns
    BY <1>13, FaultCountsNoTurn DEF HandleCompacted, SaveFails
  <2> QED BY <1>a, <2>1, <2>2, CalmStep DEF Graced
<1>14. CASE HandleCompactedClosing \/ HandleExpiredDeletes
  <2>1. Stop /\ UNCHANGED ended /\ used'.turns = used.turns
    BY <1>14, FaultCountsNoTurn DEF HandleCompactedClosing, HandleExpiredDeletes, SaveFails
  <2> QED BY <1>a, <2>1, StopStep
<1>15. CASE TurnStep
  <2>1. used'.turns = used.turns
    BY <1>15, <1>t
       DEF TurnStep, LoopCancelled, BeginStep, MaybeCompact, CompactInTurn, ReplyWithoutTools,
           ReplyWithTools, RetryModel, RecoverModel, FailModel, Backoff, AskPermission, TakeDecision,
           EndBatch, Saved, SaveLost, DropTurn, Round, Counters
  <2>2. UNCHANGED <<active, closing, ended, unloads, rec>>
    BY <1>15
       DEF TurnStep, LoopCancelled, BeginStep, MaybeCompact, CompactInTurn, ReplyWithoutTools,
           ReplyWithTools, RetryModel, RecoverModel, FailModel, Backoff, AskPermission, TakeDecision,
           EndBatch, Saved, SaveLost, DropTurn
  <2> QED BY <1>a, <2>1, <2>2, CalmStep DEF Graced
<1>16. CASE CompactionTask \/ Tick \/ TimerFires \/ UNCHANGED vars
  BY <1>16, <1>a, CalmStep DEF CompactionTask, Tick, TimerFires, Graced
<1>17. CASE Spawn
  <2>1. active' = None /\ closing' = None /\ UNCHANGED ended /\ used'.turns = used.turns
    BY <1>17, <1>t DEF Spawn, Counters
  <2> QED BY <1>a, <2>1 DEF RefinementInv, TurnsCounted, ActiveIsLast, ClosingWaits
<1> QED
  BY <1>1, <1>2, <1>3, <1>4, <1>5, <1>6, <1>7, <1>8, <1>9, <1>10, <1>11, <1>12, <1>13, <1>14,
     <1>15, <1>16, <1>17
     DEF Next, HandleEvent, Unload

-----------------------------------------------------------------------------
(* Only a busy session has somebody waiting, and it is whom the actor         *)
(* remembers.                                                                 *)
LEMMA WhoWaits ==
  ASSUME RefinementInv
  PROVE  /\ Contract!Waiting = IF closing = None THEN {} ELSE {closing}
         /\ active = None /\ comp = None => Contract!Waiting = {}
<1>1. closing \in Callers \cup {None} /\ None \notin Callers
  BY RefinementTypes, CallersAssumption DEF None
<1> QED BY <1>1 DEF RefinementInv, QuietInv, UnloadOwed, ClosingWaits, Contract!Waiting

(* What a prompt is answered is what the contract appends.                    *)
LEMMA AnswerAppends ==
  ASSUME RefinementInv, NEW kind, NEW turn, NEW queued, Answer(kind, turn, queued)
  PROVE  Answers' = Append(Answers, turn)
<1> DEFINE e == [kind |-> kind, turn |-> turn, queued |-> queued]
<1>1. sent \in Seq([kind : Kinds, turn : Nat, queued : BOOLEAN]) /\ sent' = Append(sent, e)
  BY RefinementTypes DEF Answer
<1>2. /\ Len(sent') = Len(sent) + 1 /\ Len(sent) \in Nat
      /\ \A i \in 1 .. Len(sent) : sent'[i] = sent[i]
      /\ sent'[Len(sent) + 1] = e
  BY <1>1
<1> DEFINE S == Nat \cup {turn}
<1>3. \A i \in 1 .. Len(sent) : sent[i].turn \in S
  <2> SUFFICES ASSUME NEW i \in 1 .. Len(sent) PROVE sent[i].turn \in Nat
    OBVIOUS
  <2>1. sent[i] \in [kind : Kinds, turn : Nat, queued : BOOLEAN]
    BY <1>1, ElementOfSeq, Zenon
  <2> QED BY <2>1
<1>4. Answers \in Seq(S) /\ Len(Answers) = Len(sent) /\ \A i \in 1 .. Len(sent) : Answers[i] = sent[i].turn
  <2>1. Answers = [i \in 1 .. Len(sent) |-> sent[i].turn]
    BY DEF Answers
  <2> QED BY <1>2, <1>3, <2>1
<1>5. Answers' \in Seq(S) /\ Len(Answers') = Len(sent) + 1
      /\ \A i \in 1 .. Len(sent) + 1 : Answers'[i] = sent'[i].turn
  <2>1. Answers' = [i \in 1 .. Len(sent) + 1 |-> sent'[i].turn]
    BY <1>2 DEF Answers
  <2>2. \A i \in 1 .. Len(sent) + 1 : sent'[i].turn \in S
    BY <1>2, <1>3
  <2> QED BY <1>2, <2>1, <2>2
<1>6. /\ Append(Answers, turn) \in Seq(S) /\ Len(Append(Answers, turn)) = Len(sent) + 1
      /\ \A i \in 1 .. Len(sent) : Append(Answers, turn)[i] = Answers[i]
      /\ Append(Answers, turn)[Len(sent) + 1] = turn
  <2>1. turn \in S
    OBVIOUS
  <2> HIDE DEF S
  <2> QED BY <1>4, <2>1, AppendProperties
<1>7. \A i \in 1 .. Len(sent) + 1 : Answers'[i] = Append(Answers, turn)[i]
  BY <1>2, <1>4, <1>5, <1>6
<1> HIDE DEF S
<1> QED BY <1>5, <1>6, <1>7, SeqEqual

LEMMA ContractInit == Init => Contract!ContractInit
BY DEF Init, Contract!ContractInit, Job, Answers

(* What changes nothing a client sees is no step of the contract.             *)
LEMMA UnseenStep ==
  ASSUME UNCHANGED <<alive, active, comp, ended, sent, unloads>>
  PROVE  UNCHANGED Contract!contractVars
BY DEF Contract!contractVars, Job, Answers

LEMMA RefusedPrompt ==
  ASSUME RefinementInv, alive, NEW kind, NEW queued, Answer(kind, None, queued),
         UNCHANGED <<alive, active, comp, ended, unloads>>
  PROVE  Contract!RefusePrompt
BY AnswerAppends DEF Contract!RefusePrompt, Contract!NoTurn, None, Job

(* The actor stops after a job: whoever waited gets the answer.               *)
LEMMA StopCloses ==
  ASSUME RefinementInv, Stop, NEW answer,
         unloads' = [c \in Callers |-> IF c = closing THEN answer ELSE unloads[c]]
  PROVE  Contract!CloseFor(answer) /\ Job' = "none"
<1>1. \A c \in Callers : c \in Contract!Waiting <=> c = closing
  BY WhoWaits, CallersAssumption DEF None
<1> QED BY <1>1 DEF Stop, Contract!CloseFor, Job

(* Every step of the actor is a step of the contract, or nothing changes.     *)
LEMMA ContractStep ==
  ASSUME RefinementInv, [Next]_vars
  PROVE  [Contract!ContractNext]_Contract!contractVars
<1> USE DEF actorVars, turnVars, compVars, storeVars, histVars, turnFrame
<1>t. /\ used \in Counters /\ used.turns \in Nat
      /\ unloads \in [Callers -> {"no", "waiting", "ok", "error", "closed"}]
      /\ ended \in Seq(Outcomes \cup {"running"})
  BY RefinementTypes
<1>q. IdleIsQuiet /\ TypeOK
  BY DEF RefinementInv, QuietInv, TypeInv
<1>1. ASSUME NEW kind \in Kinds, PromptStarts(kind)
      PROVE  Contract!StartTurn
  <2>1. /\ alive /\ active = None /\ comp = None
        /\ ended' = Append(ended, "running")
        /\ active' = used.turns + 1 /\ Answer(kind, active', FALSE)
        /\ UNCHANGED <<alive, comp, unloads>>
    BY <1>1, <1>t DEF PromptStarts, Admits, Counters
  <2>2. Len(ended') = active' /\ active' # None
    BY <1>t, <2>1, AppendProperties DEF RefinementInv, TurnsCounted, None
  <2>3. Answers' = Append(Answers, Len(ended'))
    BY <2>1, <2>2, AnswerAppends
  <2> QED BY <2>1, <2>2, <2>3, WhoWaits DEF Contract!StartTurn, Job
<1>2. ASSUME NEW kind \in Kinds, PromptSteers(kind)
      PROVE  Contract!RefusePrompt \/ Contract!SteerTurn
  <2>1. alive /\ active # None /\ UNCHANGED <<alive, active, comp, ended, unloads>>
    BY <1>2 DEF PromptSteers, Admits
  <2>2. CASE pc = "off"
    BY <1>2, <2>1, <2>2, RefusedPrompt DEF PromptSteers
  <2>3. CASE pc # "off"
    <3>1. Answers' = Append(Answers, active)
      BY <1>2, <2>3, AnswerAppends DEF PromptSteers
    <3>2. active = Len(ended)
      BY <2>1 DEF RefinementInv, TurnsCounted, ActiveIsLast
    <3> QED BY <2>1, <3>1, <3>2 DEF Contract!SteerTurn, Job
  <2> QED BY <2>2, <2>3
<1>3. ASSUME NEW kind \in Kinds,
             PromptWakeFails(kind) \/ PromptSaveFails(kind) \/ PromptRecordFails \/ PromptSteerFails
      PROVE  Contract!RefusePrompt
  <2>1. alive /\ UNCHANGED <<alive, active, comp, ended, unloads>>
    BY <1>3 DEF PromptWakeFails, PromptSaveFails, PromptRecordFails, PromptSteerFails, Admits
  <2>2. \E k, q : Answer(k, None, q)
    BY <1>3 DEF PromptWakeFails, PromptSaveFails, PromptRecordFails, PromptSteerFails
  <2> QED BY <2>1, <2>2, RefusedPrompt
<1>4. ASSUME NEW c \in Callers, UnloadRefused(c)
      PROVE  Contract!RefuseToLeave(c)
  <2>1. active # None \/ comp # None
    BY <1>4, <1>q DEF UnloadRefused, IdleIsQuiet
  <2> QED BY <1>4, <2>1 DEF UnloadRefused, Contract!RefuseToLeave, Job, Answers
<1>5. ASSUME NEW c \in Callers, UnloadDeferred(c)
      PROVE  Contract!WaitToLeave(c)
  <2>1. \A d \in Callers : d \in Contract!Waiting <=> d = closing
    BY WhoWaits, CallersAssumption DEF None
  <2>2. /\ alive /\ Busy /\ unloads[c] = "no" /\ UNCHANGED <<alive, active, comp, ended, sent>>
        /\ unloads' = [u \in Callers |-> IF u = c THEN "waiting"
                                         ELSE IF u = closing THEN "closed" ELSE unloads[u]]
    BY <1>5 DEF UnloadDeferred
  <2> QED BY <2>1, <2>2 DEF Contract!WaitToLeave, Job, Answers, Busy
<1>6. ASSUME NEW c \in Callers, UnloadNow(c)
      PROVE  Contract!LeaveAtOnce(c)
  BY <1>6 DEF UnloadNow, Stop, Busy, Contract!LeaveAtOnce, Job, Answers
<1>7. CASE Compact
  <2>1. /\ alive /\ active = None /\ comp = None /\ comp' = used.comps + 1
        /\ UNCHANGED <<alive, active, ended, sent, unloads>>
    BY <1>7, <1>q, <1>t DEF Compact, IdleIsQuiet, Counters
  <2>2. comp' # None
    BY <1>t, <2>1, CountPositive
  <2> QED BY <2>1, <2>2, WhoWaits DEF Contract!StartCompaction, Contract!ContractNext, Job, Answers
<1>8. ASSUME Receives("Finished"), active # None, alive,
             ended' = [ended EXCEPT ![active] = Head(events).outcome]
      PROVE  /\ Job = "turn" /\ ended[Len(ended)] = "running"
             /\ \E o \in Contract!Endings : ended' = [ended EXCEPT ![Len(ended)] = o]
  <2>1. Head(events).outcome \in Outcomes
    <3>1. Head(events) \in Event /\ Head(events).type = "Finished"
      BY <1>8, <1>q, HeadType
    <3> QED BY <3>1 DEF Event
  <2>2. active = Len(ended) /\ ended[active] = "running"
    BY <1>8 DEF RefinementInv, TurnsCounted, ActiveIsLast
  <2> QED BY <1>8, <2>1, <2>2 DEF Contract!Endings, Outcomes, Job
<1>9. CASE HandleFinished
  <2>1. /\ alive /\ active # None /\ closing = None /\ active' = None
        /\ UNCHANGED <<alive, comp, sent, unloads>>
    BY <1>9 DEF HandleFinished, Receives, UnloadWaits
  <2>2. comp = None
    BY <1>q, <2>1 DEF IdleIsQuiet
  <2>3. Contract!Waiting = {}
    BY <2>1, WhoWaits
  <2> QED BY <1>8, <1>9, <2>1, <2>2, <2>3
          DEF HandleFinished, Contract!EndJob, Contract!ContractNext, Job, Answers
<1>10. CASE HandleFinishedClosing
  <2>1. alive /\ active # None /\ closing # None /\ Stop /\ UNCHANGED sent
    BY <1>10 DEF HandleFinishedClosing, Receives, UnloadWaits
  <2>2. PICK answer \in {"ok", "error"} : unloads' = [unloads EXCEPT ![closing] = answer]
    BY <1>10 DEF HandleFinishedClosing
  <2>3. Contract!CloseFor(answer) /\ Job' = "none"
    BY <1>t, <2>1, <2>2, StopCloses
  <2>4. Contract!Waiting # {}
    BY <2>1, WhoWaits
  <2> QED BY <1>8, <1>10, <2>1, <2>3, <2>4
          DEF HandleFinishedClosing, Contract!EndJob, Contract!ContractNext, Answers
<1>11. CASE HandleCompacted
  <2>1. /\ alive /\ comp # None /\ closing = None /\ comp' = None
        /\ UNCHANGED <<alive, active, ended, sent, unloads>>
    BY <1>11 DEF HandleCompacted, Receives, UnloadWaits
  <2>2. active = None
    BY <1>q, <2>1 DEF IdleIsQuiet
  <2>3. Contract!Waiting = {}
    BY <2>1, WhoWaits
  <2> QED BY <2>1, <2>2, <2>3 DEF Contract!EndJob, Contract!ContractNext, Job, Answers
<1>12. CASE HandleCompactedClosing
  <2>1. alive /\ comp # None /\ closing # None /\ Stop /\ UNCHANGED <<ended, sent>>
    BY <1>12 DEF HandleCompactedClosing, Receives, UnloadWaits
  <2>2. PICK answer \in {"ok", "error"} : unloads' = [unloads EXCEPT ![closing] = answer]
    BY <1>12 DEF HandleCompactedClosing
  <2>3. Contract!CloseFor(answer) /\ Job' = "none"
    BY <1>t, <2>1, <2>2, StopCloses
  <2>4. Contract!Waiting # {} /\ Job = "compaction"
    BY <1>q, <2>1, WhoWaits DEF IdleIsQuiet, Job
  <2> QED BY <2>1, <2>3, <2>4 DEF Contract!EndJob, Contract!ContractNext, Answers
<1>13. CASE HandleExpiredDeletes
  <2>1. alive /\ Stop /\ Due /\ UNCHANGED <<ended, sent>>
        /\ unloads' = [u \in Callers |-> IF u = closing THEN "closed" ELSE unloads[u]]
    BY <1>13 DEF HandleExpiredDeletes, Receives
  <2>2. active = None
    BY <2>1 DEF RefinementInv, ActiveIsLast, Graced, Due
  <2> QED BY <2>1, <2>2, StopCloses DEF Contract!ExpireAway, Contract!ContractNext, Job, Answers
<1>14. CASE Spawn
  BY <1>14 DEF Spawn, Contract!LoadAgain, Contract!ContractNext, Job, Answers
<1>15. CASE \/ Cancel \/ Keep \/ KeepOrCompactFails \/ HandlePersist \/ HandleAsk \/ HandleExpired
            \/ \E ask \in 1..MaxAsks, allow \in BOOLEAN : RespondPermission(ask, allow)
            \/ CompactionTask \/ Tick \/ TimerFires \/ UNCHANGED vars
  BY <1>15, UnseenStep
     DEF Cancel, Keep, KeepOrCompactFails, HandlePersist, HandleAsk, HandleExpired, RespondPermission,
         CompactionTask, Tick, TimerFires, vars
<1>16. CASE TurnStep
  BY <1>16, UnseenStep
     DEF TurnStep, LoopCancelled, BeginStep, MaybeCompact, CompactInTurn, ReplyWithoutTools,
         ReplyWithTools, RetryModel, RecoverModel, FailModel, Backoff, AskPermission, TakeDecision,
         EndBatch, Saved, SaveLost, DropTurn
<1>17. CASE Prompt
  BY <1>1, <1>2, <1>3, <1>17 DEF Prompt, Kinds, Contract!ContractNext
<1>18. CASE Unload
  BY <1>4, <1>5, <1>6, <1>18 DEF Unload, Contract!ContractNext
<1> QED
  BY <1>7, <1>9, <1>10, <1>11, <1>12, <1>13, <1>14, <1>15, <1>16, <1>17, <1>18
     DEF Next, HandleEvent

(* A client of a session cannot tell the actor, its tasks, its queues, its    *)
(* failing writes and its restarts from the contract.                         *)
THEOREM ContractImplemented == Spec => ImplementsContract
<1>1. Init => RefinementInv /\ Contract!ContractInit
  BY RefinementInit, ContractInit
<1>2. RefinementInv /\ [Next]_vars => RefinementInv'
  BY RefinementStep
<1>3. RefinementInv /\ [Next]_vars => [Contract!ContractNext]_Contract!contractVars
  BY ContractStep
<1> QED BY <1>1, <1>2, <1>3, PTL DEF Spec, ImplementsContract, Contract!ContractSpec
=============================================================================
