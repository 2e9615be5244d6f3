------------------------ MODULE SessionServiceProofs ------------------------
(* SessionService for any number of callers, calls and failures: the types,   *)
(* one actor at a time that knows all that is stored (OneActorKnows), what    *)
(* was acknowledged and what was deleted stays so (DeletionIsFinal), and no   *)
(* turn on an archived session (ArchivedIsQuiet).                             *)
EXTENDS SessionService, SequenceTheorems, TLAPS

-----------------------------------------------------------------------------
(* The calls: which steps an operation goes through, and the locks it holds. *)

Loading  == {"relook", "load", "prepare", "install"}
Erasing  == {"inspect", "erase", "unmark"}
Quitting == {"quit", "await"}
Listing  == {"scan", "gather", "transcript", "retitle", "status"}

Agrees(op, pc) ==
  /\ op = "none" <=> pc = "idle"
  /\ pc = "mlock" => op \in Mutating
  /\ pc = "check" => op \in {"prompt", "rebind", "archive"}
  /\ pc \in {"look"} \cup Loading => op \in {"open", "prompt", "archive"}
  /\ pc = "slock" => op \in {"open", "prompt", "archive", "delete"}
  /\ pc = "request" => op \in {"open", "list", "prompt", "rebind", "archive"}
  /\ pc \in {"bind", "reread", "rewrite"} => op = "rebind"
  /\ pc \in {"find", "drop"} => op \in {"unload", "archive"}
  /\ pc \in Quitting => op \in {"unload", "archive", "delete"}
  /\ pc = "archive" => op = "archive"
  /\ pc = "unarchive" => op = "unarchive"
  /\ pc \in {"mark"} \cup Erasing => op = "delete"
  /\ pc \in Listing => op = "list"

HoldsSession(op, pc) ==
  pc \in Loading \cup {"mark"} \cup Erasing \/ (op = "delete" /\ pc \in Quitting)
HoldsMutation(op, pc) == op \in Mutating /\ pc # "mlock"

StepsAgree == \A c \in Callers : Agrees(calls[c].op, calls[c].pc)
SessionLocked == \A c \in Callers : HoldsSession(calls[c].op, calls[c].pc) <=> slock = c
MutationLocked == \A c \in Callers : HoldsMutation(calls[c].op, calls[c].pc) <=> mlock = c

Deletes(c) == calls[c].op = "delete"

CallsInv == StepsAgree /\ SessionLocked /\ MutationLocked

(* A call is numbered when it starts, and what it asks is an actor.          *)
CallsNumbered == \A c \in Callers : calls[c].op # "none" => calls[c].id # None
HandlesLead ==
  \A c \in Callers : calls[c].pc \in {"request", "drop"} \cup Quitting => calls[c].h # None

TypeInv == TypeOK /\ CallsNumbered /\ HandlesLead

-----------------------------------------------------------------------------
(* The actors: who may still serve, and who waits for the end of whom.       *)

ClosersWait ==
  /\ \A a \in 1..Len(actors) :
       /\ actors[a].turn => Serving(a)
       /\ actors[a].state = "closing" =>
            /\ actors[a].turn /\ actors[a].closer \in Callers
            /\ At(actors[a].closer, "await") /\ calls[actors[a].closer].h = a
  /\ \A c \in Callers : At(c, "await") =>
       actors[calls[c].h].state = "closing" /\ actors[calls[c].h].closer = c

(* A delete takes the handle out, and keeps others from putting one in.      *)
DeleteTakesHandle ==
  /\ deleting => handle = None
  /\ \A c \in Callers : Deletes(c) /\ calls[c].pc \in Quitting \cup Erasing => deleting

(* An actor that serves is the one the handle leads to, or a delete has it.  *)
ServingIsFound ==
  \A a \in 1..Len(actors) : Serving(a) =>
    handle = a \/ \E c \in Callers : Deletes(c) /\ calls[c].pc \in Quitting /\ calls[c].h = a

(* While one is loaded none serves, and a handle is dropped after its actor. *)
LoadedAlone ==
  \A c \in Callers : calls[c].pc \in {"load", "prepare", "install"} =>
    \A a \in 1..Len(actors) : ~Serving(a)
DroppedIsOver == \A c \in Callers : At(c, "drop") => ~Serving(calls[c].h)

BaseInv == TypeInv /\ CallsInv /\ ClosersWait
SafeInv == DeleteTakesHandle /\ ServingIsFound /\ LoadedAlone /\ DroppedIsOver
ServiceInv == BaseInv /\ SafeInv

(* A delete meets an actor that another call is closing.                     *)
RefusedDelete ==
  \E c \in Callers : Deletes(c) /\ At(c, "quit") /\ actors[calls[c].h].state = "closing"

-----------------------------------------------------------------------------
(* What is stored.                                                           *)

OnlyOps == \A c \in Callers : calls[c].op \in Ops \cup {"none"}

(* Without rebinds: an actor, and a load before it, know what is stored; only *)
(* a record without prompts has no title.                                    *)
Knows(notes, call) ==
  /\ call.pc \in {"prepare", "install"} => notes \subseteq call.rec.notes
  /\ call.pc = "install" => call.rec.titled
  /\ call.pc \in {"transcript", "retitle"} => call.rec.notes = {}
StoredIsKnown ==
  /\ \A a \in 1..Len(actors) :
       /\ actors[a].rec.titled
       /\ Serving(a) => disk.rec.notes \subseteq actors[a].rec.notes
  /\ \A c \in Callers : Knows(disk.rec.notes, calls[c])
  /\ disk.rec.titled \/ disk.rec.notes = {}

(* Without repairs of a title: what is stored has one.                       *)
TitlesStay ==
  /\ Titled => /\ disk.rec.titled
               /\ \A c \in Callers : calls[c].rec.titled
               /\ \A a \in 1..Len(actors) : actors[a].rec.titled
  /\ \A c \in Callers : calls[c].pc \notin {"transcript", "retitle"}

(* Whoever will save has what was acknowledged, or the session is deleted    *)
(* and nobody will.                                                          *)
Saves(call) == call.pc \in {"prepare", "install", "rewrite"}
AcknowledgedIsKnown ==
  ~erased =>
    /\ acked \subseteq disk.rec.notes
    /\ \A a \in 1..Len(actors) : Serving(a) => acked \subseteq actors[a].rec.notes
    /\ \A c \in Callers : Saves(calls[c]) => acked \subseteq calls[c].rec.notes
ErasedIsLeft ==
  erased =>
    /\ disk.where = "none"
    /\ \A a \in 1..Len(actors) : ~Serving(a)
    /\ \A c \in Callers : ~Saves(calls[c])

(* A prompt goes on only on a session that is not archived, and once archive *)
(* has seen the session idle no turn starts.                                 *)
Prompting(op, pc) == op = "prompt" /\ pc \in {"look", "slock", "request"} \cup Loading
Archiving(op, pc) == op = "archive" /\ pc \in {"find", "drop", "archive"} \cup Quitting
PromptsSeeActive ==
  \A c \in Callers : Prompting(calls[c].op, calls[c].pc) => disk.where # "archived"
ArchiveSawIdle ==
  \A c \in Callers : Archiving(calls[c].op, calls[c].pc) => \A a \in 1..Len(actors) : ~Runs(a)

LoadInv == ServiceInv /\ OnlyOps
KnownInv == LoadInv /\ StoredIsKnown
KeptInv == LoadInv /\ TitlesStay /\ AcknowledgedIsKnown /\ ErasedIsLeft
QuietInv == LoadInv /\ PromptsSeeActive /\ ArchiveSawIdle /\ ArchivedIsQuiet

-----------------------------------------------------------------------------
(* Types.                                                                    *)

Call(n) == [op : OpNames \cup {"none"}, pc : Steps, id : 0..MaxCalls, h : 0..n, rec : Record]
Actors == [state : {"live", "closing", "stopping", "gone"}, turn : BOOLEAN,
           rec : Record, closer : Callers \cup {Nobody}]
Holders == Callers \cup {Nobody}
Stored == [where : {"none", "active", "archived"}, rec : Record]

HasHandle(pc) == pc \in {"request", "drop"} \cup Quitting
CallsType == /\ calls \in [Callers -> Call(Len(actors))]
             /\ CallsNumbered
             /\ HandlesLead
RestType == /\ handle \in 0..Len(actors) /\ deleting \in BOOLEAN
            /\ slock \in Holders /\ mlock \in Holders
            /\ disk \in Stored /\ actors \in Seq(Actors)
            /\ acked \subseteq 1..MaxCalls /\ erased \in BOOLEAN
            /\ used \in [calls : 0..MaxCalls, faults : 0..MaxFaults]

LEMMA TypeSplit == TypeInv <=> CallsType /\ RestType
BY DEF TypeInv, TypeOK, CallsType, RestType, Call, Actors, Holders, Stored

LEMMA NoRecordType == NoRecord \in Record
BY BoundsAssumption DEF NoRecord, Record

LEMMA NoCallType == ASSUME NEW n \in Nat PROVE NoCall \in Call(n)
BY NoRecordType, BoundsAssumption DEF NoCall, Call, Steps, None

LEMMA CallType ==
  ASSUME CallsType, NEW c \in Callers
  PROVE  /\ calls[c] \in Call(Len(actors)) /\ calls[c].h \in 0..Len(actors)
         /\ calls[c].op \in OpNames \cup {"none"} /\ calls[c].pc \in Steps
         /\ calls[c].id \in 0..MaxCalls /\ calls[c].rec \in Record
         /\ calls[c].op # "none" => calls[c].id # None
         /\ HasHandle(calls[c].pc) => calls[c].h # None
BY DEF CallsType, CallsNumbered, HandlesLead, HasHandle, Call

(* What a call may become.                                                   *)
LEMMA CallChanges ==
  ASSUME CallsType, RestType, NEW c \in Callers, NEW call,
         calls' = [calls EXCEPT ![c] = call],
         actors' \in Seq(Actors), Len(actors) <= Len(actors'),
         call \in Call(Len(actors')),
         call.op # "none" => call.id # None, HasHandle(call.pc) => call.h # None
  PROVE  CallsType'
<1>1. Len(actors) \in Nat /\ Len(actors') \in Nat
  BY DEF RestType
<1>2. Call(Len(actors)) \subseteq Call(Len(actors'))
  BY <1>1 DEF Call
<1>3. calls' \in [Callers -> Call(Len(actors'))]
  BY <1>2 DEF CallsType
<1>4. CallsNumbered' /\ HandlesLead'
  BY DEF CallsType, CallsNumbered, HandlesLead, HasHandle
<1> QED BY <1>3, <1>4 DEF CallsType

LEMMA GotoType ==
  ASSUME CallsType, RestType, NEW c \in Callers, NEW step \in Steps, Goto(c, step),
         actors' \in Seq(Actors), Len(actors) = Len(actors'),
         HasHandle(step) => calls[c].h # None
  PROVE  CallsType'
<1> DEFINE call == [calls[c] EXCEPT !.pc = step]
<1>1. /\ call \in Call(Len(actors)) /\ call.pc = step /\ call.h = calls[c].h
      /\ call.op = calls[c].op /\ call.id = calls[c].id
  BY CallType DEF Call
<1>2. calls' = [calls EXCEPT ![c] = call]
  BY DEF Goto
<1> HIDE DEF call
<1>3. call \in Call(Len(actors')) /\ Len(actors) <= Len(actors')
  BY <1>1 DEF RestType
<1>4. (call.op # "none" => call.id # None) /\ (HasHandle(call.pc) => call.h # None)
  BY <1>1, CallType
<1> QED BY <1>2, <1>3, <1>4, CallChanges

(* It goes on with a handle, or with a record.                               *)
LEMMA HandleType ==
  ASSUME CallsType, RestType, NEW c \in Callers, NEW step \in Steps, NEW a \in 1..Len(actors'),
         calls' = [calls EXCEPT ![c].pc = step, ![c].h = a],
         actors' \in Seq(Actors), Len(actors) <= Len(actors')
  PROVE  CallsType'
<1> DEFINE call == [calls[c] EXCEPT !.pc = step, !.h = a]
<1>0. Len(actors) \in Nat /\ Len(actors') \in Nat
  BY DEF RestType
<1>a. a \in 0..Len(actors') /\ a # None
  BY <1>0 DEF None
<1>1. /\ call \in Call(Len(actors')) /\ call.pc = step /\ call.h = a
      /\ call.op = calls[c].op /\ call.id = calls[c].id
  BY <1>a, CallType DEF Call
<1>2. calls' = [calls EXCEPT ![c] = call]
  BY DEF CallsType
<1> HIDE DEF call
<1>3. (call.op # "none" => call.id # None) /\ (HasHandle(call.pc) => call.h # None)
  BY <1>a, <1>1, CallType
<1> QED BY <1>1, <1>2, <1>3, CallChanges

LEMMA RecordType ==
  ASSUME CallsType, RestType, NEW c \in Callers, NEW step \in Steps, NEW rec \in Record,
         calls' = [calls EXCEPT ![c].pc = step, ![c].rec = rec],
         actors' \in Seq(Actors), Len(actors) = Len(actors'), ~HasHandle(step)
  PROVE  CallsType'
<1> DEFINE call == [calls[c] EXCEPT !.pc = step, !.rec = rec]
<1>0. Len(actors) \in Nat /\ Len(actors') \in Nat /\ Len(actors) <= Len(actors')
  BY DEF RestType
<1>1. /\ call \in Call(Len(actors')) /\ call.pc = step
      /\ call.op = calls[c].op /\ call.id = calls[c].id
  BY <1>0, CallType DEF Call
<1>2. calls' = [calls EXCEPT ![c] = call]
  BY DEF CallsType
<1> HIDE DEF call
<1>3. (call.op # "none" => call.id # None) /\ (HasHandle(call.pc) => call.h # None)
  BY <1>1, CallType
<1> QED BY <1>0, <1>1, <1>2, <1>3, CallChanges

LEMMA ReturnType ==
  ASSUME CallsType, RestType, NEW c \in Callers, Return(c),
         actors' \in Seq(Actors), Len(actors) = Len(actors')
  PROVE  CallsType' /\ slock' \in Holders /\ mlock' \in Holders
<1>0. Len(actors) \in Nat
  BY DEF RestType
<1>1. NoCall \in Call(Len(actors')) /\ NoCall.op = "none" /\ ~HasHandle(NoCall.pc)
  BY <1>0, NoCallType DEF NoCall, HasHandle, Quitting
<1>2. calls' = [calls EXCEPT ![c] = NoCall] /\ slock' \in Holders /\ mlock' \in Holders
  BY DEF Return, Unlock, RestType, Holders
<1>3. calls' = [calls EXCEPT ![c] = NoCall] /\ Len(actors) <= Len(actors')
  BY <1>0, <1>2
<1>4. CallsType'
  BY <1>1, <1>3, CallChanges
<1> QED BY <1>2, <1>4

LEMMA SavedType ==
  ASSUME RestType, NEW rec \in Record
  PROVE  Saved(rec) \in Stored
BY DEF RestType, Stored, Saved

LEMMA NotedType ==
  ASSUME CallsType, RestType, NEW rec \in Record, NEW c \in Callers, calls[c].op # "none"
  PROVE  Noted(rec, c) \in Record
BY CallType, BoundsAssumption DEF Noted, Record, None

LEMMA ActorTypes ==
  ASSUME RestType
  PROVE  /\ Len(actors) \in Nat
         /\ \A a \in 1..Len(actors) :
              /\ actors[a] \in Actors /\ actors[a].rec \in Record
              /\ actors[a].state \in {"live", "closing", "stopping", "gone"}
              /\ actors[a].turn \in BOOLEAN /\ actors[a].closer \in Holders
<1>1. Len(actors) \in Nat /\ \A a \in 1..Len(actors) : actors[a] \in Actors
  BY DEF RestType
<1> QED BY <1>1 DEF Actors, Holders

(* An actor is replaced in its place.                                        *)
LEMMA ActorChanges ==
  ASSUME RestType, NEW a \in 1..Len(actors), NEW actor \in Actors,
         actors' = [actors EXCEPT ![a] = actor]
  PROVE  /\ actors' \in Seq(Actors) /\ Len(actors') = Len(actors)
         /\ actors'[a] = actor
         /\ \A b \in 1..Len(actors) : b # a => actors'[b] = actors[b]
BY ExceptSeq DEF RestType

LEMMA LockTypes ==
  ASSUME RestType, NEW c \in Callers
  PROVE  /\ Unlock(c) => slock' \in Holders /\ mlock' \in Holders
         /\ UNCHANGED locks => slock' \in Holders /\ mlock' \in Holders
BY DEF RestType, Holders, Unlock, locks

(* A call that moves and nothing else does but, perhaps, the locks.          *)
LEMMA MoveType ==
  ASSUME CallsType, RestType, NEW c \in Callers,
         UNCHANGED <<registry, disk, actors, history>>,
         \/ Return(c)
         \/ /\ slock' \in Holders /\ mlock' \in Holders
            /\ \E step \in Steps :
                 \/ Goto(c, step) /\ (HasHandle(step) => calls[c].h # None)
                 \/ \E rec \in Record : /\ ~HasHandle(step)
                                        /\ calls' = [calls EXCEPT ![c].pc = step, ![c].rec = rec]
                 \/ \E a \in 1..Len(actors) : calls' = [calls EXCEPT ![c].pc = step, ![c].h = a]
  PROVE  CallsType' /\ RestType'
<1>1. actors' \in Seq(Actors) /\ Len(actors) = Len(actors') /\ Len(actors) \in Nat
  BY DEF RestType
<1>2. CallsType' /\ slock' \in Holders /\ mlock' \in Holders
  <2>1. CASE Return(c)
    BY <1>1, <2>1, ReturnType
  <2>2. ASSUME NEW step \in Steps, Goto(c, step), HasHandle(step) => calls[c].h # None
        PROVE  CallsType'
    BY <1>1, <2>2, GotoType
  <2>3. ASSUME NEW step \in Steps, NEW rec \in Record, ~HasHandle(step),
               calls' = [calls EXCEPT ![c].pc = step, ![c].rec = rec]
        PROVE  CallsType'
    BY <1>1, <2>3, RecordType
  <2>4. ASSUME NEW step \in Steps, NEW a \in 1..Len(actors),
               calls' = [calls EXCEPT ![c].pc = step, ![c].h = a]
        PROVE  CallsType'
    <3>1. a \in 1..Len(actors') /\ Len(actors) <= Len(actors')
      BY <1>1
    <3> QED BY <1>1, <2>4, <3>1, HandleType
  <2> QED BY <2>1, <2>2, <2>3, <2>4
<1> QED BY <1>1, <1>2 DEF RestType, registry, history

LEMMA StepNames ==
  /\ {"idle", "mlock", "slock", "check", "look", "relook", "load", "prepare", "install",
      "request", "bind", "reread", "rewrite", "find", "quit", "await", "drop", "archive",
      "unarchive", "mark", "inspect", "erase", "unmark", "scan", "gather", "transcript",
      "retitle", "status"} = Steps
  /\ \A step \in Steps : HasHandle(step) <=> step \in {"request", "drop", "quit", "await"}
BY DEF Steps, HasHandle, Quitting

LEMMA HandleUsable ==
  ASSUME RestType
  PROVE  handle # None => handle \in 1..Len(actors)
BY DEF RestType, None

LEMMA LookUpType ==
  ASSUME CallsType, RestType, NEW c \in Callers, NEW miss \in Steps, ~HasHandle(miss), LookUp(c, miss)
  PROVE  CallsType' /\ RestType'
<1>1. CASE deleting
  BY <1>1, MoveType DEF LookUp
<1>2. CASE ~deleting /\ Usable
  <2>1. /\ calls' = [calls EXCEPT ![c].pc = "request", ![c].h = handle]
        /\ slock' \in Holders /\ mlock' \in Holders
    BY <1>2 DEF LookUp, Loaded, RestType, Holders
  <2>2. handle \in 1..Len(actors) /\ "request" \in Steps
    BY <1>2, HandleUsable, StepNames DEF Usable
  <2> QED BY <2>1, <2>2, MoveType DEF LookUp
<1>3. CASE ~deleting /\ ~Usable
  <2>1. Goto(c, miss) /\ slock' \in Holders /\ mlock' \in Holders
    BY <1>3, LockTypes DEF LookUp
  <2> QED BY <2>1, MoveType DEF LookUp
<1> QED BY <1>1, <1>2, <1>3

(* The steps that change no more than their call and the locks.              *)
LEMMA MovesType ==
  ASSUME CallsType, RestType, StepsAgree, NEW c \in Callers,
         \/ AcquireMutation(c) \/ AcquireSession(c) \/ Check(c) \/ Look(c) \/ LookAgain(c)
         \/ LoadRecord(c) \/ Snapshot(c) \/ RequestFails(c) \/ Steer(c) \/ ArchiveIdle(c)
         \/ Bind(c) \/ Reread(c) \/ Find(c) \/ Inspect(c) \/ Scan(c) \/ Gather(c)
         \/ ReadTranscript(c) \/ Status(c)
  PROVE  CallsType' /\ RestType'
<1>1. ASSUME NEW step \in Steps, Goto(c, step), ~HasHandle(step), UNCHANGED locks,
             UNCHANGED <<registry, disk, actors, history>>
      PROVE  CallsType' /\ RestType'
  BY <1>1, LockTypes, MoveType
<1>2. ASSUME Return(c), UNCHANGED <<registry, disk, actors, history>>
      PROVE  CallsType' /\ RestType'
  BY <1>2, MoveType
<1>3. /\ disk.rec \in Record
      /\ calls[c].op # "none" => Noted(disk.rec, c) \in Record
  BY NotedType DEF RestType, Stored
<1>4. CASE AcquireMutation(c)
  <2>1. PICK step \in {"slock", "unarchive", "check"} : Goto(c, step)
    BY <1>4 DEF AcquireMutation
  <2>2. mlock' \in Holders /\ slock' \in Holders /\ UNCHANGED <<registry, disk, actors, history>>
    BY <1>4 DEF AcquireMutation, RestType, Holders
  <2> QED BY <2>1, <2>2, StepNames, MoveType
<1>5. CASE AcquireSession(c)
  <2>1. PICK step \in {"mark", "relook"} : Goto(c, step)
    BY <1>5 DEF AcquireSession
  <2>2. mlock' \in Holders /\ slock' \in Holders /\ UNCHANGED <<registry, disk, actors, history>>
    BY <1>5 DEF AcquireSession, RestType, Holders
  <2> QED BY <2>1, <2>2, StepNames, MoveType
<1>6. CASE Check(c)
  <2>1. Return(c) \/ \E step \in {"bind", "look"} : Goto(c, step) /\ UNCHANGED locks
    BY <1>6 DEF Check
  <2> QED BY <1>1, <1>2, <1>6, <2>1, StepNames DEF Check
<1>7. CASE Look(c) \/ LookAgain(c)
  BY <1>7, StepNames, LookUpType DEF Look, LookAgain
<1>8. CASE LoadRecord(c)
  <2>1. CASE disk.where = "none"
    BY <1>2, <1>8, <2>1 DEF LoadRecord
  <2>2. CASE disk.where # "none"
    <3>1. calls' = [calls EXCEPT ![c].pc = "prepare", ![c].rec = disk.rec] /\ UNCHANGED locks
      BY <1>8, <2>2 DEF LoadRecord
    <3> QED BY <1>3, <1>8, <3>1, StepNames, LockTypes, MoveType DEF LoadRecord
  <2> QED BY <2>1, <2>2
<1>9. CASE Snapshot(c) \/ RequestFails(c) \/ Steer(c)
  BY <1>2, <1>9 DEF Snapshot, RequestFails, Steer
<1>10. CASE ArchiveIdle(c)
  BY <1>1, <1>10, StepNames DEF ArchiveIdle
<1>11. CASE Bind(c)
  <2>1. CASE Usable
    <3>1. handle \in 1..Len(actors)
      BY <2>1, HandleUsable DEF Usable
    <3> QED BY <1>11, <2>1, <3>1, StepNames, LockTypes, MoveType DEF Bind
  <2>2. CASE ~Usable
    BY <1>1, <1>11, <2>2, StepNames DEF Bind, Goto
  <2> QED BY <2>1, <2>2
<1>12. CASE Reread(c)
  <2>1. CASE disk.where = "none"
    BY <1>2, <1>12, <2>1 DEF Reread
  <2>2. CASE disk.where # "none" /\ calls[c].op # "none"
    <3>1. calls' = [calls EXCEPT ![c].pc = "rewrite", ![c].rec = Noted(disk.rec, c)] /\ UNCHANGED locks
      BY <1>12, <2>2 DEF Reread
    <3> QED BY <1>3, <1>12, <2>2, <3>1, StepNames, LockTypes, MoveType DEF Reread
  <2>3. calls[c].op # "none"
    BY <1>12 DEF Reread, At, StepsAgree, Agrees
  <2> QED BY <2>1, <2>2, <2>3
<1>13. CASE Find(c)
  <2>1. CASE ~deleting /\ handle # None
    <3>1. handle \in 1..Len(actors)
      BY <2>1, HandleUsable
    <3>2. PICK step \in {"drop", "quit"} :
            UNCHANGED locks /\ calls' = [calls EXCEPT ![c].h = handle, ![c].pc = step]
      BY <1>13, <2>1 DEF Find
    <3>3. calls' = [calls EXCEPT ![c].pc = step, ![c].h = handle]
      BY <3>2, CallType DEF CallsType, Call
    <3>4. step \in Steps /\ slock' \in Holders /\ mlock' \in Holders
      BY <3>2, StepNames, LockTypes
    <3>5. UNCHANGED <<registry, disk, actors, history>>
      BY <1>13 DEF Find
    <3> QED BY <3>1, <3>3, <3>4, <3>5, MoveType
  <2>2. CASE deleting \/ handle = None
    BY <1>1, <1>2, <1>13, <2>2, StepNames DEF Find
  <2> QED BY <2>1, <2>2
<1>14. CASE Inspect(c)
  BY <1>1, <1>14, StepNames DEF Inspect
<1>15. CASE Scan(c)
  BY <1>1, <1>2, <1>15, StepNames DEF Scan
<1>16. CASE Gather(c)
  <2>1. CASE disk.where = "none"
    BY <1>2, <1>16, <2>1 DEF Gather
  <2>2. CASE disk.where # "none"
    <3>1. PICK step \in {"status", "transcript"} :
            UNCHANGED locks /\ calls' = [calls EXCEPT ![c].rec = disk.rec, ![c].pc = step]
      BY <1>16, <2>2 DEF Gather
    <3>2. calls' = [calls EXCEPT ![c].pc = step, ![c].rec = disk.rec]
      BY <3>1, CallType DEF CallsType, Call
    <3>3. step \in Steps /\ ~HasHandle(step) /\ slock' \in Holders /\ mlock' \in Holders
      BY <3>1, StepNames, LockTypes
    <3>4. UNCHANGED <<registry, disk, actors, history>>
      BY <1>16 DEF Gather
    <3> QED BY <1>3, <3>2, <3>3, <3>4, MoveType
  <2> QED BY <2>1, <2>2
<1>17. CASE ReadTranscript(c)
  <2>1. \E step \in {"status", "retitle"} : Goto(c, step)
    BY <1>17 DEF ReadTranscript
  <2> QED BY <1>1, <1>17, <2>1, StepNames DEF ReadTranscript
<1>18. CASE Status(c)
  <2>1. CASE Usable
    <3>1. /\ calls' = [calls EXCEPT ![c].pc = "request", ![c].h = handle]
          /\ slock' \in Holders /\ mlock' \in Holders
      BY <1>18, <2>1 DEF Status, Loaded, RestType, Holders
    <3>2. handle \in 1..Len(actors) /\ "request" \in Steps
      BY <2>1, HandleUsable, StepNames DEF Usable
    <3> QED BY <1>18, <3>1, <3>2, MoveType DEF Status
  <2>2. CASE ~Usable
    BY <1>2, <1>18, <2>2 DEF Status
  <2> QED BY <2>1, <2>2
<1> QED BY <1>4, <1>5, <1>6, <1>7, <1>8, <1>9, <1>10, <1>11, <1>12, <1>13, <1>14, <1>15, <1>16, <1>17, <1>18

(* What may happen to one actor.                                             *)
LEMMA ActorEdits ==
  ASSUME RestType, NEW a \in 1..Len(actors), NEW rec \in Record, NEW c \in Holders, NEW turn \in BOOLEAN
  PROVE  /\ [actors[a] EXCEPT !.state = "stopping", !.turn = FALSE] \in Actors
         /\ [actors[a] EXCEPT !.state = "closing", !.closer = c] \in Actors
         /\ [actors[a] EXCEPT !.state = "gone"] \in Actors
         /\ [actors[a] EXCEPT !.turn = FALSE] \in Actors
         /\ [actors[a] EXCEPT !.rec = rec] \in Actors
         /\ [actors[a] EXCEPT !.rec = rec, !.turn = turn] \in Actors
BY ActorTypes DEF Actors, Holders

LEMMA FaultType == ASSUME RestType, Fault PROVE used' \in [calls : 0..MaxCalls, faults : 0..MaxFaults]
BY BoundsAssumption DEF RestType, Fault

(* An unload, whose caller waits at step "quit" or "await".                  *)
LEMMA StopsType ==
  ASSUME CallsType, RestType, NEW c \in Callers, NEW a \in 1..Len(actors), Stops(a, c),
         HasHandle(calls[c].pc)
  PROVE  CallsType' /\ RestType'
<1>1. actors' = [actors EXCEPT ![a] = [actors[a] EXCEPT !.state = "stopping", !.turn = FALSE]]
  BY DEF Stops
<1>2. [actors[a] EXCEPT !.state = "stopping", !.turn = FALSE] \in Actors
  BY ActorEdits, NoRecordType DEF Holders
<1>3. actors' \in Seq(Actors) /\ Len(actors') = Len(actors)
  BY <1>1, <1>2, ActorChanges
<1>4. calls[c].h # None /\ actors[a].rec \in Record
  BY CallType, ActorTypes
<1>5. CASE disk' = Saved(actors[a].rec) /\ Goto(c, AfterQuit(c)) /\ UNCHANGED <<registry, locks, used>>
  <2>1. PICK step \in {"inspect", "drop"} : Goto(c, step)
    BY <1>5 DEF AfterQuit
  <2>2. CallsType'
    BY <1>3, <1>4, <2>1, StepNames, GotoType
  <2>3. disk' \in Stored
    BY <1>4, <1>5, SavedType
  <2>4. RestType'
    BY <1>3, <1>5, <2>3 DEF Stops, RestType, registry, locks
  <2> QED BY <2>2, <2>4
<1>6. CASE Fault /\ QuitFails(c) /\ UNCHANGED disk
  <2>1. CallsType' /\ slock' \in Holders /\ mlock' \in Holders
    BY <1>3, <1>6, ReturnType DEF QuitFails
  <2>2. used' \in [calls : 0..MaxCalls, faults : 0..MaxFaults]
    BY <1>6, FaultType
  <2>3. deleting' \in BOOLEAN /\ handle' = handle /\ disk' = disk
    BY <1>6 DEF QuitFails
  <2>4. RestType'
    BY <1>3, <2>1, <2>2, <2>3 DEF Stops, RestType
  <2> QED BY <2>1, <2>4
<1> QED BY <1>5, <1>6 DEF Stops

(* A step that leaves the actors as they are.                                *)
LEMMA QuietCallType ==
  ASSUME CallsType, RestType, NEW c \in Callers, UNCHANGED actors, handle' \in 0..Len(actors),
         deleting' \in BOOLEAN, disk' \in Stored, UNCHANGED acked, erased' \in BOOLEAN,
         used' \in [calls : 0..MaxCalls, faults : 0..MaxFaults],
         \/ Return(c)
         \/ UNCHANGED locks /\ \E step \in Steps : Goto(c, step) /\ ~HasHandle(step)
  PROVE  CallsType' /\ RestType'
<1>1. actors' \in Seq(Actors) /\ Len(actors) = Len(actors') /\ Len(actors) \in Nat
  BY DEF RestType
<1>2. CASE Return(c)
  BY <1>1, <1>2, ReturnType DEF RestType
<1>3. ASSUME UNCHANGED locks, NEW step \in Steps, Goto(c, step), ~HasHandle(step)
      PROVE  CallsType' /\ RestType'
  <2>1. slock' \in Holders /\ mlock' \in Holders
    BY <1>3, LockTypes
  <2>2. CallsType'
    BY <1>1, <1>3, GotoType
  <2> QED BY <1>1, <2>1, <2>2 DEF RestType
<1> QED BY <1>2, <1>3

LEMMA BeginType ==
  ASSUME CallsType, RestType, NEW c \in Callers, NEW op \in Ops, Begin(c, op)
  PROVE  CallsType' /\ RestType'
<1> DEFINE pc == IF op \in Mutating THEN "mlock"
                 ELSE IF op = "open" THEN "look"
                 ELSE IF op = "unload" THEN "find" ELSE "scan"
           call == [NoCall EXCEPT !.op = op, !.id = used'.calls, !.pc = pc]
<1>1. calls' = [calls EXCEPT ![c] = call]
  BY DEF Begin
<1>2. /\ used' = [used EXCEPT !.calls = @ + 1] /\ used.calls < MaxCalls
      /\ UNCHANGED <<registry, locks, disk, actors, acked, erased>>
  BY DEF Begin
<1>3. used' \in [calls : 0..MaxCalls, faults : 0..MaxFaults] /\ used'.calls \in 1..MaxCalls
  BY <1>2, BoundsAssumption DEF RestType
<1>4. pc \in {"mlock", "look", "find", "scan"} /\ op \in OpNames /\ Len(actors) \in Nat
  BY OpsAssumption DEF RestType
<1>5. pc \in Steps /\ ~HasHandle(pc)
  BY <1>4, StepNames
<1> HIDE DEF pc
<1>a. used'.calls \in 0..MaxCalls /\ used'.calls # None
  BY <1>3, BoundsAssumption DEF None
<1>b. NoCall \in Call(Len(actors))
  BY <1>4, NoCallType
<1>6. call \in Call(Len(actors)) /\ call.id # None /\ call.pc = pc
  BY <1>a, <1>b, <1>4, <1>5 DEF Call
<1> HIDE DEF call
<1>7. actors' \in Seq(Actors) /\ Len(actors) <= Len(actors') /\ call \in Call(Len(actors'))
  BY <1>2, <1>4, <1>6 DEF RestType
<1>8. CallsType'
  BY <1>1, <1>5, <1>6, <1>7, CallChanges
<1> QED BY <1>2, <1>3, <1>8 DEF RestType, registry, locks

LEMMA InstallType ==
  ASSUME CallsType, RestType, NEW c \in Callers, Install(c)
  PROVE  CallsType' /\ RestType'
<1>1. CASE deleting \/ Usable
  BY <1>1, StepNames, LookUpType DEF Install
<1>2. CASE ~(deleting \/ Usable)
  <2>1. /\ actors' = Append(actors, Spawned(calls[c].rec))
        /\ handle' = Len(actors') /\ Loaded(c, handle')
        /\ UNCHANGED <<deleting, disk, history>>
    BY <1>2 DEF Install
  <2>2. Spawned(calls[c].rec) \in Actors
    BY CallType DEF Spawned, Actors
  <2>3. /\ actors' \in Seq(Actors) /\ Len(actors') = Len(actors) + 1 /\ Len(actors) \in Nat
    BY <2>1, <2>2, AppendProperties DEF RestType
  <2>4. handle' \in 1..Len(actors') /\ Len(actors) <= Len(actors') /\ "request" \in Steps
    BY <2>1, <2>3, StepNames
  <2>5. calls' = [calls EXCEPT ![c].pc = "request", ![c].h = handle']
        /\ slock' \in Holders /\ mlock' \in Holders
    BY <2>1 DEF Loaded, RestType, Holders
  <2>6. CallsType'
    BY <2>3, <2>4, <2>5, HandleType
  <2> QED BY <2>1, <2>3, <2>4, <2>5, <2>6 DEF RestType, history
<1> QED BY <1>1, <1>2

LEMMA ChangeType ==
  ASSUME CallsType, RestType, StepsAgree, NEW c \in Callers, Change(c)
  PROVE  CallsType' /\ RestType'
<1> DEFINE a == calls[c].h
           rec == Noted(actors[a].rec, c)
           prompts == calls[c].op = "prompt"
<1>1. calls[c].op \in {"prompt", "rebind"} /\ calls[c].pc = "request"
  BY DEF Change, Asks, At
<1>2. a \in 1..Len(actors) /\ calls[c].id \in 1..MaxCalls
  BY <1>1, CallType, ActorTypes, StepNames, BoundsAssumption DEF None
<1>3. rec \in Record
  BY <1>1, <1>2, ActorTypes, NotedType
<1>4. /\ \/ /\ disk' = Saved(rec)
            /\ acked' = IF prompts THEN acked \cup {calls[c].id} ELSE acked
            /\ actors' = [actors EXCEPT ![a].rec = rec, ![a].turn = prompts]
            /\ UNCHANGED used
         \/ /\ Fault /\ UNCHANGED <<disk, acked>>
            /\ actors' = IF prompts THEN [actors EXCEPT ![a].rec = rec] ELSE actors
      /\ Return(c) /\ UNCHANGED <<registry, erased>>
  BY DEF Change
<1> HIDE DEF a, rec
<1>5. CASE /\ disk' = Saved(rec)
           /\ acked' = IF prompts THEN acked \cup {calls[c].id} ELSE acked
           /\ actors' = [actors EXCEPT ![a].rec = rec, ![a].turn = prompts]
           /\ UNCHANGED used
  <2>1. actors' = [actors EXCEPT ![a] = [actors[a] EXCEPT !.rec = rec, !.turn = prompts]]
    BY <1>5, <1>2 DEF RestType
  <2>2. [actors[a] EXCEPT !.rec = rec, !.turn = prompts] \in Actors
    BY <1>2, <1>3, ActorEdits DEF Holders
  <2>3. actors' \in Seq(Actors) /\ Len(actors') = Len(actors)
    BY <1>2, <2>1, <2>2, ActorChanges
  <2>4. disk' \in Stored /\ acked' \subseteq 1..MaxCalls
    BY <1>2, <1>3, <1>5, SavedType DEF RestType
  <2> QED BY <1>4, <1>5, <2>3, <2>4, ReturnType DEF RestType, registry
<1>6. CASE /\ Fault /\ UNCHANGED <<disk, acked>>
           /\ actors' = IF prompts THEN [actors EXCEPT ![a].rec = rec] ELSE actors
  <2>1. [actors[a] EXCEPT !.rec = rec] \in Actors
    BY <1>2, <1>3, ActorEdits DEF Holders
  <2>2. actors' = [actors EXCEPT ![a] = [actors[a] EXCEPT !.rec = rec]] \/ actors' = actors
    BY <1>6
  <2>3. actors' \in Seq(Actors) /\ Len(actors') = Len(actors)
    BY <1>2, <2>1, <2>2, ActorChanges DEF RestType
  <2> QED BY <1>4, <1>6, <2>3, FaultType, ReturnType DEF RestType, registry
<1> QED BY <1>4, <1>5, <1>6

(* The steps that write or fail.                                             *)
LEMMA WritesType ==
  ASSUME CallsType, RestType, StepsAgree, NEW c \in Callers,
         \/ Prepare(c) \/ Rewrite(c) \/ QuitIdle(c) \/ QuitBusy(c) \/ QuitRefused(c) \/ Drop(c)
         \/ Archive(c) \/ Unarchive(c) \/ Mark(c) \/ Erase(c) \/ Unmark(c) \/ Retitle(c)
         \/ RepositoryFails(c)
  PROVE  CallsType' /\ RestType'
<1>0. /\ handle \in 0..Len(actors) /\ deleting \in BOOLEAN /\ disk \in Stored /\ erased \in BOOLEAN
      /\ used \in [calls : 0..MaxCalls, faults : 0..MaxFaults]
      /\ actors \in Seq(Actors) /\ Len(actors) \in Nat /\ None \in 0..Len(actors)
  BY DEF RestType, None
<1>1. calls[c].rec \in Record /\ calls[c].h \in 0..Len(actors)
  BY CallType
<1>2. [calls[c].rec EXCEPT !.titled = TRUE] \in Record
  BY <1>1 DEF Record
<1>3. CASE Prepare(c)
  <2> DEFINE rec == [calls[c].rec EXCEPT !.titled = TRUE]
  <2>1. /\ calls' = [calls EXCEPT ![c].pc = "install", ![c].rec = rec]
        /\ disk' = Saved(rec) \/ disk' = disk
        /\ UNCHANGED <<registry, locks, actors, history>>
    BY <1>3 DEF Prepare
  <2>2. "install" \in Steps /\ ~HasHandle("install")
    BY StepNames
  <2>3. actors' \in Seq(Actors) /\ Len(actors) = Len(actors')
    BY <1>0, <2>1
  <2>4. CallsType'
    BY <1>2, <2>1, <2>2, <2>3, RecordType
  <2>5. disk' \in Stored
    BY <1>0, <1>2, <2>1, SavedType
  <2> QED BY <2>1, <2>4, <2>5 DEF RestType, registry, locks, history
<1>4. CASE Rewrite(c)
  <2>1. disk' \in Stored
    BY <1>1, <1>4, SavedType DEF Rewrite
  <2> QED BY <1>0, <1>4, <2>1, QuietCallType DEF Rewrite, registry, history
<1>5. CASE QuitIdle(c)
  <2>1. calls[c].h \in 1..Len(actors) /\ HasHandle(calls[c].pc)
    BY <1>0, <1>1, <1>5, CallType, StepNames DEF QuitIdle, At, None
  <2> QED BY <1>5, <2>1, StopsType DEF QuitIdle
<1>6. CASE QuitBusy(c)
  <2> DEFINE a == calls[c].h
  <2>1. a \in 1..Len(actors)
    BY <1>0, <1>1, <1>6, CallType, StepNames DEF QuitBusy, At, None
  <2>2. actors' = [actors EXCEPT ![a] = [actors[a] EXCEPT !.state = "closing", !.closer = c]]
    BY <1>6, <1>0, <2>1 DEF QuitBusy
  <2>3. [actors[a] EXCEPT !.state = "closing", !.closer = c] \in Actors
    BY <2>1, ActorEdits, NoRecordType DEF Holders
  <2>4. actors' \in Seq(Actors) /\ Len(actors') = Len(actors)
    BY <2>1, <2>2, <2>3, ActorChanges
  <2>5. CallsType'
    BY <1>0, <1>6, <2>1, <2>4, StepNames, GotoType DEF QuitBusy, None
  <2> QED BY <1>6, <2>4, <2>5 DEF QuitBusy, RestType, registry, locks, history
<1>7. CASE QuitRefused(c)
  <2>1. deleting' \in BOOLEAN /\ handle' = handle /\ Return(c)
    BY <1>7 DEF QuitRefused, QuitFails
  <2> QED BY <1>0, <1>7, <2>1, QuietCallType DEF QuitRefused, history
<1>8. CASE Drop(c)
  <2>1. handle' \in 0..Len(actors)
    BY <1>0, <1>8 DEF Drop, Dropped
  <2>2. CASE calls[c].op = "archive"
    <3>1. Goto(c, "archive") /\ UNCHANGED locks /\ UNCHANGED <<deleting, disk, actors, history>>
      BY <1>8, <2>2 DEF Drop
    <3> QED BY <1>0, <2>1, <3>1, StepNames, QuietCallType DEF history
  <2>3. CASE calls[c].op # "archive"
    <3>1. Return(c) /\ UNCHANGED <<deleting, disk, actors, history>>
      BY <1>8, <2>3 DEF Drop
    <3> QED BY <1>0, <2>1, <3>1, QuietCallType DEF history
  <2> QED BY <2>2, <2>3
<1>9. CASE Archive(c) \/ Unarchive(c)
  <2>1. Return(c) /\ UNCHANGED <<registry, actors, history>>
        /\ \E where \in {"active", "archived", disk.where} : disk' = [disk EXCEPT !.where = where]
    BY <1>9 DEF Archive, Unarchive, Move
  <2>2. disk' \in Stored
    BY <1>0, <2>1 DEF Stored
  <2> QED BY <1>0, <2>1, <2>2, QuietCallType DEF registry, history
<1>10. CASE Mark(c)
  <2>1. CASE deleting
    BY <1>10, <2>1, MoveType DEF Mark, registry
  <2>2. CASE ~deleting
    <3> DEFINE call == [calls[c] EXCEPT !.h = handle, !.pc = IF Usable THEN "quit" ELSE "inspect"]
    <3>1. /\ deleting' = TRUE /\ handle' = None /\ UNCHANGED locks /\ UNCHANGED <<disk, actors, history>>
          /\ calls' = [calls EXCEPT ![c] = call]
      BY <1>10, <2>2 DEF Mark
    <3>2. /\ call.pc \in {"quit", "inspect"} /\ call.h = handle /\ call.id = calls[c].id
          /\ call.op = calls[c].op /\ call \in Call(Len(actors))
          /\ call.pc = "quit" => handle # None
      BY <1>0, CallType, StepNames DEF Call, Usable
    <3> HIDE DEF call
    <3>3. (call.op # "none" => call.id # None) /\ (HasHandle(call.pc) => call.h # None)
      BY <3>2, CallType, StepNames
    <3>4. actors' \in Seq(Actors) /\ Len(actors) <= Len(actors') /\ call \in Call(Len(actors'))
      BY <1>0, <3>1, <3>2
    <3>5. CallsType'
      BY <3>1, <3>3, <3>4, CallChanges
    <3> QED BY <1>0, <3>1, <3>5 DEF RestType, locks, history
  <2> QED BY <2>1, <2>2
<1>11. CASE Erase(c)
  <2>1. Goto(c, "unmark") /\ UNCHANGED <<registry, locks, actors, acked>>
        /\ \/ disk' = [disk EXCEPT !.where = "none"] /\ erased' = TRUE /\ UNCHANGED used
           \/ Fault /\ UNCHANGED <<disk, erased>>
    BY <1>11 DEF Erase
  <2>2. disk' \in Stored /\ erased' \in BOOLEAN /\ used' \in [calls : 0..MaxCalls, faults : 0..MaxFaults]
    BY <1>0, <2>1, FaultType DEF Stored
  <2> QED BY <1>0, <2>1, <2>2, StepNames, QuietCallType DEF registry
<1>12. CASE Unmark(c)
  BY <1>0, <1>12, QuietCallType DEF Unmark, history
<1>13. CASE Retitle(c)
  <2>1. disk' \in Stored
    BY <1>2, <1>13, SavedType DEF Retitle
  <2> QED BY <1>0, <1>13, <2>1, StepNames, QuietCallType DEF Retitle, registry, history
<1>14. CASE RepositoryFails(c)
  <2>1. used' \in [calls : 0..MaxCalls, faults : 0..MaxFaults]
    BY <1>14, FaultType DEF RepositoryFails
  <2> QED BY <1>0, <1>14, <2>1, QuietCallType DEF RepositoryFails, registry
<1> QED BY <1>3, <1>4, <1>5, <1>6, <1>7, <1>8, <1>9, <1>10, <1>11, <1>12, <1>13, <1>14

LEMMA ActorStepType ==
  ASSUME CallsType, RestType, ClosersWait, NEW a \in 1..Len(actors), Actor(a)
  PROVE  CallsType' /\ RestType'
<1>0. actors[a].rec \in Record /\ Len(actors) \in Nat
  BY ActorTypes
<1>1. CASE TurnSaves(a)
  <2>1. disk' \in Stored
    BY <1>0, <1>1, SavedType DEF TurnSaves
  <2> QED BY <1>1, <2>1 DEF TurnSaves, CallsType, RestType, CallsNumbered, HandlesLead, registry, locks, history
<1>2. ASSUME NEW actor \in Actors, actors' = [actors EXCEPT ![a] = actor], UNCHANGED calls
      PROVE  CallsType' /\ actors' \in Seq(Actors) /\ Len(actors') = Len(actors)
  <2>1. actors' \in Seq(Actors) /\ Len(actors') = Len(actors)
    BY <1>2, ActorChanges
  <2> QED BY <1>2, <2>1 DEF CallsType, CallsNumbered, HandlesLead
<1>3. CASE TurnEnds(a)
  <2>1. /\ actors' = [actors EXCEPT ![a] = [actors[a] EXCEPT !.turn = FALSE]]
        /\ (disk' = Saved(actors[a].rec) /\ UNCHANGED used) \/ (Fault /\ UNCHANGED disk)
        /\ UNCHANGED <<registry, locks, calls, acked, erased>>
    BY <1>3 DEF TurnEnds
  <2>2. [actors[a] EXCEPT !.turn = FALSE] \in Actors
    BY ActorEdits, NoRecordType DEF Holders
  <2>3. disk' \in Stored /\ used' \in [calls : 0..MaxCalls, faults : 0..MaxFaults]
    BY <1>0, <2>1, SavedType, FaultType DEF RestType
  <2> QED BY <1>2, <2>1, <2>2, <2>3 DEF RestType, registry, locks
<1>4. CASE Closes(a)
  <2>1. actors[a].closer \in Callers /\ HasHandle(calls[actors[a].closer].pc)
    BY <1>4, StepNames DEF Closes, ClosersWait, At
  <2> QED BY <1>4, <2>1, StopsType DEF Closes
<1>5. CASE Terminates(a)
  <2>1. /\ actors' = [actors EXCEPT ![a] = [actors[a] EXCEPT !.state = "gone"]]
        /\ UNCHANGED <<registry, locks, disk, calls, history>>
    BY <1>5 DEF Terminates
  <2>2. [actors[a] EXCEPT !.state = "gone"] \in Actors
    BY ActorEdits, NoRecordType DEF Holders
  <2> QED BY <1>2, <2>1, <2>2 DEF RestType, registry, locks, history
<1> QED BY <1>1, <1>3, <1>4, <1>5 DEF Actor

-----------------------------------------------------------------------------
(* The steps of a call and its locks.                                        *)

LEMMA CallMoves ==
  ASSUME CallsInv, NEW c \in Callers, NEW op, NEW pc,
         calls'[c].op = op, calls'[c].pc = pc, Agrees(op, pc),
         \A d \in Callers \ {c} : calls'[d].op = calls[d].op /\ calls'[d].pc = calls[d].pc,
         slock' = slock \/ (slock \in {c, Nobody} /\ slock' \in {c, Nobody}),
         mlock' = mlock \/ (mlock \in {c, Nobody} /\ mlock' \in {c, Nobody}),
         HoldsSession(op, pc) <=> slock' = c, HoldsMutation(op, pc) <=> mlock' = c
  PROVE  CallsInv'
<1>1. StepsAgree'
  BY DEF CallsInv, StepsAgree
<1>2. SessionLocked'
  BY CallersAssumption DEF CallsInv, SessionLocked
<1>3. MutationLocked'
  BY CallersAssumption DEF CallsInv, MutationLocked
<1> QED BY <1>1, <1>2, <1>3 DEF CallsInv

LEMMA IdleHolds ==
  Agrees("none", "idle") /\ ~HoldsSession("none", "idle") /\ ~HoldsMutation("none", "idle")
BY DEF Agrees, HoldsSession, HoldsMutation, Loading, Erasing, Quitting, Listing, Mutating

LEMMA ReturnCalls ==
  ASSUME CallsType, CallsInv, NEW c \in Callers, Return(c)
  PROVE  CallsInv'
<1>1. calls'[c].op = "none" /\ calls'[c].pc = "idle"
  BY DEF Return, CallsType, NoCall
<1>2. \A d \in Callers \ {c} : calls'[d].op = calls[d].op /\ calls'[d].pc = calls[d].pc
  BY DEF Return, CallsType
<1>3. /\ slock' = slock \/ (slock \in {c, Nobody} /\ slock' \in {c, Nobody})
      /\ mlock' = mlock \/ (mlock \in {c, Nobody} /\ mlock' \in {c, Nobody})
      /\ slock' # c /\ mlock' # c
  BY CallersAssumption DEF Return, Unlock
<1> QED BY <1>1, <1>2, <1>3, IdleHolds, CallMoves

(* A call that goes on within its locks.                                     *)
LEMMA GoesOn ==
  ASSUME CallsType, CallsInv, NEW c \in Callers, NEW step \in Steps, UNCHANGED locks,
         calls'[c].op = calls[c].op, calls'[c].pc = step,
         \A d \in Callers \ {c} : calls'[d] = calls[d],
         Agrees(calls[c].op, step),
         HoldsSession(calls[c].op, step) <=> HoldsSession(calls[c].op, calls[c].pc),
         HoldsMutation(calls[c].op, step) <=> HoldsMutation(calls[c].op, calls[c].pc)
  PROVE  CallsInv'
<1>1. /\ HoldsSession(calls[c].op, step) <=> slock' = c
      /\ HoldsMutation(calls[c].op, step) <=> mlock' = c
  BY DEF CallsInv, SessionLocked, MutationLocked, locks
<1> QED BY <1>1, CallMoves DEF locks

LEMMA Position ==
  ASSUME CallsType, CallsInv, NEW c \in Callers
  PROVE  /\ Agrees(calls[c].op, calls[c].pc) /\ calls[c].op \in OpNames \cup {"none"}
         /\ HoldsSession(calls[c].op, calls[c].pc) <=> slock = c
         /\ HoldsMutation(calls[c].op, calls[c].pc) <=> mlock = c
BY CallType DEF CallsInv, StepsAgree, SessionLocked, MutationLocked

(* A call at its next step: the same operation, and a handle or a record.    *)
GoesTo(c, step) == calls'[c].op = calls[c].op /\ calls'[c].id = calls[c].id /\ calls'[c].pc = step

LEMMA CallForms ==
  ASSUME CallsType, NEW c \in Callers, NEW step
  PROVE  /\ Goto(c, step) => GoesTo(c, step) /\ calls'[c].h = calls[c].h /\ calls'[c].rec = calls[c].rec
         /\ \A a : \/ calls' = [calls EXCEPT ![c].pc = step, ![c].h = a]
                  \/ calls' = [calls EXCEPT ![c].h = a, ![c].pc = step]
              => GoesTo(c, step) /\ calls'[c].h = a /\ calls'[c].rec = calls[c].rec
         /\ \A rec : \/ calls' = [calls EXCEPT ![c].pc = step, ![c].rec = rec]
                    \/ calls' = [calls EXCEPT ![c].rec = rec, ![c].pc = step]
              => GoesTo(c, step) /\ calls'[c].rec = rec /\ calls'[c].h = calls[c].h
         /\ Return(c) => calls'[c] = NoCall
<1>0. calls \in [Callers -> Call(Len(actors))] /\ calls[c] \in Call(Len(actors))
  BY CallType DEF CallsType
<1>1. Goto(c, step) => GoesTo(c, step) /\ calls'[c].h = calls[c].h /\ calls'[c].rec = calls[c].rec
  BY <1>0 DEF Goto, GoesTo, Call
<1>2. ASSUME NEW a, calls' = [calls EXCEPT ![c].pc = step, ![c].h = a]
      PROVE  GoesTo(c, step) /\ calls'[c].h = a /\ calls'[c].rec = calls[c].rec
  BY <1>0, <1>2 DEF GoesTo, Call
<1>3. ASSUME NEW a, calls' = [calls EXCEPT ![c].h = a, ![c].pc = step]
      PROVE  GoesTo(c, step) /\ calls'[c].h = a /\ calls'[c].rec = calls[c].rec
  BY <1>0, <1>3 DEF GoesTo, Call
<1>4. ASSUME NEW rec, calls' = [calls EXCEPT ![c].pc = step, ![c].rec = rec]
      PROVE  GoesTo(c, step) /\ calls'[c].rec = rec /\ calls'[c].h = calls[c].h
  BY <1>0, <1>4 DEF GoesTo, Call
<1>5. ASSUME NEW rec, calls' = [calls EXCEPT ![c].rec = rec, ![c].pc = step]
      PROVE  GoesTo(c, step) /\ calls'[c].rec = rec /\ calls'[c].h = calls[c].h
  BY <1>0, <1>5 DEF GoesTo, Call
<1>6. Return(c) => calls'[c] = NoCall
  BY <1>0 DEF Return
<1> QED BY <1>1, <1>2, <1>3, <1>4, <1>5, <1>6

(* The others stay where they are.                                           *)
LEMMA OthersStay ==
  ASSUME CallsType, NEW c \in Callers, NEW d \in Callers \ {c}
  PROVE  /\ \A step : Goto(c, step) => calls'[d] = calls[d]
         /\ \A step, a : calls' = [calls EXCEPT ![c].pc = step, ![c].h = a] => calls'[d] = calls[d]
         /\ \A step, a : calls' = [calls EXCEPT ![c].h = a, ![c].pc = step] => calls'[d] = calls[d]
         /\ \A step, rec : calls' = [calls EXCEPT ![c].pc = step, ![c].rec = rec] => calls'[d] = calls[d]
         /\ \A step, rec : calls' = [calls EXCEPT ![c].rec = rec, ![c].pc = step] => calls'[d] = calls[d]
         /\ Return(c) => calls'[d] = calls[d]
BY DEF CallsType, Goto, Return

LEMMA StepsMoveOne ==
  ASSUME CallsType, NEW c \in Callers, NEW d \in Callers \ {c}, Step(c)
  PROVE  calls'[d] = calls[d]
<1> USE OthersStay
<1>1. CASE AcquireMutation(c) \/ AcquireSession(c) \/ Check(c)
  BY <1>1 DEF AcquireMutation, AcquireSession, Check
<1>2. ASSUME NEW miss, LookUp(c, miss)
      PROVE  calls'[d] = calls[d]
  BY <1>2 DEF LookUp, Loaded
<1>3. CASE Load(c)
  <2>1. CASE Look(c) \/ LookAgain(c)
    BY <1>2, <2>1 DEF Look, LookAgain
  <2>2. CASE LoadRecord(c)
    BY <2>2 DEF LoadRecord
  <2>3. CASE Prepare(c)
    BY <2>3 DEF Prepare
  <2>4. CASE Install(c)
    BY <1>2, <2>4 DEF Install, Loaded
  <2> QED BY <1>3, <2>1, <2>2, <2>3, <2>4 DEF Load
<1>4. CASE Request(c)
  BY <1>4 DEF Request, Snapshot, RequestFails, Change, Steer, ArchiveIdle
<1>5. CASE Rebind(c)
  BY <1>5 DEF Rebind, Bind, Reread, Rewrite
<1>6. CASE Find(c) \/ Drop(c) \/ Archive(c) \/ Unarchive(c)
  BY <1>6 DEF Find, Drop, Archive, Unarchive, Move
<1>7. CASE Quit(c)
  BY <1>7 DEF Quit, QuitIdle, QuitBusy, QuitRefused, QuitFails, Stops
<1>8. CASE Delete(c)
  BY <1>8 DEF Delete, Mark, Inspect, Erase, Unmark
<1>9. CASE List(c) \/ RepositoryFails(c)
  BY <1>9 DEF List, Scan, Gather, ReadTranscript, Retitle, Status, Loaded, RepositoryFails
<1> QED BY <1>1, <1>3, <1>4, <1>5, <1>6, <1>7, <1>8, <1>9 DEF Step

(* What a step of a call that does not return does to it.                    *)
Moved(c, from, to) == calls[c].pc = from /\ GoesTo(c, to)
Same(c) == calls'[c].h = calls[c].h /\ calls'[c].rec = calls[c].rec
WithHandle(c, a) == calls'[c].h = a /\ calls'[c].rec = calls[c].rec
WithRecord(c, rec) == calls'[c].rec = rec /\ calls'[c].h = calls[c].h

WithTitle(rec) == [rec EXCEPT !.titled = TRUE]

MovesAlone(c) ==
  /\ Same(c)
  /\ \/ Moved(c, "mlock", "slock") /\ Deletes(c)
     \/ Moved(c, "mlock", "unarchive")
     \/ Moved(c, "mlock", "check") /\ ~Deletes(c)
     \/ Moved(c, "slock", "mark") /\ Deletes(c)
     \/ Moved(c, "slock", "relook") /\ ~Deletes(c)
     \/ Moved(c, "check", "bind")
     \/ Moved(c, "check", "look") /\ disk.where # "archived"
     \/ Moved(c, "look", "slock")
     \/ Moved(c, "relook", "load") /\ ~deleting /\ ~Usable
     \/ Moved(c, "request", "find") /\ ArchiveIdle(c)
     \/ Moved(c, "bind", "reread")
     \/ Moved(c, "find", "archive")
     \/ Moved(c, "quit", AfterQuit(c)) /\ QuitIdle(c)
     \/ Moved(c, "quit", "await") /\ QuitBusy(c)
     \/ Moved(c, "drop", "archive")
     \/ Moved(c, "inspect", "erase")
     \/ Moved(c, "erase", "unmark")
     \/ Moved(c, "scan", "gather")
     \/ Moved(c, "transcript", "status")
     \/ Moved(c, "transcript", "retitle")
     \/ Moved(c, "retitle", "status")

MovesWithHandle(c) ==
  \/ /\ WithHandle(c, handle) /\ Usable
     /\ \/ Moved(c, "look", "request")
        \/ Moved(c, "relook", "request")
        \/ Moved(c, "install", "request")
        \/ Moved(c, "bind", "request")
        \/ Moved(c, "status", "request")
        \/ Moved(c, "mark", "quit") /\ Mark(c) /\ ~deleting
  \/ WithHandle(c, handle') /\ Moved(c, "install", "request") /\ Install(c) /\ ~(deleting \/ Usable)
  \/ /\ WithHandle(c, handle) /\ handle # None
     /\ \/ Moved(c, "find", "drop") /\ Terminated(handle)
        \/ Moved(c, "find", "quit")
  \/ WithHandle(c, handle) /\ ~Usable /\ Moved(c, "mark", "inspect") /\ Mark(c) /\ ~deleting

MovesWithRecord(c) ==
  \/ /\ WithRecord(c, disk.rec) /\ disk.where # "none"
     /\ \/ Moved(c, "load", "prepare")
        \/ Moved(c, "gather", "status")
        \/ Moved(c, "gather", "transcript") /\ ~disk.rec.titled
  \/ WithRecord(c, Noted(disk.rec, c)) /\ disk.where # "none" /\ Moved(c, "reread", "rewrite")
  \/ WithRecord(c, WithTitle(calls[c].rec)) /\ Moved(c, "prepare", "install") /\ Prepare(c)

Moves(c) == calls'[c] = NoCall \/ MovesAlone(c) \/ MovesWithHandle(c) \/ MovesWithRecord(c)

LEMMA StepMoves ==
  ASSUME CallsType, NEW c \in Callers, Step(c)
  PROVE  Moves(c) /\ calls[c].pc # "await"
<1>1. Return(c) => Moves(c)
  BY CallForms DEF Moves
<1>2. ASSUME NEW step, Goto(c, step)
      PROVE  GoesTo(c, step) /\ Same(c)
  BY <1>2, CallForms DEF Same
<1>3. ASSUME NEW step, NEW a, \/ calls' = [calls EXCEPT ![c].pc = step, ![c].h = a]
                              \/ calls' = [calls EXCEPT ![c].h = a, ![c].pc = step]
      PROVE  GoesTo(c, step) /\ WithHandle(c, a)
  BY <1>3, CallForms DEF WithHandle
<1>4. ASSUME NEW step, NEW rec, \/ calls' = [calls EXCEPT ![c].pc = step, ![c].rec = rec]
                                \/ calls' = [calls EXCEPT ![c].rec = rec, ![c].pc = step]
      PROVE  GoesTo(c, step) /\ WithRecord(c, rec)
  <2>0. calls \in [Callers -> Call(Len(actors))] /\ calls[c] \in Call(Len(actors))
    BY CallType DEF CallsType
  <2>1. CASE calls' = [calls EXCEPT ![c].pc = step, ![c].rec = rec]
    BY <2>0, <2>1 DEF WithRecord, GoesTo, Call
  <2>2. CASE calls' = [calls EXCEPT ![c].rec = rec, ![c].pc = step]
    BY <2>0, <2>2 DEF WithRecord, GoesTo, Call
  <2> QED BY <1>4, <2>1, <2>2
<1>5. ASSUME NEW a, Loaded(c, a)
      PROVE  GoesTo(c, "request") /\ WithHandle(c, a)
  BY <1>3, <1>5 DEF Loaded
<1>6. ASSUME NEW miss, LookUp(c, miss)
      PROVE  \/ Return(c)
             \/ GoesTo(c, "request") /\ WithHandle(c, handle) /\ Usable /\ ~deleting
             \/ GoesTo(c, miss) /\ Same(c) /\ ~deleting /\ ~Usable
  BY <1>2, <1>5, <1>6 DEF LookUp
<1> USE DEF At, Moves, Moved
<1>7. CASE AcquireMutation(c)
  <2>1. PICK step \in {"slock", "unarchive", "check"} :
          /\ Goto(c, step) /\ At(c, "mlock")
          /\ step = IF Deletes(c) THEN "slock" ELSE IF calls[c].op = "unarchive" THEN "unarchive" ELSE "check"
    BY <1>7 DEF AcquireMutation, Deletes
  <2> QED BY <1>2, <2>1 DEF MovesAlone
<1>8. CASE AcquireSession(c)
  <2>1. PICK step \in {"mark", "relook"} :
          Goto(c, step) /\ At(c, "slock") /\ step = IF Deletes(c) THEN "mark" ELSE "relook"
    BY <1>8 DEF AcquireSession, Deletes
  <2> QED BY <1>2, <2>1 DEF MovesAlone
<1>9. CASE Check(c)
  <2>1. At(c, "check") /\ (Return(c) \/ \E step \in {"bind", "look"} : Goto(c, step) /\ disk.where # "archived")
    BY <1>9 DEF Check
  <2> QED BY <1>1, <1>2, <2>1 DEF MovesAlone
<1>10. CASE Look(c)
  <2>1. At(c, "look") /\ LookUp(c, "slock")
    BY <1>10 DEF Look
  <2> QED BY <1>1, <1>6, <2>1 DEF MovesAlone, MovesWithHandle
<1>11. CASE LookAgain(c)
  <2>1. At(c, "relook") /\ LookUp(c, "load")
    BY <1>11 DEF LookAgain
  <2> QED BY <1>1, <1>6, <2>1 DEF MovesAlone, MovesWithHandle
<1>12. CASE LoadRecord(c)
  <2>1. /\ At(c, "load")
        /\ Return(c) \/ (disk.where # "none" /\ GoesTo(c, "prepare") /\ WithRecord(c, disk.rec))
    BY <1>4, <1>12 DEF LoadRecord
  <2> QED BY <1>1, <2>1 DEF MovesWithRecord
<1>13. CASE Prepare(c)
  <2> DEFINE rec == [calls[c].rec EXCEPT !.titled = TRUE]
  <2>1. At(c, "prepare") /\ calls' = [calls EXCEPT ![c].pc = "install", ![c].rec = rec]
    BY <1>13 DEF Prepare
  <2>2. GoesTo(c, "install") /\ WithRecord(c, rec)
    BY <1>4, <2>1
  <2> QED BY <1>13, <2>1, <2>2 DEF MovesWithRecord, WithTitle
<1>14. CASE Install(c)
  <2>1. At(c, "install")
    BY <1>14 DEF Install
  <2>2. CASE deleting \/ Usable
    <3>1. Return(c) \/ (GoesTo(c, "request") /\ WithHandle(c, handle) /\ Usable)
      BY <1>6, <1>14, <2>2 DEF Install
    <3> QED BY <1>1, <2>1, <3>1 DEF MovesWithHandle
  <2>3. CASE ~(deleting \/ Usable)
    <3>1. GoesTo(c, "request") /\ WithHandle(c, handle')
      BY <1>5, <1>14, <2>3 DEF Install
    <3> QED BY <1>14, <2>1, <2>3, <3>1 DEF MovesWithHandle
  <2> QED BY <2>2, <2>3
<1>15. CASE Snapshot(c) \/ RequestFails(c) \/ Change(c) \/ Steer(c)
  <2>1. Return(c) /\ At(c, "request")
    BY <1>15 DEF Snapshot, RequestFails, Change, Steer, Asks
  <2> QED BY <1>1, <2>1
<1>16. CASE ArchiveIdle(c)
  <2>1. Goto(c, "find") /\ At(c, "request")
    BY <1>16 DEF ArchiveIdle, Asks
  <2> QED BY <1>2, <1>16, <2>1 DEF MovesAlone
<1>17. CASE Bind(c)
  <2>1. At(c, "bind")
    BY <1>17 DEF Bind
  <2>2. CASE Usable
    <3>1. GoesTo(c, "request") /\ WithHandle(c, handle)
      BY <1>3, <1>17, <2>2 DEF Bind
    <3> QED BY <2>1, <2>2, <3>1 DEF MovesWithHandle
  <2>3. CASE ~Usable
    <3>1. Goto(c, "reread")
      BY <1>17, <2>3 DEF Bind, Goto
    <3> QED BY <1>2, <2>1, <3>1 DEF MovesAlone
  <2> QED BY <2>2, <2>3
<1>18. CASE Reread(c)
  <2>1. /\ At(c, "reread")
        /\ Return(c) \/ (disk.where # "none" /\ GoesTo(c, "rewrite") /\ WithRecord(c, Noted(disk.rec, c)))
    BY <1>4, <1>18 DEF Reread
  <2> QED BY <1>1, <2>1 DEF MovesWithRecord
<1>19. CASE Rewrite(c) \/ Archive(c) \/ Unarchive(c) \/ Unmark(c) \/ QuitRefused(c) \/ RepositoryFails(c)
  <2>1. Return(c) /\ calls[c].pc # "await"
    BY <1>19 DEF Rewrite, Archive, Unarchive, Move, Unmark, QuitRefused, QuitFails, RepositoryFails
  <2> QED BY <1>1, <2>1
<1>20. CASE Find(c)
  <2>1. At(c, "find")
    BY <1>20 DEF Find
  <2>2. CASE ~deleting /\ handle # None
    <3>1. PICK step \in {"drop", "quit"} :
            /\ calls' = [calls EXCEPT ![c].h = handle, ![c].pc = step]
            /\ step = IF Terminated(handle) THEN "drop" ELSE "quit"
      BY <1>20, <2>2 DEF Find
    <3>2. GoesTo(c, step) /\ WithHandle(c, handle)
      BY <1>3, <3>1
    <3> QED BY <2>1, <2>2, <3>1, <3>2 DEF MovesWithHandle
  <2>3. CASE deleting \/ handle = None
    <3>1. Return(c) \/ Goto(c, "archive")
      BY <1>20, <2>3 DEF Find
    <3> QED BY <1>1, <1>2, <2>1, <3>1 DEF MovesAlone
  <2> QED BY <2>2, <2>3
<1>21. CASE QuitIdle(c)
  <2>1. At(c, "quit") /\ (Return(c) \/ Goto(c, AfterQuit(c)))
    BY <1>21 DEF QuitIdle, Stops, QuitFails
  <2> QED BY <1>1, <1>2, <1>21, <2>1 DEF MovesAlone
<1>22. CASE QuitBusy(c)
  <2>1. At(c, "quit") /\ Goto(c, "await")
    BY <1>22 DEF QuitBusy
  <2> QED BY <1>2, <1>22, <2>1 DEF MovesAlone
<1>23. CASE Drop(c)
  <2>1. At(c, "drop") /\ (Return(c) \/ Goto(c, "archive"))
    BY <1>23 DEF Drop
  <2> QED BY <1>1, <1>2, <2>1 DEF MovesAlone
<1>24. CASE Mark(c)
  <2>1. At(c, "mark")
    BY <1>24 DEF Mark
  <2>2. CASE deleting
    BY <1>1, <1>24, <2>1, <2>2 DEF Mark
  <2>3. CASE ~deleting
    <3>1. PICK step \in {"quit", "inspect"} :
            /\ calls' = [calls EXCEPT ![c].h = handle, ![c].pc = step]
            /\ step = IF Usable THEN "quit" ELSE "inspect"
      BY <1>24, <2>3 DEF Mark
    <3>2. GoesTo(c, step) /\ WithHandle(c, handle)
      BY <1>3, <3>1
    <3> QED BY <1>24, <2>1, <2>3, <3>1, <3>2 DEF MovesWithHandle
  <2> QED BY <2>2, <2>3
<1>25. CASE Inspect(c) \/ Erase(c)
  <2>1. (At(c, "inspect") /\ Goto(c, "erase")) \/ (At(c, "erase") /\ Goto(c, "unmark"))
    BY <1>25 DEF Inspect, Erase
  <2> QED BY <1>2, <2>1 DEF MovesAlone
<1>26. CASE Scan(c) \/ Retitle(c)
  <2>1. \/ At(c, "scan") /\ (Return(c) \/ Goto(c, "gather"))
        \/ At(c, "retitle") /\ Goto(c, "status")
    BY <1>26 DEF Scan, Retitle
  <2> QED BY <1>1, <1>2, <2>1 DEF MovesAlone
<1>27. CASE Gather(c)
  <2>1. At(c, "gather")
    BY <1>27 DEF Gather
  <2>2. CASE disk.where = "none"
    BY <1>1, <1>27, <2>1, <2>2 DEF Gather
  <2>3. CASE disk.where # "none"
    <3>1. PICK step \in {"status", "transcript"} :
            /\ calls' = [calls EXCEPT ![c].rec = disk.rec, ![c].pc = step]
            /\ step = IF disk.rec.titled THEN "status" ELSE "transcript"
      BY <1>27, <2>3 DEF Gather
    <3>2. GoesTo(c, step) /\ WithRecord(c, disk.rec)
      BY <1>4, <3>1
    <3> QED BY <2>1, <2>3, <3>1, <3>2 DEF MovesWithRecord
  <2> QED BY <2>2, <2>3
<1>28. CASE ReadTranscript(c)
  <2>1. At(c, "transcript") /\ \E step \in {"status", "retitle"} : Goto(c, step)
    BY <1>28 DEF ReadTranscript
  <2> QED BY <1>2, <2>1 DEF MovesAlone
<1>29. CASE Status(c)
  <2>1. At(c, "status") /\ (Return(c) \/ (Loaded(c, handle) /\ Usable))
    BY <1>29 DEF Status
  <2> QED BY <1>1, <1>5, <2>1 DEF MovesWithHandle
<1> QED BY <1>7, <1>8, <1>9, <1>10, <1>11, <1>12, <1>13, <1>14, <1>15, <1>16, <1>17, <1>18, <1>19,
           <1>20, <1>21, <1>22, <1>23, <1>24, <1>25, <1>26, <1>27, <1>28, <1>29
        DEF Step, Load, Request, Rebind, Quit, Delete, List

(* A load is done: the caller goes on without the session lock.              *)
LEMMA LoadedCalls ==
  ASSUME CallsType, CallsInv, NEW c \in Callers, NEW a, Loaded(c, a),
         calls[c].pc \in {"look", "status"} \cup Loading,
         \A d \in Callers \ {c} : calls'[d] = calls[d]
  PROVE  CallsInv'
<1>1. calls'[c].op = calls[c].op /\ calls'[c].pc = "request"
  BY CallForms DEF Loaded, GoesTo
<1>2. /\ Agrees(calls[c].op, "request") /\ ~HoldsSession(calls[c].op, "request")
      /\ HoldsMutation(calls[c].op, "request") <=> mlock = c
  BY Position DEF Agrees, HoldsSession, HoldsMutation, Loading, Erasing, Quitting, Listing, Mutating
<1>3. slock' = (IF slock = c THEN Nobody ELSE slock) /\ mlock' = mlock
  BY DEF Loaded
<1>4. slock' = slock \/ (slock \in {c, Nobody} /\ slock' \in {c, Nobody})
  BY <1>3
<1>5. slock' # c
  BY <1>3, CallersAssumption
<1> QED BY <1>1, <1>2, <1>3, <1>4, <1>5, CallMoves

LEMMA LookUpCalls ==
  ASSUME CallsType, CallsInv, NEW c \in Callers, NEW miss \in Steps, LookUp(c, miss),
         calls[c].pc \in {"look"} \cup Loading,
         \A d \in Callers \ {c} : calls'[d] = calls[d],
         Agrees(calls[c].op, miss),
         HoldsSession(calls[c].op, miss) <=> HoldsSession(calls[c].op, calls[c].pc),
         HoldsMutation(calls[c].op, miss) <=> HoldsMutation(calls[c].op, calls[c].pc)
  PROVE  CallsInv'
<1>1. CASE deleting
  BY <1>1, ReturnCalls DEF LookUp
<1>2. CASE ~deleting /\ Usable
  BY <1>2, LoadedCalls DEF LookUp
<1>3. CASE ~deleting /\ ~Usable
  BY <1>3, CallForms, GoesOn DEF LookUp, GoesTo
<1> QED BY <1>1, <1>2, <1>3

LEMMA CallsStep ==
  ASSUME CallsType, CallsInv, NEW c \in Callers, Step(c)
  PROVE  CallsInv'
<1> USE DEF Loading, Erasing, Quitting, Listing, Mutating
<1>1. \A d \in Callers \ {c} : calls'[d] = calls[d]
  BY StepsMoveOne
<1>2. ASSUME NEW step \in Steps, GoesTo(c, step), UNCHANGED locks, Agrees(calls[c].op, step),
             HoldsSession(calls[c].op, step) <=> HoldsSession(calls[c].op, calls[c].pc),
             HoldsMutation(calls[c].op, step) <=> HoldsMutation(calls[c].op, calls[c].pc)
      PROVE  CallsInv'
  BY <1>1, <1>2, GoesOn DEF GoesTo
<1>3. Agrees(calls[c].op, calls[c].pc) /\ calls[c].op \in OpNames \cup {"none"}
  BY Position
<1>4. CASE AcquireMutation(c)
  <2>1. PICK step \in {"slock", "unarchive", "check"} :
          /\ Goto(c, step) /\ mlock = Nobody /\ mlock' = c /\ slock' = slock /\ At(c, "mlock")
          /\ step = IF Deletes(c) THEN "slock" ELSE IF calls[c].op = "unarchive" THEN "unarchive" ELSE "check"
    BY <1>4 DEF AcquireMutation, MutationFree, Deletes
  <2>2. /\ Agrees(calls[c].op, step) /\ HoldsMutation(calls[c].op, step)
        /\ HoldsSession(calls[c].op, step) <=> slock = c
    BY <1>3, <2>1, Position DEF Agrees, HoldsSession, HoldsMutation, At, Deletes
  <2>3. /\ calls'[c].op = calls[c].op /\ calls'[c].pc = step
        /\ \A d \in Callers \ {c} : calls'[d].op = calls[d].op /\ calls'[d].pc = calls[d].pc
    BY <1>1, <2>1, CallForms DEF GoesTo
  <2>4. /\ slock' = slock \/ (slock \in {c, Nobody} /\ slock' \in {c, Nobody})
        /\ mlock' = mlock \/ (mlock \in {c, Nobody} /\ mlock' \in {c, Nobody})
    BY <2>1
  <2>5. HoldsSession(calls[c].op, step) <=> slock' = c
    BY <2>1, <2>2
  <2>6. HoldsMutation(calls[c].op, step) <=> mlock' = c
    BY <2>1, <2>2
  <2> QED BY <2>2, <2>3, <2>4, <2>5, <2>6, CallMoves
<1>5. CASE AcquireSession(c)
  <2>1. PICK step \in {"mark", "relook"} :
          /\ Goto(c, step) /\ slock = Nobody /\ slock' = c /\ mlock' = mlock /\ At(c, "slock")
          /\ step = IF Deletes(c) THEN "mark" ELSE "relook"
    BY <1>5 DEF AcquireSession, SessionFree, Deletes
  <2>2. /\ Agrees(calls[c].op, step) /\ HoldsSession(calls[c].op, step)
        /\ HoldsMutation(calls[c].op, step) <=> mlock = c
    BY <1>3, <2>1, Position DEF Agrees, HoldsSession, HoldsMutation, At, Deletes
  <2>3. /\ calls'[c].op = calls[c].op /\ calls'[c].pc = step
        /\ \A d \in Callers \ {c} : calls'[d].op = calls[d].op /\ calls'[d].pc = calls[d].pc
    BY <1>1, <2>1, CallForms DEF GoesTo
  <2>4. /\ slock' = slock \/ (slock \in {c, Nobody} /\ slock' \in {c, Nobody})
        /\ mlock' = mlock \/ (mlock \in {c, Nobody} /\ mlock' \in {c, Nobody})
    BY <2>1
  <2>5. HoldsSession(calls[c].op, step) <=> slock' = c
    BY <2>1, <2>2
  <2>6. HoldsMutation(calls[c].op, step) <=> mlock' = c
    BY <2>1, <2>2
  <2> QED BY <2>2, <2>3, <2>4, <2>5, <2>6, CallMoves
<1>6. CASE Check(c)
  <2>1. CASE Return(c)
    BY <2>1, ReturnCalls
  <2>2. CASE Goto(c, IF calls[c].op = "rebind" THEN "bind" ELSE "look") /\ UNCHANGED locks
    <3>1. PICK step \in {"bind", "look"} : GoesTo(c, step) /\ (step = "bind" <=> calls[c].op = "rebind")
      BY <2>2, CallForms
    <3>2. calls[c].op \in {"prompt", "rebind", "archive"}
      BY <1>3, <1>6 DEF Check, At, Agrees
    <3> QED BY <1>2, <1>3, <1>6, <2>2, <3>1, <3>2, StepNames DEF Check, At, Agrees, HoldsSession, HoldsMutation
  <2> QED BY <1>6, <2>1, <2>2 DEF Check
<1>7. CASE Look(c)
  BY <1>1, <1>3, <1>7, StepNames, LookUpCalls DEF Look, At, Agrees, HoldsSession, HoldsMutation
<1>8. CASE LookAgain(c)
  BY <1>1, <1>3, <1>8, StepNames, LookUpCalls DEF LookAgain, At, Agrees, HoldsSession, HoldsMutation
<1>9. CASE LoadRecord(c)
  <2>1. At(c, "load") /\ (Return(c) \/ (GoesTo(c, "prepare") /\ UNCHANGED locks))
    BY <1>9, CallForms DEF LoadRecord
  <2> QED BY <1>2, <1>3, <2>1, StepNames, ReturnCalls DEF At, Agrees, HoldsSession, HoldsMutation
<1>10. CASE Prepare(c)
  <2>1. At(c, "prepare") /\ GoesTo(c, "install") /\ UNCHANGED locks
    BY <1>10, CallForms DEF Prepare
  <2> QED BY <1>2, <1>3, <2>1, StepNames DEF At, Agrees, HoldsSession, HoldsMutation
<1>11. CASE Install(c)
  <2>1. CASE deleting \/ Usable
    BY <1>1, <1>3, <1>11, <2>1, StepNames, LookUpCalls DEF Install, At, Agrees, HoldsSession, HoldsMutation
  <2>2. CASE ~(deleting \/ Usable)
    BY <1>1, <1>11, <2>2, LoadedCalls DEF Install, At
  <2> QED BY <2>1, <2>2
<1>12. CASE Snapshot(c) \/ RequestFails(c) \/ Change(c) \/ Steer(c) \/ Rewrite(c) \/ QuitRefused(c)
            \/ Archive(c) \/ Unarchive(c) \/ Unmark(c) \/ RepositoryFails(c)
  BY <1>12, ReturnCalls DEF Snapshot, RequestFails, Change, Steer, Rewrite, QuitRefused, QuitFails,
     Archive, Unarchive, Move, Unmark, RepositoryFails
<1>13. CASE ArchiveIdle(c)
  BY <1>2, <1>3, <1>13, CallForms, StepNames
     DEF ArchiveIdle, Asks, At, Agrees, HoldsSession, HoldsMutation
<1>14. CASE Bind(c)
  <2>1. At(c, "bind") /\ UNCHANGED locks
    BY <1>14 DEF Bind
  <2>2. GoesTo(c, "request") \/ Goto(c, "reread")
    BY <1>14, CallForms DEF Bind, Goto
  <2>3. \E step \in {"request", "reread"} : GoesTo(c, step)
    BY <2>2, CallForms
  <2> QED BY <1>2, <1>3, <2>1, <2>3, StepNames DEF At, Agrees, HoldsSession, HoldsMutation
<1>15. CASE Reread(c)
  <2>1. At(c, "reread") /\ (Return(c) \/ (GoesTo(c, "rewrite") /\ UNCHANGED locks))
    BY <1>15, CallForms DEF Reread
  <2> QED BY <1>2, <1>3, <2>1, StepNames, ReturnCalls DEF At, Agrees, HoldsSession, HoldsMutation
<1>16. CASE Find(c)
  <2>1. CASE ~deleting /\ handle # None
    <3>1. PICK step \in {"drop", "quit"} : GoesTo(c, step) /\ UNCHANGED locks /\ At(c, "find")
      BY <1>16, <2>1, CallForms DEF Find
    <3> QED BY <1>2, <1>3, <3>1, StepNames DEF At, Agrees, HoldsSession, HoldsMutation
  <2>2. CASE deleting \/ handle = None
    <3>1. At(c, "find") /\ (Return(c) \/ (GoesTo(c, "archive") /\ UNCHANGED locks /\ calls[c].op = "archive"))
      BY <1>16, <2>2, CallForms DEF Find
    <3> QED BY <1>2, <1>3, <3>1, StepNames, ReturnCalls DEF At, Agrees, HoldsSession, HoldsMutation
  <2> QED BY <2>1, <2>2
<1>17. ASSUME NEW a, Stops(a, c), At(c, "quit")
       PROVE  CallsInv'
  <2>1. CASE QuitFails(c)
    BY <2>1, ReturnCalls DEF QuitFails
  <2>2. CASE Goto(c, AfterQuit(c)) /\ UNCHANGED locks
    BY <1>2, <1>3, <1>17, <2>2, CallForms, StepNames
       DEF AfterQuit, At, Agrees, HoldsSession, HoldsMutation
  <2> QED BY <1>17, <2>1, <2>2 DEF Stops
<1>18. CASE QuitIdle(c) \/ QuitBusy(c)
  BY <1>2, <1>3, <1>17, <1>18, CallForms, StepNames
     DEF QuitIdle, QuitBusy, At, Agrees, HoldsSession, HoldsMutation
<1>19. CASE Drop(c)
  BY <1>2, <1>3, <1>19, CallForms, StepNames, ReturnCalls DEF Drop, At, Agrees, HoldsSession, HoldsMutation
<1>20. CASE Mark(c)
  <2>1. CASE deleting
    BY <1>20, <2>1, ReturnCalls DEF Mark
  <2>2. CASE ~deleting
    <3>1. PICK step \in {"quit", "inspect"} : GoesTo(c, step) /\ UNCHANGED locks /\ At(c, "mark")
      BY <1>20, <2>2, CallForms DEF Mark
    <3> QED BY <1>2, <1>3, <3>1, StepNames DEF At, Agrees, HoldsSession, HoldsMutation
  <2> QED BY <2>1, <2>2
<1>21. CASE Inspect(c) \/ Erase(c)
  BY <1>2, <1>3, <1>21, CallForms, StepNames DEF Inspect, Erase, At, Agrees, HoldsSession, HoldsMutation
<1>22. CASE Scan(c)
  BY <1>2, <1>3, <1>22, CallForms, StepNames, ReturnCalls DEF Scan, At, Agrees, HoldsSession, HoldsMutation
<1>23. CASE Gather(c)
  <2>1. CASE disk.where = "none"
    BY <1>23, <2>1, ReturnCalls DEF Gather
  <2>2. CASE disk.where # "none"
    <3>0. PICK step \in {"status", "transcript"} :
            UNCHANGED locks /\ calls' = [calls EXCEPT ![c].rec = disk.rec, ![c].pc = step]
      BY <1>23, <2>2 DEF Gather
    <3>1. GoesTo(c, step) /\ UNCHANGED locks /\ At(c, "gather")
      BY <1>23, <3>0, CallForms DEF Gather
    <3> QED BY <1>2, <1>3, <3>1, StepNames DEF At, Agrees, HoldsSession, HoldsMutation
  <2> QED BY <2>1, <2>2
<1>24. CASE ReadTranscript(c) \/ Retitle(c)
  BY <1>2, <1>3, <1>24, CallForms, StepNames
     DEF ReadTranscript, Retitle, At, Agrees, HoldsSession, HoldsMutation
<1>25. CASE Status(c)
  BY <1>1, <1>25, LoadedCalls, ReturnCalls DEF Status, At
<1> QED BY <1>4, <1>5, <1>6, <1>7, <1>8, <1>9, <1>10, <1>11, <1>12, <1>13, <1>14, <1>15, <1>16,
           <1>18, <1>19, <1>20, <1>21, <1>22, <1>23, <1>24, <1>25
        DEF Step, Load, Request, Rebind, Quit, Delete, List

-----------------------------------------------------------------------------
(* Who waits for the end of whom.                                            *)

(* An actor that is asked to close stays so until its turn ends.             *)
SameWait(a) ==
  /\ actors'[a].state = "closing" <=> actors[a].state = "closing"
  /\ actors[a].state = "closing" =>
       actors'[a].turn = actors[a].turn /\ actors'[a].closer = actors[a].closer

RunsServed(s) == \A a \in 1..Len(s) : s[a].turn => s[a].state \in {"live", "closing"}

LEMMA WaitKept ==
  ASSUME CallsType, RestType, ClosersWait,
         \A d \in Callers : calls[d].pc = "await" \/ calls'[d].pc = "await" => calls'[d] = calls[d],
         Len(actors) <= Len(actors'), Len(actors') \in Nat, RunsServed(actors'),
         \A a \in 1..Len(actors) : SameWait(a),
         \A a \in 1..Len(actors') : a > Len(actors) => actors'[a].state # "closing"
  PROVE  ClosersWait'
<1>0. Len(actors) \in Nat
  BY ActorTypes
<1>1. ASSUME NEW a \in 1..Len(actors')
      PROVE  /\ actors'[a].turn => actors'[a].state \in {"live", "closing"}
             /\ actors'[a].state = "closing" =>
                  /\ actors'[a].turn /\ actors'[a].closer \in Callers
                  /\ calls'[actors'[a].closer].pc = "await" /\ calls'[actors'[a].closer].h = a
  <2>1. actors'[a].turn => actors'[a].state \in {"live", "closing"}
    BY DEF RunsServed
  <2>2. ASSUME actors'[a].state = "closing"
        PROVE  /\ actors'[a].turn /\ actors'[a].closer \in Callers
               /\ calls'[actors'[a].closer].pc = "await" /\ calls'[actors'[a].closer].h = a
    <3>1. a \in 1..Len(actors) /\ actors[a].state = "closing"
      BY <1>0, <2>2 DEF SameWait
    <3>2. /\ actors[a].turn /\ actors[a].closer \in Callers
          /\ calls[actors[a].closer].pc = "await" /\ calls[actors[a].closer].h = a
      BY <3>1 DEF ClosersWait, At
    <3> QED BY <3>1, <3>2 DEF SameWait
  <2> QED BY <2>1, <2>2
<1>2. ASSUME NEW d \in Callers, calls'[d].pc = "await"
      PROVE  actors'[calls'[d].h].state = "closing" /\ actors'[calls'[d].h].closer = d
  <2>1. calls'[d] = calls[d] /\ calls[d].pc = "await"
    BY <1>2
  <2>2. calls[d].h \in 1..Len(actors)
    BY <1>0, <2>1, CallType, StepNames DEF None
  <2> QED BY <2>1, <2>2 DEF ClosersWait, At, SameWait
<1> QED BY <1>1, <1>2 DEF ClosersWait, At, Serving

(* What the steps of a call do to the actors.                                *)
LEMMA RunsAreServed == ASSUME ClosersWait PROVE RunsServed(actors)
BY DEF ClosersWait, RunsServed, Serving

LEMMA StillWait == \A a \in 1..Len(actors) : actors' = actors => SameWait(a)
BY DEF SameWait

LEMMA InstallActors ==
  ASSUME CallsType, RestType, NEW c \in Callers, Install(c), ~(deleting \/ Usable)
  PROVE  /\ actors' \in Seq(Actors) /\ Len(actors') = Len(actors) + 1 /\ Len(actors) \in Nat
         /\ \A a \in 1..Len(actors) : actors'[a] = actors[a]
         /\ actors'[Len(actors) + 1] = Spawned(calls[c].rec)
         /\ handle' = Len(actors) + 1 /\ Loaded(c, handle') /\ UNCHANGED <<deleting, disk, history>>
<1>1. actors' = Append(actors, Spawned(calls[c].rec)) /\ handle' = Len(actors')
      /\ Loaded(c, handle') /\ UNCHANGED <<deleting, disk, history>>
  BY DEF Install
<1>2. Spawned(calls[c].rec) \in Actors
  BY CallType DEF Spawned, Actors
<1> QED BY <1>1, <1>2, AppendProperties DEF RestType

LEMMA ChangeActors ==
  ASSUME CallsType, RestType, StepsAgree, NEW c \in Callers, Change(c)
  PROVE  LET a == calls[c].h  rec == Noted(actors[a].rec, c) IN
         /\ a \in 1..Len(actors) /\ actors[a].state = "live" /\ ~actors[a].turn
         /\ calls[c].op \in {"prompt", "rebind"} /\ At(c, "request")
         /\ Len(actors') = Len(actors) /\ Len(actors) \in Nat
         /\ \A b \in 1..Len(actors) : b # a => actors'[b] = actors[b]
         /\ actors'[a].state = "live" /\ actors'[a].closer = actors[a].closer
         /\ actors'[a].turn => calls[c].op = "prompt"
         /\ \/ disk' = Saved(rec) /\ actors'[a].rec = rec /\ acked' \in {acked, acked \cup {calls[c].id}}
            \/ /\ disk' = disk /\ actors'[a].rec \in {rec, actors[a].rec} /\ ~actors'[a].turn
               /\ acked' = acked
         /\ Return(c) /\ UNCHANGED <<registry, erased>>
<1> DEFINE a == calls[c].h
           rec == Noted(actors[a].rec, c)
           prompts == calls[c].op = "prompt"
<1>1. /\ calls[c].op \in {"prompt", "rebind"} /\ At(c, "request")
      /\ actors[a].state = "live" /\ ~actors[a].turn
  BY DEF Change, Asks
<1>2. a \in 1..Len(actors) /\ Len(actors) \in Nat
  BY <1>1, CallType, ActorTypes, StepNames DEF At, None
<1>3. rec \in Record
  BY <1>1, <1>2, ActorTypes, NotedType
<1>4. actors[a] \in Actors
  BY <1>2, ActorTypes
<1>5. Return(c) /\ UNCHANGED <<registry, erased>>
  BY DEF Change
<1>6. \/ /\ disk' = Saved(rec)
         /\ acked' = IF prompts THEN acked \cup {calls[c].id} ELSE acked
         /\ actors' = [actors EXCEPT ![a].rec = rec, ![a].turn = prompts]
      \/ /\ UNCHANGED <<disk, acked>>
         /\ actors' = IF prompts THEN [actors EXCEPT ![a].rec = rec] ELSE actors
  BY DEF Change
<1> HIDE DEF a, rec
<1>7. CASE /\ disk' = Saved(rec)
           /\ acked' = IF prompts THEN acked \cup {calls[c].id} ELSE acked
           /\ actors' = [actors EXCEPT ![a].rec = rec, ![a].turn = prompts]
  <2> DEFINE actor == [actors[a] EXCEPT !.rec = rec, !.turn = prompts]
  <2>1. actors' = [actors EXCEPT ![a] = actor]
    BY <1>7, <1>2 DEF RestType
  <2>2. actor \in Actors
    BY <1>2, <1>3, ActorEdits DEF Holders
  <2>3. /\ actor.state = "live" /\ actor.closer = actors[a].closer
        /\ actor.rec = rec /\ actor.turn = prompts
    BY <1>1, <1>4 DEF Actors
  <2> HIDE DEF actor
  <2>4. /\ Len(actors') = Len(actors) /\ actors'[a] = actor
        /\ \A b \in 1..Len(actors) : b # a => actors'[b] = actors[b]
    BY <1>2, <2>1, <2>2, ActorChanges
  <2> QED BY <1>1, <1>2, <1>5, <1>7, <2>3, <2>4 DEF a, rec
<1>8. CASE UNCHANGED <<disk, acked>> /\ actors' = [actors EXCEPT ![a].rec = rec]
  <2> DEFINE actor == [actors[a] EXCEPT !.rec = rec]
  <2>1. actors' = [actors EXCEPT ![a] = actor]
    BY <1>8, <1>2 DEF RestType
  <2>2. actor \in Actors
    BY <1>2, <1>3, ActorEdits DEF Holders
  <2>3. /\ actor.state = "live" /\ actor.closer = actors[a].closer
        /\ actor.rec = rec /\ ~actor.turn
    BY <1>1, <1>4 DEF Actors
  <2> HIDE DEF actor
  <2>4. /\ Len(actors') = Len(actors) /\ actors'[a] = actor
        /\ \A b \in 1..Len(actors) : b # a => actors'[b] = actors[b]
    BY <1>2, <2>1, <2>2, ActorChanges
  <2> QED BY <1>1, <1>2, <1>5, <1>8, <2>3, <2>4 DEF a, rec
<1>9. CASE UNCHANGED <<disk, acked>> /\ actors' = actors
  BY <1>1, <1>2, <1>5, <1>9 DEF a, rec
<1> QED BY <1>6, <1>7, <1>8, <1>9

(* An actor stops: it answers its closer c and serves no more.               *)
LEMMA StopsActors ==
  ASSUME CallsType, RestType, NEW c \in Callers, NEW a \in 1..Len(actors), Stops(a, c)
  PROVE  /\ Len(actors') = Len(actors) /\ Len(actors) \in Nat
         /\ actors'[a].state = "stopping" /\ ~actors'[a].turn /\ actors'[a].rec = actors[a].rec
         /\ \A b \in 1..Len(actors) : b # a => actors'[b] = actors[b]
         /\ handle' = handle /\ UNCHANGED <<acked, erased>>
         /\ \/ /\ disk' = Saved(actors[a].rec) /\ Goto(c, AfterQuit(c)) /\ UNCHANGED locks
               /\ deleting' = deleting
            \/ /\ disk' = disk /\ Return(c)
               /\ deleting' = (deleting /\ calls[c].op # "delete")
<1> DEFINE actor == [actors[a] EXCEPT !.state = "stopping", !.turn = FALSE]
<1>1. actors' = [actors EXCEPT ![a] = actor]
  BY DEF Stops
<1>2. actor \in Actors
  BY ActorEdits, NoRecordType DEF Holders
<1>3. actor.state = "stopping" /\ ~actor.turn /\ actor.rec = actors[a].rec
  BY ActorTypes DEF Actors
<1> HIDE DEF actor
<1>4. /\ Len(actors') = Len(actors) /\ actors'[a] = actor
      /\ \A b \in 1..Len(actors) : b # a => actors'[b] = actors[b]
  BY <1>1, <1>2, ActorChanges
<1>5. CASE disk' = Saved(actors[a].rec) /\ Goto(c, AfterQuit(c)) /\ UNCHANGED <<registry, locks, used>>
  BY <1>3, <1>4, <1>5, ActorTypes DEF Stops, registry
<1>6. CASE Fault /\ QuitFails(c) /\ UNCHANGED disk
  BY <1>3, <1>4, <1>6, ActorTypes DEF Stops, QuitFails
<1> QED BY <1>5, <1>6 DEF Stops

LEMMA QuitBusyActors ==
  ASSUME CallsType, RestType, NEW c \in Callers, QuitBusy(c)
  PROVE  LET a == calls[c].h IN
         /\ a \in 1..Len(actors) /\ actors[a].state = "live" /\ actors[a].turn
         /\ At(c, "quit") /\ GoesTo(c, "await") /\ calls'[c].h = a
         /\ Len(actors') = Len(actors) /\ Len(actors) \in Nat
         /\ actors'[a].state = "closing" /\ actors'[a].closer = c /\ actors'[a].turn
         /\ actors'[a].rec = actors[a].rec
         /\ \A b \in 1..Len(actors) : b # a => actors'[b] = actors[b]
         /\ UNCHANGED <<registry, locks, disk, history>>
<1> DEFINE a == calls[c].h
           actor == [actors[a] EXCEPT !.state = "closing", !.closer = c]
<1>1. a \in 1..Len(actors) /\ Len(actors) \in Nat
  BY CallType, ActorTypes, StepNames DEF QuitBusy, At, None
<1>2. actors' = [actors EXCEPT ![a] = actor]
  BY <1>1 DEF QuitBusy, RestType
<1>3. actor \in Actors
  BY <1>1, ActorEdits, NoRecordType DEF Holders
<1>4. /\ actor.state = "closing" /\ actor.closer = c /\ actor.turn = actors[a].turn
      /\ actor.rec = actors[a].rec
  BY <1>1, ActorTypes DEF Actors
<1> HIDE DEF actor
<1>5. /\ Len(actors') = Len(actors) /\ actors'[a] = actor
      /\ \A b \in 1..Len(actors) : b # a => actors'[b] = actors[b]
  BY <1>1, <1>2, <1>3, ActorChanges
<1>6. GoesTo(c, "await") /\ calls'[c].h = a
  BY CallForms DEF QuitBusy
<1> QED BY <1>1, <1>4, <1>5, <1>6 DEF QuitBusy

LEMMA TurnEndsActors ==
  ASSUME RestType, NEW a \in 1..Len(actors), TurnEnds(a)
  PROVE  /\ actors[a].state = "live" /\ actors[a].turn
         /\ Len(actors') = Len(actors) /\ Len(actors) \in Nat
         /\ actors'[a].state = "live" /\ ~actors'[a].turn /\ actors'[a].rec = actors[a].rec
         /\ \A b \in 1..Len(actors) : b # a => actors'[b] = actors[b]
         /\ UNCHANGED <<registry, locks, calls, acked, erased>>
         /\ disk' = Saved(actors[a].rec) \/ disk' = disk
<1> DEFINE actor == [actors[a] EXCEPT !.turn = FALSE]
<1>1. actors' = [actors EXCEPT ![a] = actor]
  BY DEF TurnEnds
<1>2. actor \in Actors
  BY ActorEdits, NoRecordType DEF Holders
<1>3. actor.state = actors[a].state /\ ~actor.turn /\ actor.rec = actors[a].rec
  BY ActorTypes DEF Actors
<1> HIDE DEF actor
<1>4. /\ Len(actors') = Len(actors) /\ actors'[a] = actor
      /\ \A b \in 1..Len(actors) : b # a => actors'[b] = actors[b]
  BY <1>1, <1>2, ActorChanges
<1> QED BY <1>3, <1>4, ActorTypes DEF TurnEnds, Runs

LEMMA TerminatesActors ==
  ASSUME RestType, NEW a \in 1..Len(actors), Terminates(a)
  PROVE  /\ actors[a].state = "stopping"
         /\ Len(actors') = Len(actors) /\ Len(actors) \in Nat
         /\ actors'[a].state = "gone" /\ actors'[a].turn = actors[a].turn
         /\ actors'[a].rec = actors[a].rec
         /\ \A b \in 1..Len(actors) : b # a => actors'[b] = actors[b]
         /\ UNCHANGED <<registry, locks, disk, calls, history>>
<1> DEFINE actor == [actors[a] EXCEPT !.state = "gone"]
<1>1. actors' = [actors EXCEPT ![a] = actor]
  BY DEF Terminates
<1>2. actor \in Actors
  BY ActorEdits, NoRecordType DEF Holders
<1>3. actor.state = "gone" /\ actor.turn = actors[a].turn /\ actor.rec = actors[a].rec
  BY ActorTypes DEF Actors
<1> HIDE DEF actor
<1>4. /\ Len(actors') = Len(actors) /\ actors'[a] = actor
      /\ \A b \in 1..Len(actors) : b # a => actors'[b] = actors[b]
  BY <1>1, <1>2, ActorChanges
<1> QED BY <1>3, <1>4, ActorTypes DEF Terminates

(* The other steps of a call leave the actors alone.                         *)
LEMMA ActorsStay ==
  ASSUME NEW c \in Callers, Step(c),
         ~(Install(c) /\ ~(deleting \/ Usable)), ~Change(c), ~QuitIdle(c), ~QuitBusy(c)
  PROVE  actors' = actors
<1>1. CASE Load(c)
  BY <1>1 DEF Load, Look, LookAgain, LookUp, LoadRecord, Prepare, Install
<1>2. CASE Request(c) \/ Rebind(c)
  BY <1>2 DEF Request, Snapshot, RequestFails, Steer, ArchiveIdle, Rebind, Bind, Reread, Rewrite
<1>3. CASE Quit(c) \/ Delete(c) \/ List(c)
  BY <1>3 DEF Quit, QuitRefused, Delete, Mark, Inspect, Erase, Unmark,
     List, Scan, Gather, ReadTranscript, Retitle, Status
<1>4. CASE AcquireMutation(c) \/ AcquireSession(c) \/ Check(c) \/ Find(c) \/ Drop(c) \/ Archive(c)
           \/ Unarchive(c) \/ RepositoryFails(c)
  BY <1>4 DEF AcquireMutation, AcquireSession, Check, Find, Drop, Archive, Unarchive, Move, RepositoryFails
<1> QED BY <1>1, <1>2, <1>3, <1>4 DEF Step

LEMMA NoneAwaits ==
  ASSUME CallsType, NEW c \in Callers, Step(c)
  PROVE  calls[c].pc # "await" /\ (~QuitBusy(c) => calls'[c].pc # "await")
<1>1. Moves(c) /\ calls[c].pc # "await"
  BY StepMoves
<1>2. NoCall.pc = "idle"
  BY DEF NoCall
<1> QED BY <1>1, <1>2 DEF Moves, MovesAlone, MovesWithHandle, MovesWithRecord, Moved, GoesTo, AfterQuit

LEMMA WaitStep ==
  ASSUME CallsType, RestType, StepsAgree, ClosersWait, NEW c \in Callers, Step(c)
  PROVE  ClosersWait'
<1>0. Len(actors) \in Nat
  BY ActorTypes
<1>1. \A d \in Callers \ {c} : calls'[d] = calls[d]
  BY StepsMoveOne
<1>2. calls[c].pc # "await" /\ (~QuitBusy(c) => calls'[c].pc # "await")
  BY NoneAwaits
<1>3. ASSUME ~QuitBusy(c), Len(actors) <= Len(actors'), Len(actors') \in Nat,
             RunsServed(actors'), \A a \in 1..Len(actors) : SameWait(a),
             \A a \in 1..Len(actors') : a > Len(actors) => actors'[a].state # "closing"
      PROVE  ClosersWait'
  <2>1. \A d \in Callers : calls[d].pc = "await" \/ calls'[d].pc = "await" => calls'[d] = calls[d]
    BY <1>1, <1>2, <1>3
  <2> QED BY <1>3, <2>1, WaitKept
<1>4. RunsServed(actors)
  BY RunsAreServed
<1>5. CASE Install(c) /\ ~(deleting \/ Usable)
  <2>1. /\ Len(actors') = Len(actors) + 1
        /\ \A a \in 1..Len(actors) : actors'[a] = actors[a]
        /\ actors'[Len(actors) + 1] = Spawned(calls[c].rec)
        /\ Loaded(c, handle')
    BY <1>5, InstallActors
  <2>2. Spawned(calls[c].rec).state = "live" /\ ~Spawned(calls[c].rec).turn
    BY DEF Spawned
  <2>3. \A a \in 1..Len(actors') : a \in 1..Len(actors) \/ a = Len(actors) + 1
    BY <1>0, <2>1
  <2>4. RunsServed(actors')
    BY <1>4, <2>1, <2>2, <2>3 DEF RunsServed
  <2>5. \A a \in 1..Len(actors') : a > Len(actors) => actors'[a].state # "closing"
    BY <1>0, <2>1, <2>2, <2>3
  <2>6. \A a \in 1..Len(actors) : SameWait(a)
    BY <2>1 DEF SameWait
  <2>7. ~QuitBusy(c)
    BY <1>5 DEF Install, QuitBusy, At
  <2> QED BY <1>0, <1>3, <2>1, <2>4, <2>5, <2>6, <2>7
<1>6. CASE Change(c)
  <2> DEFINE b == calls[c].h
  <2>1. /\ b \in 1..Len(actors) /\ actors[b].state = "live" /\ At(c, "request")
        /\ Len(actors') = Len(actors)
        /\ \A a \in 1..Len(actors) : a # b => actors'[a] = actors[a]
        /\ actors'[b].state = "live"
    BY <1>6, ChangeActors
  <2> HIDE DEF b
  <2>2. RunsServed(actors') /\ \A a \in 1..Len(actors) : SameWait(a)
    BY <1>4, <2>1 DEF RunsServed, SameWait
  <2>3. ~QuitBusy(c)
    BY <2>1 DEF QuitBusy, At
  <2> QED BY <1>0, <1>3, <2>1, <2>2, <2>3
<1>7. CASE QuitIdle(c)
  <2> DEFINE b == calls[c].h
  <2>1. b \in 1..Len(actors) /\ actors[b].state = "live" /\ Stops(b, c) /\ ~actors[b].turn
    BY <1>0, <1>7, CallType, StepNames DEF QuitIdle, At, None
  <2>2. /\ Len(actors') = Len(actors) /\ actors'[b].state = "stopping" /\ ~actors'[b].turn
        /\ \A a \in 1..Len(actors) : a # b => actors'[a] = actors[a]
    BY <2>1, StopsActors
  <2>a. ~QuitBusy(c)
    BY <2>1 DEF QuitBusy
  <2> HIDE DEF b
  <2>3. RunsServed(actors') /\ \A a \in 1..Len(actors) : SameWait(a)
    BY <1>4, <2>1, <2>2 DEF RunsServed, SameWait
  <2> QED BY <1>0, <1>3, <2>2, <2>a, <2>3
<1>8. CASE QuitBusy(c)
  <2> DEFINE b == calls[c].h
  <2>1. /\ b \in 1..Len(actors) /\ actors[b].state = "live"
        /\ calls[c].pc = "quit" /\ calls'[c].pc = "await" /\ calls'[c].h = b
        /\ Len(actors') = Len(actors)
        /\ actors'[b].state = "closing" /\ actors'[b].closer = c /\ actors'[b].turn
        /\ \A a \in 1..Len(actors) : a # b => actors'[a] = actors[a]
    BY <1>8, QuitBusyActors DEF At, GoesTo
  <2> HIDE DEF b
  <2>2. ASSUME NEW a \in 1..Len(actors')
        PROVE  /\ actors'[a].turn => actors'[a].state \in {"live", "closing"}
               /\ actors'[a].state = "closing" =>
                    /\ actors'[a].turn /\ actors'[a].closer \in Callers
                    /\ calls'[actors'[a].closer].pc = "await" /\ calls'[actors'[a].closer].h = a
    <3>1. CASE a = b
      BY <2>1, <3>1
    <3>2. CASE a # b
      <4>1. a \in 1..Len(actors) /\ actors'[a] = actors[a]
        BY <2>1, <3>2
      <4>2. actors[a].state = "closing" => actors[a].closer \in Callers \ {c}
        BY <2>1, <4>1 DEF ClosersWait, At
      <4> QED BY <1>1, <4>1, <4>2 DEF ClosersWait, At, Serving
    <3> QED BY <3>1, <3>2
  <2>3. ASSUME NEW d \in Callers, calls'[d].pc = "await"
        PROVE  actors'[calls'[d].h].state = "closing" /\ actors'[calls'[d].h].closer = d
    <3>1. CASE d = c
      BY <2>1, <3>1
    <3>2. CASE d # c
      <4>1. calls'[d] = calls[d] /\ calls[d].h \in 1..Len(actors)
        BY <1>0, <1>1, <2>3, <3>2, CallType, StepNames DEF None
      <4>2. actors[calls[d].h].state = "closing" /\ actors[calls[d].h].closer = d
        BY <2>3, <4>1 DEF ClosersWait, At
      <4> QED BY <2>1, <4>1, <4>2
    <3> QED BY <3>1, <3>2
  <2> QED BY <2>2, <2>3 DEF ClosersWait, At, Serving
<1>9. CASE ~(Install(c) /\ ~(deleting \/ Usable)) /\ ~Change(c) /\ ~QuitIdle(c) /\ ~QuitBusy(c)
  <2>1. actors' = actors
    BY <1>9, ActorsStay
  <2> QED BY <1>0, <1>3, <1>4, <1>9, <2>1, StillWait
<1> QED BY <1>5, <1>6, <1>7, <1>8, <1>9

(* The end of a turn that an unload waited for.                              *)
LEMMA ClosesActors ==
  ASSUME CallsType, RestType, ClosersWait, NEW a \in 1..Len(actors), Closes(a)
  PROVE  LET c == actors[a].closer IN
         /\ c \in Callers /\ At(c, "await") /\ calls[c].h = a /\ Stops(a, c)
         /\ actors[a].state = "closing"
         /\ \A d \in Callers \ {c} : calls'[d] = calls[d]
         /\ calls'[c] = NoCall \/ (GoesTo(c, AfterQuit(c)) /\ calls'[c].h = a /\ calls'[c].rec = calls[c].rec)
<1> DEFINE c == actors[a].closer
<1>1. actors[a].state = "closing" /\ Stops(a, c)
  BY DEF Closes
<1>2. c \in Callers /\ At(c, "await") /\ calls[c].h = a
  BY <1>1 DEF ClosersWait
<1> HIDE DEF c
<1>3. Goto(c, AfterQuit(c)) \/ Return(c)
  BY <1>1 DEF Stops, QuitFails
<1>4. /\ \A d \in Callers \ {c} : calls'[d] = calls[d]
      /\ calls'[c] = NoCall \/ (GoesTo(c, AfterQuit(c)) /\ calls'[c].h = a /\ calls'[c].rec = calls[c].rec)
  BY <1>2, <1>3, CallForms, OthersStay
<1> QED BY <1>1, <1>2, <1>4 DEF c

LEMMA WaitActor ==
  ASSUME CallsType, RestType, ClosersWait, NEW a \in 1..Len(actors), Actor(a)
  PROVE  ClosersWait'
<1>0. Len(actors) \in Nat
  BY ActorTypes
<1>1. RunsServed(actors)
  BY RunsAreServed
<1>2. CASE TurnSaves(a)
  BY <1>2 DEF TurnSaves, ClosersWait, At, Serving
<1>3. CASE TurnEnds(a)
  <2>1. /\ actors[a].state = "live" /\ actors'[a].state = "live" /\ Len(actors') = Len(actors)
        /\ \A b \in 1..Len(actors) : b # a => actors'[b] = actors[b]
        /\ calls' = calls
    BY <1>3, TurnEndsActors
  <2>2. RunsServed(actors') /\ \A b \in 1..Len(actors) : SameWait(b)
    BY <1>1, <2>1 DEF RunsServed, SameWait
  <2> QED BY <1>0, <2>1, <2>2, WaitKept
<1>4. CASE Terminates(a)
  <2>1. /\ actors[a].state = "stopping" /\ actors'[a].state = "gone" /\ Len(actors') = Len(actors)
        /\ actors'[a].turn = actors[a].turn
        /\ \A b \in 1..Len(actors) : b # a => actors'[b] = actors[b]
        /\ calls' = calls
    BY <1>4, TerminatesActors
  <2>2. RunsServed(actors') /\ \A b \in 1..Len(actors) : SameWait(b)
    BY <1>1, <2>1 DEF RunsServed, SameWait
  <2> QED BY <1>0, <2>1, <2>2, WaitKept
<1>5. CASE Closes(a)
  <2> DEFINE c == actors[a].closer
  <2>1. /\ c \in Callers /\ calls[c].pc = "await" /\ calls[c].h = a /\ Stops(a, c)
        /\ \A d \in Callers \ {c} : calls'[d] = calls[d]
        /\ calls'[c].pc # "await"
    BY <1>5, ClosesActors DEF At, GoesTo, AfterQuit, NoCall
  <2>2. /\ Len(actors') = Len(actors) /\ actors'[a].state = "stopping" /\ ~actors'[a].turn
        /\ \A b \in 1..Len(actors) : b # a => actors'[b] = actors[b]
    BY <2>1, StopsActors
  <2>3. ASSUME NEW b \in 1..Len(actors')
        PROVE  /\ actors'[b].turn => actors'[b].state \in {"live", "closing"}
               /\ actors'[b].state = "closing" =>
                    /\ actors'[b].turn /\ actors'[b].closer \in Callers
                    /\ calls'[actors'[b].closer].pc = "await" /\ calls'[actors'[b].closer].h = b
    <3>1. CASE b = a
      BY <2>2, <3>1
    <3>2. CASE b # a
      <4>1. b \in 1..Len(actors) /\ actors'[b] = actors[b]
        BY <2>2, <3>2
      <4>2. actors[b].state = "closing" => actors[b].closer \in Callers \ {c}
        BY <2>1, <3>2, <4>1 DEF ClosersWait, At
      <4> QED BY <2>1, <4>1, <4>2 DEF ClosersWait, At, Serving
    <3> QED BY <3>1, <3>2
  <2>4. ASSUME NEW d \in Callers, calls'[d].pc = "await"
        PROVE  actors'[calls'[d].h].state = "closing" /\ actors'[calls'[d].h].closer = d
    <3>1. d # c /\ calls'[d] = calls[d] /\ calls[d].h \in 1..Len(actors)
      BY <1>0, <2>1, <2>4, CallType, StepNames DEF None
    <3>2. actors[calls[d].h].state = "closing" /\ actors[calls[d].h].closer = d
      BY <2>4, <3>1 DEF ClosersWait, At
    <3> QED BY <2>2, <3>1, <3>2
  <2> QED BY <2>3, <2>4 DEF ClosersWait, At, Serving
<1> QED BY <1>2, <1>3, <1>4, <1>5 DEF Actor

-----------------------------------------------------------------------------
(* The types, the locks and the waits together.                              *)

LEMMA BeginMoves ==
  ASSUME CallsType, NEW c \in Callers, NEW op \in Ops, Begin(c, op)
  PROVE  /\ calls[c].pc = "idle" /\ calls'[c].op = op /\ calls'[c].rec = NoRecord
         /\ calls'[c].pc = IF op \in Mutating THEN "mlock"
                           ELSE IF op = "open" THEN "look"
                           ELSE IF op = "unload" THEN "find" ELSE "scan"
         /\ \A d \in Callers \ {c} : calls'[d] = calls[d]
         /\ UNCHANGED <<registry, locks, disk, actors, acked, erased>>
<1> DEFINE pc == IF op \in Mutating THEN "mlock"
                 ELSE IF op = "open" THEN "look"
                 ELSE IF op = "unload" THEN "find" ELSE "scan"
           call == [NoCall EXCEPT !.op = op, !.id = used'.calls, !.pc = pc]
<1>1. /\ calls' = [calls EXCEPT ![c] = call] /\ calls[c].pc = "idle"
      /\ UNCHANGED <<registry, locks, disk, actors, acked, erased>>
  BY DEF Begin, At
<1>2. call.op = op /\ call.pc = pc /\ call.rec = NoRecord
  BY DEF NoCall
<1> HIDE DEF call
<1>3. calls'[c] = call /\ \A d \in Callers \ {c} : calls'[d] = calls[d]
  BY <1>1 DEF CallsType
<1> QED BY <1>1, <1>2, <1>3

LEMMA CallsBegin ==
  ASSUME CallsType, CallsInv, NEW c \in Callers, NEW op \in Ops, Begin(c, op)
  PROVE  CallsInv'
<1> DEFINE pc == IF op \in Mutating THEN "mlock"
                 ELSE IF op = "open" THEN "look"
                 ELSE IF op = "unload" THEN "find" ELSE "scan"
<1>1. /\ calls[c].pc = "idle" /\ calls'[c].op = op /\ calls'[c].pc = pc
      /\ \A d \in Callers \ {c} : calls'[d] = calls[d]
      /\ UNCHANGED locks
  BY BeginMoves
<1>2. calls[c].op = "none" /\ op \in OpNames
  BY <1>1, Position, OpsAssumption DEF Agrees
<1>3. slock # c /\ mlock # c
  BY <1>1, <1>2, Position, IdleHolds
<1>4. Agrees(op, pc) /\ ~HoldsSession(op, pc) /\ ~HoldsMutation(op, pc)
  BY <1>2 DEF Agrees, HoldsSession, HoldsMutation, OpNames, Loading, Erasing, Quitting, Listing, Mutating
<1> HIDE DEF pc
<1> QED BY <1>1, <1>3, <1>4, CallMoves DEF locks

LEMMA CallsActor ==
  ASSUME CallsType, RestType, CallsInv, ClosersWait, NEW a \in 1..Len(actors), Actor(a)
  PROVE  CallsInv'
<1>1. CASE Closes(a)
  <2> DEFINE c == actors[a].closer
  <2>1. /\ c \in Callers /\ calls[c].pc = "await" /\ Stops(a, c)
        /\ \A d \in Callers \ {c} : calls'[d] = calls[d]
    BY <1>1, ClosesActors DEF At
  <2> HIDE DEF c
  <2>2. CASE QuitFails(c)
    BY <2>1, <2>2, ReturnCalls DEF QuitFails
  <2>3. CASE Goto(c, AfterQuit(c)) /\ UNCHANGED locks
    <3>1. Agrees(calls[c].op, "await") /\ calls[c].op \in OpNames \cup {"none"}
      BY <2>1, Position
    <3>2. PICK step \in {"inspect", "drop"} : step = AfterQuit(c)
      BY DEF AfterQuit
    <3>3. GoesTo(c, step)
      BY <2>1, <2>3, <3>2, CallForms
    <3>4. /\ step \in Steps /\ Agrees(calls[c].op, step)
          /\ HoldsSession(calls[c].op, step) <=> HoldsSession(calls[c].op, "await")
          /\ HoldsMutation(calls[c].op, step) <=> HoldsMutation(calls[c].op, "await")
      BY <3>1, <3>2, StepNames
         DEF AfterQuit, Agrees, HoldsSession, HoldsMutation, Loading, Erasing, Quitting, Listing, Mutating
    <3> QED BY <2>1, <2>3, <3>3, <3>4, GoesOn DEF GoesTo
  <2> QED BY <2>1, <2>2, <2>3 DEF Stops
<1>2. CASE TurnSaves(a) \/ TurnEnds(a) \/ Terminates(a)
  <2>1. UNCHANGED <<calls, slock, mlock>>
    BY <1>2 DEF TurnSaves, TurnEnds, Terminates, locks
  <2> QED BY <2>1 DEF CallsInv, StepsAgree, SessionLocked, MutationLocked
<1> QED BY <1>1, <1>2 DEF Actor

LEMMA BaseInit == Init => BaseInv
<1> SUFFICES ASSUME Init PROVE BaseInv
  OBVIOUS
<1>0. actors = <<>> /\ Len(actors) = 0
  BY DEF Init
<1>1. CallsType
  <2>1. NoCall \in Call(Len(actors)) /\ NoCall.op = "none" /\ NoCall.pc = "idle"
    BY <1>0, NoCallType DEF NoCall
  <2>2. ~HasHandle("idle")
    BY DEF HasHandle, Quitting
  <2> QED BY <2>1, <2>2 DEF Init, CallsType, CallsNumbered, HandlesLead, HasHandle
<1>2. RestType
  <2>1. disk \in Stored /\ used \in [calls : 0..MaxCalls, faults : 0..MaxFaults]
    BY NoRecordType, BoundsAssumption DEF Init, Stored
  <2>2. actors \in Seq(Actors) /\ handle \in 0..Len(actors)
    BY <1>0 DEF Init, None
  <2>3. slock \in Holders /\ mlock \in Holders /\ acked \subseteq 1..MaxCalls
    BY DEF Init, Holders
  <2>4. deleting \in BOOLEAN /\ erased \in BOOLEAN
    BY DEF Init
  <2> QED BY <2>1, <2>2, <2>3, <2>4 DEF RestType
<1>3. CallsInv
  <2>1. \A c \in Callers : calls[c].op = "none" /\ calls[c].pc = "idle"
    BY DEF Init, NoCall
  <2> QED BY <2>1, IdleHolds, CallersAssumption DEF Init, CallsInv, StepsAgree, SessionLocked, MutationLocked
<1>4. ClosersWait
  <2>1. \A c \in Callers : calls[c].pc = "idle"
    BY DEF Init, NoCall
  <2> QED BY <1>0, <2>1 DEF ClosersWait, At
<1> QED BY <1>1, <1>2, <1>3, <1>4, TypeSplit DEF BaseInv

LEMMA StepType ==
  ASSUME CallsType, RestType, StepsAgree, NEW c \in Callers, Step(c)
  PROVE  CallsType' /\ RestType'
<1>1. CASE Install(c)
  BY <1>1, InstallType
<1>2. CASE Change(c)
  BY <1>2, ChangeType
<1>3. CASE \/ AcquireMutation(c) \/ AcquireSession(c) \/ Check(c) \/ Look(c) \/ LookAgain(c)
           \/ LoadRecord(c) \/ Snapshot(c) \/ RequestFails(c) \/ Steer(c) \/ ArchiveIdle(c)
           \/ Bind(c) \/ Reread(c) \/ Find(c) \/ Inspect(c) \/ Scan(c) \/ Gather(c)
           \/ ReadTranscript(c) \/ Status(c)
  BY <1>3, MovesType
<1>4. CASE \/ Prepare(c) \/ Rewrite(c) \/ QuitIdle(c) \/ QuitBusy(c) \/ QuitRefused(c) \/ Drop(c)
           \/ Archive(c) \/ Unarchive(c) \/ Mark(c) \/ Erase(c) \/ Unmark(c) \/ Retitle(c)
           \/ RepositoryFails(c)
  BY <1>4, WritesType
<1> QED BY <1>1, <1>2, <1>3, <1>4 DEF Step, Load, Request, Rebind, Quit, Delete, List

LEMMA BaseNext == BaseInv /\ [Next]_vars => BaseInv'
<1> SUFFICES ASSUME BaseInv, [Next]_vars PROVE BaseInv'
  OBVIOUS
<1>0. CallsType /\ RestType /\ CallsInv /\ StepsAgree /\ ClosersWait
  BY TypeSplit DEF BaseInv, CallsInv
<1>1. ASSUME CallsType', RestType', CallsInv', ClosersWait'
      PROVE  BaseInv'
  <2>1. TypeInv'
    BY <1>1, TypeSplit, PTL
  <2> QED BY <1>1, <2>1 DEF BaseInv
<1>2. ASSUME NEW c \in Callers, Step(c)
      PROVE  BaseInv'
  <2>1. CallsType' /\ RestType'
    BY <1>0, <1>2, StepType
  <2>2. CallsInv' /\ ClosersWait'
    BY <1>0, <1>2, CallsStep, WaitStep
  <2> QED BY <1>1, <2>1, <2>2
<1>3. ASSUME NEW c \in Callers, NEW op \in Ops, Begin(c, op)
      PROVE  BaseInv'
  <2>1. CallsType' /\ RestType' /\ CallsInv'
    BY <1>0, <1>3, BeginType, CallsBegin
  <2>2. /\ calls[c].pc = "idle" /\ actors' = actors
        /\ calls'[c].pc # "await"
        /\ \A d \in Callers \ {c} : calls'[d] = calls[d]
    BY <1>0, <1>3, BeginMoves
  <2>3. \A d \in Callers : calls[d].pc = "await" \/ calls'[d].pc = "await" => calls'[d] = calls[d]
    BY <2>2
  <2>4. RunsServed(actors') /\ Len(actors) \in Nat
    BY <1>0, <2>2, RunsAreServed, ActorTypes
  <2>5. \A a \in 1..Len(actors) : SameWait(a)
    BY <2>2, StillWait
  <2>6. ClosersWait'
    BY <1>0, <2>2, <2>3, <2>4, <2>5, WaitKept
  <2> QED BY <1>1, <2>1, <2>6
<1>4. ASSUME NEW a \in 1..Len(actors), Actor(a)
      PROVE  BaseInv'
  BY <1>0, <1>1, <1>4, ActorStepType, CallsActor, WaitActor
<1>5. CASE UNCHANGED vars
  <2>1. CallsType' /\ RestType'
    BY <1>0, <1>5 DEF vars, CallsType, RestType, CallsNumbered, HandlesLead
  <2>2. CallsInv' /\ ClosersWait'
    BY <1>0, <1>5 DEF vars, CallsInv, StepsAgree, SessionLocked, MutationLocked, ClosersWait, At, Serving
  <2> QED BY <1>1, <2>1, <2>2
<1> QED BY <1>2, <1>3, <1>4, <1>5 DEF Next

LEMMA BaseHolds == Spec => []BaseInv
BY BaseInit, BaseNext, PTL DEF Spec

(* Every variable has its type, whatever is called and fails.                *)
THEOREM ServiceTypeCorrect == Spec => []TypeOK
<1>1. BaseInv => TypeOK
  BY DEF BaseInv, TypeInv
<1> QED BY <1>1, BaseHolds, PTL

-----------------------------------------------------------------------------
(* One actor at a time.                                                      *)

Served(s, a) == s[a].state \in {"live", "closing"}
ServesFewer == Len(actors') = Len(actors) /\ \A a \in 1..Len(actors) : Served(actors', a) => Serving(a)

(* The session lock has one holder.                                          *)
LEMMA OneHolder ==
  ASSUME CallsInv, NEW c \in Callers, NEW d \in Callers,
         HoldsSession(calls[c].op, calls[c].pc), HoldsSession(calls[d].op, calls[d].pc)
  PROVE  c = d
BY DEF CallsInv, SessionLocked

LEMMA OneChanger ==
  ASSUME CallsInv, NEW c \in Callers, NEW d \in Callers,
         HoldsMutation(calls[c].op, calls[c].pc), HoldsMutation(calls[d].op, calls[d].pc)
  PROVE  c = d
BY DEF CallsInv, MutationLocked

(* What holds while the handle stays and no actor is added.                  *)
LEMMA SafetyKept ==
  ASSUME CallsType, RestType, SafeInv, NEW c \in Callers,
         \A d \in Callers \ {c} : calls'[d] = calls[d],
         ServesFewer, handle' = handle, deleting' => deleting,
         \A d \in Callers : calls'[d].op = "delete" /\ calls'[d].pc \in Quitting \cup Erasing => deleting',
         Deletes(c) /\ calls[c].pc \in Quitting =>
           \/ ~Served(actors', calls[c].h)
           \/ calls'[c].op = "delete" /\ calls'[c].pc \in Quitting /\ calls'[c].h = calls[c].h,
         calls'[c].pc \in {"load", "prepare", "install"} => \A a \in 1..Len(actors) : ~Serving(a),
         calls'[c].pc = "drop" => ~Served(actors', calls'[c].h)
  PROVE  SafeInv'
<1>0. Len(actors) \in Nat
  BY ActorTypes
<1>1. DeleteTakesHandle'
  BY DEF SafeInv, DeleteTakesHandle, Deletes
<1>2. ServingIsFound'
  <2> SUFFICES ASSUME NEW a \in 1..Len(actors), Serving(a), Served(actors', a)
               PROVE  handle' = a \/ \E d \in Callers :
                        calls'[d].op = "delete" /\ calls'[d].pc \in Quitting /\ calls'[d].h = a
    BY DEF ServingIsFound, Serving, ServesFewer, Served, Deletes
  <2>1. CASE handle = a
    BY <2>1
  <2>2. ASSUME NEW d \in Callers, Deletes(d), calls[d].pc \in Quitting, calls[d].h = a
        PROVE  \E e \in Callers :
                 calls'[e].op = "delete" /\ calls'[e].pc \in Quitting /\ calls'[e].h = a
    BY <2>2 DEF Deletes
  <2> QED BY <2>1, <2>2 DEF SafeInv, ServingIsFound
<1>3. LoadedAlone'
  BY DEF SafeInv, LoadedAlone, ServesFewer, Served, Serving
<1>4. DroppedIsOver'
  <2> SUFFICES ASSUME NEW d \in Callers, calls'[d].pc = "drop"
               PROVE  ~Served(actors', calls'[d].h)
    BY DEF DroppedIsOver, At, Serving, Served
  <2>1. CASE d = c
    BY <2>1
  <2>2. CASE d # c
    <3>1. calls'[d] = calls[d] /\ ~Serving(calls[d].h)
      BY <2>2 DEF SafeInv, DroppedIsOver, At
    <3>2. calls[d].h \in 1..Len(actors)
      BY <1>0, <3>1, CallType, StepNames DEF None
    <3> QED BY <3>1, <3>2 DEF ServesFewer
  <2> QED BY <2>1, <2>2
<1> QED BY <1>1, <1>2, <1>3, <1>4 DEF SafeInv

LEMMA ServesSame == ASSUME actors' = actors PROVE ServesFewer /\ \A a : Served(actors', a) <=> Serving(a)
BY DEF ServesFewer, Served, Serving

(* A load that looks again, and finds none, is alone.                        *)
LEMMA NoneServes ==
  ASSUME RestType, CallsInv, SafeInv, NEW c \in Callers, calls[c].pc \in {"relook", "mark", "erase"},
         HoldsSession(calls[c].op, calls[c].pc), ~Usable \/ handle = None
  PROVE  \A a \in 1..Len(actors) : ~Serving(a)
<1> SUFFICES ASSUME NEW a \in 1..Len(actors), Serving(a) PROVE FALSE
  OBVIOUS
<1>1. handle # a
  BY DEF Usable, Terminated, Serving, RestType, None
<1>2. PICK d \in Callers : Deletes(d) /\ calls[d].pc \in Quitting
  BY <1>1 DEF SafeInv, ServingIsFound
<1>3. HoldsSession(calls[d].op, calls[d].pc) /\ calls[d].pc # calls[c].pc
  BY <1>2 DEF HoldsSession, Deletes, Quitting
<1> QED BY <1>3, OneHolder

(* An actor stops serving its closer's session.                              *)
LEMMA SafeStops ==
  ASSUME CallsType, RestType, CallsInv, SafeInv, NEW c \in Callers, NEW a \in 1..Len(actors),
         Stops(a, c), calls[c].pc \in Quitting, calls[c].h = a, calls'[c].pc # "await",
         \A d \in Callers \ {c} : calls'[d] = calls[d],
         calls'[c] = NoCall \/ (GoesTo(c, AfterQuit(c)) /\ calls'[c].h = a)
  PROVE  SafeInv'
<1>1. /\ Len(actors') = Len(actors) /\ actors'[a].state = "stopping"
      /\ \A b \in 1..Len(actors) : b # a => actors'[b] = actors[b]
      /\ handle' = handle
      /\ \/ deleting' = deleting /\ Goto(c, AfterQuit(c))
         \/ deleting' = (deleting /\ calls[c].op # "delete") /\ Return(c)
  BY StopsActors
<1>2. ServesFewer /\ ~Served(actors', a)
  BY <1>1 DEF ServesFewer, Served, Serving
<1>3. deleting' => deleting
  BY <1>1
<1>n. NoCall.op = "none" /\ NoCall.pc = "idle"
  BY DEF NoCall
<1>4. /\ calls'[c].pc \in {"idle", "inspect", "drop"}
      /\ calls'[c].pc = "drop" => calls'[c].h = a
      /\ calls'[c].op = "delete" => calls[c].op = "delete" /\ deleting' = deleting
  BY <1>1, <1>n, CallForms DEF GoesTo, AfterQuit
<1>5. ASSUME NEW d \in Callers, calls'[d].op = "delete", calls'[d].pc \in Quitting \cup Erasing
      PROVE  deleting'
  <2>1. CASE d = c
    BY <1>4, <1>5, <2>1 DEF SafeInv, DeleteTakesHandle, Deletes
  <2>2. CASE d # c
    <3>1. deleting /\ HoldsSession(calls[d].op, calls[d].pc)
      BY <1>5, <2>2 DEF SafeInv, DeleteTakesHandle, Deletes, HoldsSession
    <3>2. calls[c].op = "delete" => HoldsSession(calls[c].op, calls[c].pc)
      BY DEF HoldsSession
    <3> QED BY <1>1, <2>2, <3>1, <3>2, OneHolder
  <2> QED BY <2>1, <2>2
<1> QED BY <1>1, <1>2, <1>3, <1>4, <1>5, SafetyKept

LEMMA SafeInstall ==
  ASSUME CallsType, RestType, CallsInv, SafeInv, NEW c \in Callers,
         Install(c), ~(deleting \/ Usable)
  PROVE  SafeInv'
<1>1. /\ Len(actors') = Len(actors) + 1 /\ Len(actors) \in Nat
      /\ \A a \in 1..Len(actors) : actors'[a] = actors[a]
      /\ handle' = Len(actors) + 1 /\ Loaded(c, handle') /\ deleting' = deleting /\ ~deleting
  BY InstallActors
<1>2. \A d \in Callers \ {c} : calls'[d] = calls[d]
  BY <1>1, OthersStay DEF Loaded
<1>3. calls[c].pc = "install" /\ calls'[c].pc = "request"
  BY <1>1, CallForms DEF Install, At, Loaded, GoesTo
<1>4. HoldsSession(calls[c].op, calls[c].pc)
  BY <1>3 DEF HoldsSession, Loading
<1>5. \A a \in 1..Len(actors) : ~Serving(a)
  BY <1>3 DEF SafeInv, LoadedAlone
<1>6. ASSUME NEW d \in Callers, HoldsSession(calls'[d].op, calls'[d].pc), d # c
      PROVE  FALSE
  BY <1>2, <1>4, <1>6, OneHolder
<1>7. DeleteTakesHandle'
  <2> SUFFICES ASSUME NEW d \in Callers, calls'[d].op = "delete", calls'[d].pc \in Quitting \cup Erasing
               PROVE  FALSE
    BY <1>1 DEF DeleteTakesHandle, Deletes
  <2>1. HoldsSession(calls'[d].op, calls'[d].pc) /\ d # c
    BY <1>3 DEF HoldsSession, Quitting, Erasing
  <2> QED BY <1>6, <2>1
<1>8. ServingIsFound'
  <2>1. \A a \in 1..Len(actors') : Served(actors', a) => handle' = a
    BY <1>1, <1>5 DEF Served, Serving
  <2> QED BY <2>1 DEF ServingIsFound, Serving, Served
<1>9. LoadedAlone'
  <2> SUFFICES ASSUME NEW d \in Callers, calls'[d].pc \in {"load", "prepare", "install"} PROVE FALSE
    BY DEF LoadedAlone
  <2>1. HoldsSession(calls'[d].op, calls'[d].pc) /\ d # c
    BY <1>3 DEF HoldsSession, Loading
  <2> QED BY <1>6, <2>1
<1>10. DroppedIsOver'
  <2> SUFFICES ASSUME NEW d \in Callers, calls'[d].pc = "drop"
               PROVE  ~Served(actors', calls'[d].h)
    BY DEF DroppedIsOver, At, Serving, Served
  <2>1. d # c /\ calls'[d] = calls[d]
    BY <1>2, <1>3
  <2>2. calls[d].h \in 1..Len(actors)
    BY <1>1, <2>1, CallType, StepNames DEF None
  <2> QED BY <1>1, <1>5, <2>1, <2>2 DEF Served, Serving
<1> QED BY <1>7, <1>8, <1>9, <1>10 DEF SafeInv

LEMMA SafeMark ==
  ASSUME CallsType, RestType, CallsInv, SafeInv, NEW c \in Callers, Mark(c), ~deleting
  PROVE  SafeInv'
<1>1. /\ calls[c].pc = "mark" /\ deleting' = TRUE /\ handle' = None /\ actors' = actors
      /\ calls' = [calls EXCEPT ![c].h = handle, ![c].pc = IF Usable THEN "quit" ELSE "inspect"]
  BY DEF Mark, At
<1>2. \A d \in Callers \ {c} : calls'[d] = calls[d]
  BY <1>1, OthersStay
<1>3. /\ calls'[c].op = calls[c].op /\ calls'[c].h = handle
      /\ calls'[c].pc = IF Usable THEN "quit" ELSE "inspect"
  <2>1. PICK step \in {"quit", "inspect"} : step = IF Usable THEN "quit" ELSE "inspect"
    OBVIOUS
  <2>2. calls' = [calls EXCEPT ![c].h = handle, ![c].pc = step]
    BY <1>1, <2>1
  <2>0. calls \in [Callers -> Call(Len(actors))] /\ calls[c] \in Call(Len(actors))
    BY CallType DEF CallsType
  <2>3. GoesTo(c, step) /\ calls'[c].h = handle
    BY <2>0, <2>2 DEF GoesTo, Call
  <2> QED BY <2>1, <2>3 DEF GoesTo
<1>4. HoldsSession(calls[c].op, calls[c].pc) /\ calls[c].op = "delete"
  BY <1>1, Position DEF HoldsSession, Agrees
<1>5. DeleteTakesHandle'
  BY <1>1 DEF DeleteTakesHandle
<1>6. ServingIsFound'
  <2> SUFFICES ASSUME NEW a \in 1..Len(actors), Serving(a)
               PROVE  \E d \in Callers :
                        calls'[d].op = "delete" /\ calls'[d].pc \in Quitting /\ calls'[d].h = a
    BY <1>1 DEF ServingIsFound, Serving, Deletes
  <2>1. Usable /\ handle # None
    BY <1>1, <1>4, NoneServes
  <2>2. handle = a
    <3> SUFFICES ASSUME handle # a PROVE FALSE
      OBVIOUS
    <3>1. PICK d \in Callers : Deletes(d) /\ calls[d].pc \in Quitting
      BY DEF SafeInv, ServingIsFound
    <3>2. HoldsSession(calls[d].op, calls[d].pc) /\ d # c
      BY <1>1, <3>1 DEF HoldsSession, Deletes, Quitting
    <3> QED BY <1>4, <3>2, OneHolder
  <2> QED BY <1>3, <1>4, <2>1, <2>2 DEF Quitting
<1>7. LoadedAlone'
  <2>1. calls'[c].pc \notin {"load", "prepare", "install"}
    BY <1>3
  <2> QED BY <1>1, <1>2, <2>1 DEF SafeInv, LoadedAlone, Serving
<1>8. DroppedIsOver'
  <2>1. calls'[c].pc # "drop"
    BY <1>3
  <2> QED BY <1>1, <1>2, <2>1 DEF SafeInv, DroppedIsOver, Serving, At
<1> QED BY <1>5, <1>6, <1>7, <1>8 DEF SafeInv

LEMMA SafeDrop ==
  ASSUME CallsType, RestType, CallsInv, SafeInv, NEW c \in Callers, Drop(c)
  PROVE  SafeInv'
<1>1. /\ calls[c].pc = "drop" /\ deleting' = deleting /\ actors' = actors
      /\ handle' = IF handle = calls[c].h THEN None ELSE handle
      /\ Return(c) \/ Goto(c, "archive")
  BY DEF Drop, Dropped, At
<1>2. \A d \in Callers \ {c} : calls'[d] = calls[d]
  BY <1>1, OthersStay
<1>3. calls'[c].pc \in {"idle", "archive"}
  <2>1. calls'[c] = NoCall \/ GoesTo(c, "archive")
    BY <1>1, CallForms
  <2> QED BY <2>1 DEF GoesTo, NoCall
<1>4. ~Serving(calls[c].h)
  BY <1>1 DEF SafeInv, DroppedIsOver, At
<1>5. DeleteTakesHandle'
  <2>1. calls'[c].pc \notin Quitting \cup Erasing
    BY <1>3 DEF Quitting, Erasing
  <2> QED BY <1>1, <1>2, <2>1 DEF SafeInv, DeleteTakesHandle, Deletes
<1>6. ServingIsFound'
  <2> SUFFICES ASSUME NEW a \in 1..Len(actors), Serving(a)
               PROVE  handle' = a \/ \E d \in Callers :
                        calls'[d].op = "delete" /\ calls'[d].pc \in Quitting /\ calls'[d].h = a
    BY <1>1 DEF ServingIsFound, Serving, Deletes
  <2>1. CASE handle = a
    BY <1>1, <1>4, <2>1
  <2>2. ASSUME NEW d \in Callers, Deletes(d), calls[d].pc \in Quitting, calls[d].h = a
        PROVE  d # c
    BY <1>1, <2>2 DEF Quitting
  <2> QED BY <1>2, <2>1, <2>2 DEF SafeInv, ServingIsFound, Deletes
<1>7. LoadedAlone'
  BY <1>1, <1>2, <1>3 DEF SafeInv, LoadedAlone, Serving
<1>8. DroppedIsOver'
  BY <1>1, <1>2, <1>3 DEF SafeInv, DroppedIsOver, Serving, At
<1> QED BY <1>5, <1>6, <1>7, <1>8 DEF SafeInv

(* Which steps touch the handle or the mark of a delete.                     *)
LEMMA RegistryStays ==
  ASSUME NEW c \in Callers, Step(c), ~(Install(c) /\ ~(deleting \/ Usable)), ~(Mark(c) /\ ~deleting),
         ~Drop(c), ~Quit(c), ~Unmark(c)
  PROVE  UNCHANGED registry
<1>1. CASE Load(c)
  BY <1>1 DEF Load, Look, LookAgain, LookUp, LoadRecord, Prepare, Install
<1>2. CASE Request(c) \/ Rebind(c)
  BY <1>2 DEF Request, Snapshot, RequestFails, Change, Steer, ArchiveIdle, Rebind, Bind, Reread, Rewrite
<1>3. CASE Delete(c) \/ List(c)
  BY <1>3 DEF Delete, Mark, Inspect, Erase, List, Scan, Gather, ReadTranscript, Retitle, Status
<1>4. CASE AcquireMutation(c) \/ AcquireSession(c) \/ Check(c) \/ Find(c) \/ Archive(c)
           \/ Unarchive(c) \/ RepositoryFails(c)
  BY <1>4 DEF AcquireMutation, AcquireSession, Check, Find, Archive, Unarchive, Move, RepositoryFails
<1> QED BY <1>1, <1>2, <1>3, <1>4 DEF Step

LEMMA QuitSteps == ASSUME NEW c \in Callers, Step(c), ~Quit(c) PROVE calls[c].pc # "quit"
<1> USE DEF At
<1>1. CASE Load(c)
  BY <1>1 DEF Load, Look, LookAgain, LoadRecord, Prepare, Install
<1>2. CASE Request(c) \/ Rebind(c)
  BY <1>2 DEF Request, Snapshot, RequestFails, Change, Steer, ArchiveIdle, Asks, Rebind, Bind, Reread, Rewrite
<1>3. CASE Delete(c) \/ List(c)
  BY <1>3 DEF Delete, Mark, Inspect, Erase, Unmark, List, Scan, Gather, ReadTranscript, Retitle, Status
<1>4. CASE AcquireMutation(c) \/ AcquireSession(c) \/ Check(c) \/ Find(c) \/ Drop(c) \/ Archive(c)
           \/ Unarchive(c) \/ RepositoryFails(c)
  BY <1>4 DEF AcquireMutation, AcquireSession, Check, Find, Drop, Archive, Unarchive, Move, RepositoryFails
<1> QED BY <1>1, <1>2, <1>3, <1>4 DEF Step

LEMMA SafeStep ==
  ASSUME CallsType, RestType, CallsInv, SafeInv, ~RefusedDelete, NEW c \in Callers, Step(c)
  PROVE  SafeInv'
<1>0. Len(actors) \in Nat /\ StepsAgree
  BY ActorTypes DEF CallsInv
<1>1. \A d \in Callers \ {c} : calls'[d] = calls[d]
  BY StepsMoveOne
<1>n. NoCall.op = "none" /\ NoCall.pc = "idle"
  BY DEF NoCall
<1>m. Moves(c) /\ calls[c].pc # "await" /\ Agrees(calls[c].op, calls[c].pc)
  BY StepMoves, Position
<1>2. CASE Install(c) /\ ~(deleting \/ Usable)
  BY <1>2, SafeInstall
<1>3. CASE Mark(c) /\ ~deleting
  BY <1>3, SafeMark
<1>4. CASE Drop(c)
  BY <1>4, SafeDrop
<1>5. CASE QuitIdle(c)
  <2>1. /\ calls[c].h \in 1..Len(actors) /\ calls[c].pc = "quit" /\ Stops(calls[c].h, c)
    BY <1>0, <1>5, CallType, StepNames DEF QuitIdle, At, None
  <2>2. calls'[c] = NoCall \/ (GoesTo(c, AfterQuit(c)) /\ calls'[c].h = calls[c].h)
    BY <2>1, CallForms DEF Stops, QuitFails
  <2>3. calls'[c].pc # "await"
    BY <1>n, <2>2 DEF GoesTo, AfterQuit
  <2> QED BY <1>1, <2>1, <2>2, <2>3, SafeStops DEF Quitting
<1>6. CASE QuitBusy(c)
  <2>1. /\ calls[c].h \in 1..Len(actors) /\ actors[calls[c].h].state = "live"
        /\ calls[c].pc = "quit" /\ GoesTo(c, "await") /\ calls'[c].h = calls[c].h
        /\ Len(actors') = Len(actors)
        /\ \A b \in 1..Len(actors) : b # calls[c].h => actors'[b] = actors[b]
        /\ handle' = handle /\ deleting' = deleting
    BY <1>6, QuitBusyActors DEF At, registry
  <2>2. ServesFewer
    BY <2>1 DEF ServesFewer, Served, Serving
  <2>3. \A d \in Callers : calls'[d].op = "delete" /\ calls'[d].pc \in Quitting \cup Erasing => deleting'
    BY <1>1, <2>1 DEF SafeInv, DeleteTakesHandle, Deletes, GoesTo, Quitting
  <2> QED BY <1>1, <2>1, <2>2, <2>3, SafetyKept DEF GoesTo, Quitting, Deletes
<1>7. CASE QuitRefused(c) \/ Unmark(c)
  <2>1. /\ actors' = actors /\ handle' = handle
        /\ deleting' => deleting
        /\ calls'[c] = NoCall
        /\ calls[c].op # "delete" => deleting' = deleting
    <3>1. CASE QuitRefused(c)
      <4>1. /\ actors' = actors /\ handle' = handle /\ Return(c)
            /\ deleting' = (deleting /\ calls[c].op # "delete")
        BY <3>1 DEF QuitRefused, QuitFails
      <4> QED BY <4>1, CallForms DEF RestType
    <3>2. CASE Unmark(c)
      <4>1. actors' = actors /\ handle' = handle /\ deleting' = FALSE /\ Return(c) /\ calls[c].pc = "unmark"
        BY <3>2 DEF Unmark, At
      <4> QED BY <1>m, <4>1, CallForms DEF Agrees, Erasing
    <3> QED BY <1>7, <3>1, <3>2
  <2>2. calls[c].op = "delete" => HoldsSession(calls[c].op, calls[c].pc)
    BY <1>7 DEF QuitRefused, Unmark, At, HoldsSession, Quitting, Erasing
  <2>3. ASSUME NEW d \in Callers, calls'[d].op = "delete", calls'[d].pc \in Quitting \cup Erasing
        PROVE  deleting'
    <3>1. d # c /\ calls'[d] = calls[d]
      BY <1>1, <1>n, <2>1, <2>3
    <3>2. deleting /\ HoldsSession(calls[d].op, calls[d].pc)
      BY <2>3, <3>1 DEF SafeInv, DeleteTakesHandle, Deletes, HoldsSession
    <3> QED BY <2>1, <2>2, <3>1, <3>2, OneHolder
  <2>4. Deletes(c) /\ calls[c].pc \in Quitting => ~Served(actors', calls[c].h)
    <3> SUFFICES ASSUME Deletes(c), calls[c].pc \in Quitting PROVE ~Served(actors', calls[c].h)
      OBVIOUS
    <3>1. QuitRefused(c)
      BY <1>7 DEF Unmark, At, Quitting
    <3>2. actors[calls[c].h].state = "gone"
      BY <3>1 DEF QuitRefused, RefusedDelete
    <3> QED BY <2>1, <3>2 DEF Served
  <2>5. ServesFewer
    BY <2>1, ServesSame
  <2>6. calls'[c].pc = "idle"
    BY <1>n, <2>1
  <2> QED BY <1>1, <2>1, <2>3, <2>4, <2>5, <2>6, SafetyKept
<1>8. CASE ~(Install(c) /\ ~(deleting \/ Usable)) /\ ~(Mark(c) /\ ~deleting) /\ ~Drop(c) /\ ~Quit(c) /\ ~Unmark(c)
  <2>1. handle' = handle /\ deleting' = deleting
    BY <1>8, RegistryStays DEF registry
  <2>2. ServesFewer
    <3>1. CASE Change(c)
      <4>1. /\ calls[c].h \in 1..Len(actors) /\ actors[calls[c].h].state = "live"
            /\ Len(actors') = Len(actors)
            /\ \A b \in 1..Len(actors) : b # calls[c].h => actors'[b] = actors[b]
        BY <1>0, <3>1, ChangeActors
      <4> QED BY <4>1 DEF ServesFewer, Served, Serving
    <3>2. CASE ~Change(c)
      BY <1>8, <3>2, ActorsStay, ServesSame DEF Quit
    <3> QED BY <3>1, <3>2
  <2>a. ~Quit(c) /\ ~QuitIdle(c) /\ ~QuitBusy(c)
    BY <1>8 DEF Quit
  <2>b. calls[c].pc # "quit"
    BY <2>a, QuitSteps
  <2>3. ASSUME NEW d \in Callers, calls'[d].op = "delete", calls'[d].pc \in Quitting \cup Erasing
        PROVE  deleting'
    <3>1. CASE d = c
      <4>1. calls[c].op = "delete" /\ calls[c].pc \in Quitting \cup Erasing
        BY <1>8, <1>m, <1>n, <2>a, <2>3, <3>1
           DEF Moves, MovesAlone, MovesWithHandle, MovesWithRecord, Moved, GoesTo, Quitting, Erasing, Agrees, AfterQuit
      <4> QED BY <2>1, <4>1 DEF SafeInv, DeleteTakesHandle, Deletes
    <3>2. CASE d # c
      BY <1>1, <2>1, <2>3, <3>2 DEF SafeInv, DeleteTakesHandle, Deletes
    <3> QED BY <3>1, <3>2
  <2>4. ASSUME calls'[c].pc \in {"load", "prepare", "install"}
        PROVE  \A a \in 1..Len(actors) : ~Serving(a)
    <3>1. calls[c].pc \in {"load", "prepare", "install"} \/ (calls[c].pc = "relook" /\ ~Usable)
      BY <1>m, <1>n, <2>4
         DEF Moves, MovesAlone, MovesWithHandle, MovesWithRecord, Moved, GoesTo, AfterQuit
    <3>2. CASE calls[c].pc = "relook" /\ ~Usable
      BY <3>2, NoneServes DEF HoldsSession, Loading
    <3> QED BY <3>1, <3>2 DEF SafeInv, LoadedAlone
  <2>5. ASSUME calls'[c].pc = "drop"
        PROVE  ~Served(actors', calls'[c].h)
    <3>1. /\ calls'[c].h = handle /\ Terminated(handle) /\ handle # None /\ calls[c].pc = "find"
      BY <1>m, <1>n, <2>a, <2>5
         DEF Moves, MovesAlone, MovesWithHandle, MovesWithRecord, Moved, GoesTo, AfterQuit, WithHandle
    <3>2. handle \in 1..Len(actors) /\ ~Serving(handle)
      BY <3>1, HandleUsable DEF Terminated, Serving
    <3> QED BY <2>2, <3>1, <3>2 DEF ServesFewer
  <2>6. ~(Deletes(c) /\ calls[c].pc \in Quitting)
    BY <1>m, <2>b DEF Quitting
  <2> QED BY <1>1, <2>1, <2>2, <2>3, <2>4, <2>5, <2>6, SafetyKept
<1> QED BY <1>2, <1>3, <1>4, <1>5, <1>6, <1>7, <1>8 DEF Quit

LEMMA SafeActor ==
  ASSUME CallsType, RestType, CallsInv, ClosersWait, SafeInv, NEW a \in 1..Len(actors), Actor(a)
  PROVE  SafeInv'
<1>1. CASE Closes(a)
  <2> DEFINE c == actors[a].closer
  <2>1. /\ c \in Callers /\ calls[c].pc = "await" /\ calls[c].h = a /\ Stops(a, c)
        /\ \A d \in Callers \ {c} : calls'[d] = calls[d]
        /\ calls'[c] = NoCall \/ (GoesTo(c, AfterQuit(c)) /\ calls'[c].h = a)
    BY <1>1, ClosesActors DEF At
  <2> HIDE DEF c
  <2>2. calls'[c].pc # "await"
    BY <2>1 DEF GoesTo, AfterQuit, NoCall
  <2> QED BY <2>1, <2>2, SafeStops DEF Quitting
<1>2. CASE TurnSaves(a) \/ TurnEnds(a) \/ Terminates(a)
  <2>1. /\ UNCHANGED <<handle, deleting, calls>> /\ Len(actors') = Len(actors)
        /\ \A b \in 1..Len(actors) : Served(actors', b) <=> Serving(b)
    <3>1. CASE TurnSaves(a)
      BY <3>1 DEF TurnSaves, registry, Served, Serving
    <3>2. CASE TurnEnds(a)
      BY <3>2, TurnEndsActors DEF registry, Served, Serving
    <3>3. CASE Terminates(a)
      BY <3>3, TerminatesActors DEF registry, Served, Serving
    <3> QED BY <1>2, <3>1, <3>2, <3>3
  <2>2. DeleteTakesHandle' /\ ServingIsFound' /\ LoadedAlone'
    BY <2>1 DEF SafeInv, DeleteTakesHandle, ServingIsFound, LoadedAlone, Deletes, Served, Serving
  <2>3. DroppedIsOver'
    <3> SUFFICES ASSUME NEW d \in Callers, calls[d].pc = "drop" PROVE ~Served(actors', calls[d].h)
      BY <2>1 DEF DroppedIsOver, At, Serving, Served
    <3>1. calls[d].h \in 1..Len(actors)
      BY CallType, StepNames, ActorTypes DEF None
    <3> QED BY <2>1, <3>1 DEF SafeInv, DroppedIsOver, At
  <2> QED BY <2>2, <2>3 DEF SafeInv
<1> QED BY <1>1, <1>2 DEF Actor

LEMMA SafeBegin ==
  ASSUME CallsType, RestType, CallsInv, SafeInv, NEW c \in Callers, NEW op \in Ops, Begin(c, op)
  PROVE  SafeInv'
<1>1. /\ calls[c].pc = "idle" /\ calls'[c].pc \in {"mlock", "look", "find", "scan"}
      /\ \A d \in Callers \ {c} : calls'[d] = calls[d]
      /\ handle' = handle /\ deleting' = deleting /\ actors' = actors
  BY BeginMoves DEF registry
<1>2. \A d \in Callers : calls'[d].op = "delete" /\ calls'[d].pc \in Quitting \cup Erasing => deleting'
  BY <1>1 DEF SafeInv, DeleteTakesHandle, Deletes, Quitting, Erasing
<1> QED BY <1>1, <1>2, ServesSame, SafetyKept DEF Quitting

LEMMA ServiceInit == Init => ServiceInv
<1> SUFFICES ASSUME Init PROVE ServiceInv
  OBVIOUS
<1>1. BaseInv
  BY BaseInit
<1>2. Len(actors) = 0 /\ ~deleting /\ \A c \in Callers : calls[c].pc = "idle"
  BY DEF Init, NoCall
<1>3. SafeInv
  BY <1>2 DEF SafeInv, DeleteTakesHandle, ServingIsFound, LoadedAlone, DroppedIsOver, At, Quitting, Erasing
<1> QED BY <1>1, <1>3 DEF ServiceInv

LEMMA ServiceNext == ServiceInv /\ ~RefusedDelete /\ [Next]_vars => ServiceInv'
<1> SUFFICES ASSUME ServiceInv, ~RefusedDelete, [Next]_vars PROVE ServiceInv'
  OBVIOUS
<1>0. BaseInv /\ SafeInv /\ CallsType /\ RestType /\ CallsInv /\ ClosersWait
  BY TypeSplit DEF ServiceInv, BaseInv
<1>1. BaseInv'
  BY <1>0, BaseNext
<1>2. SafeInv'
  <2>1. ASSUME NEW c \in Callers, Step(c) PROVE SafeInv'
    BY <1>0, <2>1, SafeStep
  <2>2. ASSUME NEW c \in Callers, NEW op \in Ops, Begin(c, op) PROVE SafeInv'
    BY <1>0, <2>2, SafeBegin
  <2>3. ASSUME NEW a \in 1..Len(actors), Actor(a) PROVE SafeInv'
    BY <1>0, <2>3, SafeActor
  <2>4. CASE UNCHANGED vars
    BY <1>0, <2>4 DEF vars, SafeInv, DeleteTakesHandle, ServingIsFound, LoadedAlone, DroppedIsOver,
       Deletes, At, Serving
  <2> QED BY <2>1, <2>2, <2>3, <2>4 DEF Next
<1> QED BY <1>1, <1>2 DEF ServiceInv

LEMMA OneServes ==
  ASSUME ServiceInv, NEW a \in 1..Len(actors), NEW b \in 1..Len(actors), Serving(a), Serving(b)
  PROVE  a = b
<1>0. CallsInv /\ SafeInv /\ RestType
  BY TypeSplit DEF ServiceInv, BaseInv
<1>1. ASSUME NEW x \in 1..Len(actors), Serving(x), handle # x
      PROVE  \E c \in Callers : Deletes(c) /\ calls[c].pc \in Quitting /\ calls[c].h = x
  BY <1>0, <1>1 DEF SafeInv, ServingIsFound
<1>2. ASSUME NEW x \in 1..Len(actors), handle = x, NEW c \in Callers, Deletes(c), calls[c].pc \in Quitting
      PROVE  FALSE
  BY <1>0, <1>2 DEF SafeInv, DeleteTakesHandle, None
<1>3. ASSUME NEW c \in Callers, Deletes(c), calls[c].pc \in Quitting,
             NEW d \in Callers, Deletes(d), calls[d].pc \in Quitting
      PROVE  c = d
  <2>1. HoldsSession(calls[c].op, calls[c].pc) /\ HoldsSession(calls[d].op, calls[d].pc)
    BY <1>3 DEF HoldsSession, Deletes
  <2> QED BY <1>0, <2>1, OneHolder
<1> QED BY <1>1, <1>2, <1>3

(* While an actor serves, no other does and none is loaded.                  *)
LEMMA ServesAlone ==
  ASSUME ServiceInv, NEW a \in 1..Len(actors), Serving(a)
  PROVE  /\ \A b \in 1..Len(actors) : Serving(b) => b = a
         /\ \A c \in Callers : calls[c].pc \notin {"load", "prepare", "install"}
BY OneServes DEF ServiceInv, SafeInv, LoadedAlone

(* Of the loads one at a time has the lock.                                  *)
LEMMA LoadsAlone ==
  ASSUME CallsInv, NEW c \in Callers, calls[c].pc \in {"load", "prepare", "install"} \cup Erasing,
         NEW d \in Callers \ {c}
  PROVE  calls[d].pc \notin {"load", "prepare", "install"}
<1> SUFFICES ASSUME calls[d].pc \in {"load", "prepare", "install"} PROVE FALSE
  OBVIOUS
<1>1. HoldsSession(calls[c].op, calls[c].pc) /\ HoldsSession(calls[d].op, calls[d].pc)
  BY DEF HoldsSession, Loading
<1> QED BY <1>1, OneHolder

-----------------------------------------------------------------------------
(* Only what is in Ops is called.                                            *)

LEMMA OpsStay ==
  ASSUME CallsType, OnlyOps, NEW c \in Callers,
         \A d \in Callers \ {c} : calls'[d] = calls[d],
         calls'[c].op \in {"none", calls[c].op} \cup Ops
  PROVE  OnlyOps'
BY DEF OnlyOps

LEMMA MovesKeepOp == ASSUME NEW c, Moves(c) PROVE calls'[c].op \in {"none", calls[c].op}
<1>1. NoCall.op = "none"
  BY DEF NoCall
<1> QED BY <1>1 DEF Moves, MovesAlone, MovesWithHandle, MovesWithRecord, Moved, GoesTo

LEMMA OpsNext == ASSUME BaseInv, OnlyOps, [Next]_vars PROVE OnlyOps'
<1>0. CallsType /\ RestType /\ CallsInv /\ ClosersWait
  BY TypeSplit DEF BaseInv
<1>1. ASSUME NEW c \in Callers, Step(c) PROVE OnlyOps'
  <2>1. \A d \in Callers \ {c} : calls'[d] = calls[d]
    BY <1>0, <1>1, StepsMoveOne
  <2>2. calls'[c].op \in {"none", calls[c].op}
    BY <1>0, <1>1, StepMoves, MovesKeepOp
  <2> QED BY <1>0, <2>1, <2>2, OpsStay
<1>2. ASSUME NEW c \in Callers, NEW op \in Ops, Begin(c, op) PROVE OnlyOps'
  BY <1>0, <1>2, BeginMoves, OpsStay
<1>3. ASSUME NEW a \in 1..Len(actors), Actor(a) PROVE OnlyOps'
  <2>1. CASE Closes(a)
    <3> DEFINE c == actors[a].closer
    <3>1. c \in Callers /\ \A d \in Callers \ {c} : calls'[d] = calls[d]
      BY <1>0, <2>1, ClosesActors
    <3>2. calls'[c] = NoCall \/ GoesTo(c, AfterQuit(c))
      BY <1>0, <2>1, ClosesActors
    <3> HIDE DEF c
    <3>3. calls'[c].op \in {"none", calls[c].op}
      BY <3>2 DEF GoesTo, NoCall
    <3> QED BY <1>0, <3>1, <3>3, OpsStay
  <2>2. CASE TurnSaves(a) \/ TurnEnds(a) \/ Terminates(a)
    BY <2>2 DEF TurnSaves, TurnEnds, Terminates, OnlyOps
  <2> QED BY <1>3, <2>1, <2>2 DEF Actor
<1>4. CASE UNCHANGED vars
  BY <1>4 DEF vars, OnlyOps
<1> QED BY <1>1, <1>2, <1>3, <1>4 DEF Next

(* A delete holds the mutation lock, so that it can only be refused by an    *)
(* actor that closes for an unload.                                          *)
Exclusive == ~({"unload", "delete"} \subseteq Ops)

LEMMA NoRefusal == ASSUME Exclusive, BaseInv, OnlyOps PROVE ~RefusedDelete
<1> SUFFICES ASSUME NEW c \in Callers, Deletes(c), At(c, "quit"), actors[calls[c].h].state = "closing"
             PROVE  FALSE
  BY DEF RefusedDelete
<1>0. CallsType /\ RestType /\ CallsInv /\ ClosersWait
  BY TypeSplit DEF BaseInv
<1>1. calls[c].h \in 1..Len(actors)
  BY <1>0, CallType, StepNames, ActorTypes DEF At, None
<1>2. PICK d \in Callers : calls[d].pc = "await" /\ d # c
  BY <1>0, <1>1 DEF ClosersWait, At
<1>3. calls[d].op \in {"unload", "archive", "delete"} /\ calls[d].op \in Ops /\ calls[c].op \in Ops
  BY <1>0, <1>2, Position DEF Agrees, Quitting, OnlyOps, Deletes
<1>4. calls[d].op = "unload"
  <2> SUFFICES ASSUME calls[d].op # "unload" PROVE FALSE
    OBVIOUS
  <2>1. HoldsMutation(calls[c].op, calls[c].pc) /\ HoldsMutation(calls[d].op, calls[d].pc)
    BY <1>2, <1>3 DEF HoldsMutation, Mutating, Deletes, At
  <2> QED BY <1>0, <1>2, <2>1, OneChanger
<1> QED BY <1>3, <1>4 DEF Exclusive, Deletes

LEMMA LoadInit == Init => LoadInv
BY ServiceInit DEF Init, OnlyOps, NoCall, LoadInv

LEMMA LoadNext == ASSUME Exclusive PROVE LoadInv /\ [Next]_vars => LoadInv'
BY NoRefusal, ServiceNext, OpsNext DEF LoadInv, ServiceInv

(* One actor at a time, unless a delete meets an actor that closes: it then  *)
(* gives its mark back, and the next load does not find that actor.          *)
THEOREM OneActor == Spec /\ []~RefusedDelete => []AtMostOneActor
<1>1. ServiceInv => AtMostOneActor
  BY OneServes DEF AtMostOneActor
<1> QED BY <1>1, ServiceInit, ServiceNext, PTL DEF Spec

-----------------------------------------------------------------------------
(* What the steps write.                                                     *)

LEMMA DiskStays ==
  ASSUME NEW c \in Callers, Step(c), ~Prepare(c), ~Change(c), ~Rewrite(c), ~QuitIdle(c),
         ~Archive(c), ~Unarchive(c), ~Erase(c), ~Retitle(c)
  PROVE  UNCHANGED <<disk, acked, erased>>
<1> USE DEF history
<1>1. CASE Load(c)
  BY <1>1 DEF Load, Look, LookAgain, LookUp, LoadRecord, Install
<1>2. CASE Request(c) \/ Rebind(c)
  BY <1>2 DEF Request, Snapshot, RequestFails, Steer, ArchiveIdle, Rebind, Bind, Reread
<1>3. CASE Quit(c) \/ Delete(c) \/ List(c)
  BY <1>3 DEF Quit, QuitBusy, QuitRefused, Delete, Mark, Inspect, Unmark, List, Scan, Gather, ReadTranscript, Status
<1>4. CASE AcquireMutation(c) \/ AcquireSession(c) \/ Check(c) \/ Find(c) \/ Drop(c) \/ RepositoryFails(c)
  BY <1>4 DEF AcquireMutation, AcquireSession, Check, Find, Drop, RepositoryFails
<1> QED BY <1>1, <1>2, <1>3, <1>4 DEF Step

LEMMA RecordKept ==
  ASSUME CallsType, RestType, NEW c \in Callers, NEW rec \in Record
  PROVE  /\ WithTitle(rec) \in Record /\ WithTitle(rec).notes = rec.notes /\ WithTitle(rec).titled
         /\ Noted(rec, c).notes = rec.notes \cup {calls[c].id} /\ Noted(rec, c).titled = rec.titled
         /\ Saved(rec).rec = rec
         /\ Saved(rec).where = (IF disk.where = "none" THEN "active" ELSE disk.where)
         /\ disk.rec \in Record
BY DEF RestType, Stored, WithTitle, Noted, Saved, Record

(* The actors serve on or stop, with the record they have.                   *)
RecordsStay ==
  /\ ServesFewer
  /\ \A a \in 1..Len(actors) : actors'[a].rec = actors[a].rec

(* Except for a new actor and a change, which the steps of the calls and of  *)
(* the actors do not write but in the following ways.                        *)
SavesActor == \E a \in 1..Len(actors) : Serving(a) /\ disk' = Saved(actors[a].rec)
SavesCall(c) ==
  \/ Prepare(c) /\ disk' = Saved(WithTitle(calls[c].rec))
  \/ Rewrite(c) /\ disk' = Saved(calls[c].rec)
  \/ Retitle(c) /\ disk' = Saved(WithTitle(calls[c].rec))
MovesSession(c) ==
  /\ disk'.rec = disk.rec
  /\ \/ Archive(c) /\ disk'.where = IF disk.where = "active" THEN "archived" ELSE disk.where
     \/ Unarchive(c) /\ disk'.where = IF disk.where = "archived" THEN "active" ELSE disk.where
     \/ Erase(c) /\ disk'.where = "none"

LEMMA StepWrites ==
  ASSUME CallsType, RestType, StepsAgree, NEW c \in Callers, Step(c),
         ~(Install(c) /\ ~(deleting \/ Usable)), ~Change(c)
  PROVE  /\ RecordsStay /\ acked' = acked
         /\ erased' = erased \/ (Erase(c) /\ erased' = TRUE /\ disk'.where = "none")
         /\ disk' = disk \/ SavesActor \/ SavesCall(c) \/ MovesSession(c)
<1>0. Len(actors) \in Nat /\ disk \in Stored
  BY ActorTypes DEF RestType
<1>1. RecordsStay
  <2>1. CASE QuitIdle(c)
    <3>1. calls[c].h \in 1..Len(actors) /\ Stops(calls[c].h, c)
      BY <1>0, <2>1, CallType, StepNames DEF QuitIdle, At, None
    <3> QED BY <3>1, StopsActors DEF RecordsStay, ServesFewer, Served, Serving
  <2>2. CASE QuitBusy(c)
    BY <2>2, QuitBusyActors DEF RecordsStay, ServesFewer, Served, Serving
  <2>3. CASE ~QuitIdle(c) /\ ~QuitBusy(c)
    BY <2>3, ActorsStay DEF RecordsStay, ServesFewer, Served, Serving
  <2> QED BY <2>1, <2>2, <2>3
<1>2. CASE Prepare(c)
  <2>1. disk' = disk \/ disk' = Saved(WithTitle(calls[c].rec))
    BY <1>2 DEF Prepare, WithTitle
  <2> QED BY <1>1, <1>2, <2>1 DEF Prepare, SavesCall, history
<1>3. CASE Rewrite(c)
  BY <1>1, <1>3 DEF Rewrite, SavesCall, history
<1>4. CASE QuitIdle(c)
  <2>1. calls[c].h \in 1..Len(actors) /\ Stops(calls[c].h, c) /\ Serving(calls[c].h)
    BY <1>0, <1>4, CallType, StepNames DEF QuitIdle, At, None, Serving
  <2> QED BY <1>1, <2>1, StopsActors DEF SavesActor
<1>5. CASE Archive(c) \/ Unarchive(c)
  <2>1. \/ Archive(c) /\ disk' = [disk EXCEPT !.where = IF @ = "active" THEN "archived" ELSE @]
        \/ Unarchive(c) /\ disk' = [disk EXCEPT !.where = IF @ = "archived" THEN "active" ELSE @]
    BY <1>5 DEF Archive, Unarchive, Move
  <2>2. UNCHANGED <<acked, erased>>
    BY <1>5 DEF Archive, Unarchive, Move, history
  <2> QED BY <1>0, <1>1, <2>1, <2>2 DEF MovesSession, Stored
<1>6. CASE Erase(c)
  <2>1. \/ disk' = [disk EXCEPT !.where = "none"] /\ erased' = TRUE
        \/ disk' = disk /\ erased' = erased
    BY <1>6 DEF Erase
  <2>2. acked' = acked
    BY <1>6 DEF Erase
  <2> QED BY <1>0, <1>1, <1>6, <2>1, <2>2 DEF MovesSession, Stored
<1>7. CASE Retitle(c)
  <2>1. disk' = Saved(WithTitle(calls[c].rec))
    BY <1>7 DEF Retitle, WithTitle
  <2> QED BY <1>1, <1>7, <2>1 DEF Retitle, SavesCall, history
<1>8. CASE /\ ~Prepare(c) /\ ~Rewrite(c) /\ ~QuitIdle(c) /\ ~Archive(c) /\ ~Unarchive(c)
           /\ ~Erase(c) /\ ~Retitle(c)
  BY <1>1, <1>8, DiskStays
<1> QED BY <1>2, <1>3, <1>4, <1>5, <1>6, <1>7, <1>8

LEMMA ActorWrites ==
  ASSUME CallsType, RestType, ClosersWait, NEW a \in 1..Len(actors), Actor(a)
  PROVE  /\ RecordsStay /\ acked' = acked /\ erased' = erased
         /\ disk' = disk \/ SavesActor
         /\ \A c \in Callers : \/ calls'[c] = calls[c] \/ calls'[c] = NoCall
                               \/ calls[c].pc = "await" /\ GoesTo(c, AfterQuit(c)) /\ calls'[c].rec = calls[c].rec
<1>1. CASE TurnSaves(a)
  <2>1. Serving(a) /\ actors' = actors /\ disk' = Saved(actors[a].rec) /\ UNCHANGED <<calls, acked, erased>>
    BY <1>1 DEF TurnSaves, Runs, Serving, history
  <2> QED BY <2>1 DEF RecordsStay, ServesFewer, Served, Serving, SavesActor
<1>2. CASE TurnEnds(a)
  <2>1. RecordsStay /\ UNCHANGED <<calls, acked, erased>>
    BY <1>2, TurnEndsActors DEF RecordsStay, ServesFewer, Served, Serving
  <2>2. Serving(a) /\ (disk' = Saved(actors[a].rec) \/ disk' = disk)
    BY <1>2, TurnEndsActors DEF Serving
  <2> QED BY <2>1, <2>2 DEF SavesActor
<1>3. CASE Terminates(a)
  <2>1. RecordsStay
    BY <1>3, TerminatesActors DEF RecordsStay, ServesFewer, Served, Serving
  <2> QED BY <1>3, <2>1 DEF Terminates, history
<1>4. CASE Closes(a)
  <2> DEFINE c == actors[a].closer
  <2>1. /\ c \in Callers /\ calls[c].pc = "await" /\ Stops(a, c) /\ Serving(a)
        /\ \A d \in Callers \ {c} : calls'[d] = calls[d]
        /\ calls'[c] = NoCall \/ (GoesTo(c, AfterQuit(c)) /\ calls'[c].rec = calls[c].rec)
    BY <1>4, ClosesActors DEF At, Serving
  <2> HIDE DEF c
  <2>2. RecordsStay
    BY <2>1, StopsActors DEF RecordsStay, ServesFewer, Served, Serving
  <2>3. (disk' = disk \/ disk' = Saved(actors[a].rec)) /\ acked' = acked /\ erased' = erased
    BY <2>1, StopsActors
  <2> QED BY <2>1, <2>2, <2>3 DEF SavesActor
<1> QED BY <1>1, <1>2, <1>3, <1>4 DEF Actor

LEMMA ChangeWrites ==
  ASSUME CallsType, RestType, StepsAgree, NEW c \in Callers, Change(c)
  PROVE  LET a == calls[c].h IN
         /\ a \in 1..Len(actors) /\ Serving(a) /\ ~actors[a].turn /\ Len(actors') = Len(actors)
         /\ \A b \in 1..Len(actors) : b # a => actors'[b] = actors[b]
         /\ Served(actors', a)
         /\ actors'[a].turn => calls[c].op = "prompt"
         /\ actors[a].rec.notes \subseteq actors'[a].rec.notes
         /\ actors'[a].rec.titled = actors[a].rec.titled
         /\ \/ disk' = Saved(actors'[a].rec)
            \/ disk' = disk /\ acked' = acked
         /\ acked' \subseteq acked \cup {calls[c].id}
         /\ acked' = acked \/ calls[c].id \in actors'[a].rec.notes
         /\ calls[c].op \in {"prompt", "rebind"} /\ calls[c].pc = "request"
         /\ calls'[c] = NoCall /\ \A d \in Callers \ {c} : calls'[d] = calls[d]
         /\ handle' = handle /\ erased' = erased
         /\ actors'[a].rec \in Record
<1> DEFINE a == calls[c].h
           rec == Noted(actors[a].rec, c)
<1>1. /\ a \in 1..Len(actors) /\ actors[a].state = "live" /\ ~actors[a].turn
      /\ calls[c].op \in {"prompt", "rebind"} /\ At(c, "request")
      /\ Len(actors') = Len(actors)
      /\ \A b \in 1..Len(actors) : b # a => actors'[b] = actors[b]
      /\ actors'[a].state = "live"
      /\ actors'[a].turn => calls[c].op = "prompt"
      /\ \/ disk' = Saved(rec) /\ actors'[a].rec = rec /\ acked' \in {acked, acked \cup {calls[c].id}}
         \/ disk' = disk /\ actors'[a].rec \in {rec, actors[a].rec} /\ acked' = acked
      /\ Return(c) /\ UNCHANGED <<registry, erased>>
  BY ChangeActors
<1>2. actors[a].rec \in Record /\ calls[c].op # "none"
  BY <1>1, ActorTypes
<1>3. rec.notes = actors[a].rec.notes \cup {calls[c].id} /\ rec.titled = actors[a].rec.titled /\ rec \in Record
  BY <1>2, RecordKept, NotedType
<1>4. calls'[c] = NoCall /\ \A d \in Callers \ {c} : calls'[d] = calls[d]
  BY <1>1, CallForms, OthersStay
<1> HIDE DEF rec, a
<1>5. acked' = acked \/ (acked' = acked \cup {calls[c].id} /\ calls[c].id \in actors'[a].rec.notes)
  BY <1>1, <1>3
<1>6. disk' = Saved(actors'[a].rec) \/ (disk' = disk /\ acked' = acked)
  BY <1>1
<1>7. /\ actors[a].rec.notes \subseteq actors'[a].rec.notes
      /\ actors'[a].rec.titled = actors[a].rec.titled /\ actors'[a].rec \in Record
  BY <1>1, <1>2, <1>3
<1> QED BY <1>1, <1>4, <1>5, <1>6, <1>7 DEF a, At, Served, Serving, registry

-----------------------------------------------------------------------------
(* Without rebinds, what is stored is known to the actor that serves.        *)

NoRebind == "rebind" \notin Ops

LEMMA KnownBy ==
  ASSUME StoredIsKnown, Len(actors') \in Nat,
         \A a \in 1..Len(actors') :
           /\ actors'[a].rec.titled
           /\ Served(actors', a) => disk'.rec.notes \subseteq actors'[a].rec.notes,
         \A d \in Callers : Knows(disk'.rec.notes, calls'[d]),
         disk'.rec.titled \/ disk'.rec.notes = {}
  PROVE  StoredIsKnown'
BY DEF StoredIsKnown, Served, Serving

LEMMA KnownKept ==
  ASSUME ServiceInv, StoredIsKnown, RecordsStay, disk'.rec = disk.rec \/ SavesActor,
         \A d \in Callers : calls'[d] = calls[d] \/ Knows(disk'.rec.notes, calls'[d])
  PROVE  StoredIsKnown'
<1>0. CallsType /\ RestType /\ Len(actors) \in Nat
  BY TypeSplit, ActorTypes DEF ServiceInv, BaseInv
<1>1. Len(actors') = Len(actors)
  BY DEF RecordsStay, ServesFewer
<1>2. CASE disk'.rec = disk.rec
  <2>1. \A d \in Callers : Knows(disk'.rec.notes, calls'[d])
    BY <1>2 DEF StoredIsKnown
  <2>2. \A a \in 1..Len(actors') :
          /\ actors'[a].rec.titled
          /\ Served(actors', a) => disk'.rec.notes \subseteq actors'[a].rec.notes
    BY <1>1, <1>2 DEF StoredIsKnown, RecordsStay, ServesFewer
  <2> QED BY <1>0, <1>1, <1>2, <2>1, <2>2, KnownBy DEF StoredIsKnown
<1>3. CASE SavesActor
  <2>1. PICK a \in 1..Len(actors) : Serving(a) /\ disk' = Saved(actors[a].rec)
    BY <1>3 DEF SavesActor
  <2>2. disk'.rec = actors[a].rec /\ actors[a].rec.titled
    BY <1>0, <2>1, ActorTypes, RecordKept DEF StoredIsKnown, Saved
  <2>3. /\ \A b \in 1..Len(actors) : Serving(b) => b = a
        /\ \A c \in Callers : calls[c].pc \notin {"load", "prepare", "install"}
    BY <2>1, ServesAlone
  <2>4. \A b \in 1..Len(actors') :
          /\ actors'[b].rec.titled
          /\ Served(actors', b) => disk'.rec.notes \subseteq actors'[b].rec.notes
    BY <1>1, <2>2, <2>3 DEF StoredIsKnown, RecordsStay, ServesFewer
  <2>5. \A d \in Callers : Knows(disk'.rec.notes, calls'[d])
    BY <2>3 DEF StoredIsKnown, Knows
  <2> QED BY <1>0, <1>1, <2>2, <2>4, <2>5, KnownBy
<1> QED BY <1>2, <1>3

LEMMA IdleKnows == \A notes : Knows(notes, NoCall)
BY DEF Knows, NoCall

LEMMA KnownChange ==
  ASSUME ServiceInv, StoredIsKnown, NEW c \in Callers, Change(c)
  PROVE  StoredIsKnown'
<1>0. CallsType /\ RestType /\ StepsAgree /\ Len(actors) \in Nat
  BY TypeSplit, ActorTypes DEF ServiceInv, BaseInv, CallsInv
<1> DEFINE a == calls[c].h
<1>1. /\ a \in 1..Len(actors) /\ Serving(a) /\ Len(actors') = Len(actors)
      /\ \A b \in 1..Len(actors) : b # a => actors'[b] = actors[b]
      /\ actors[a].rec.notes \subseteq actors'[a].rec.notes
      /\ actors'[a].rec.titled = actors[a].rec.titled
      /\ disk' = Saved(actors'[a].rec) \/ disk' = disk
      /\ calls'[c] = NoCall /\ \A d \in Callers \ {c} : calls'[d] = calls[d]
  BY <1>0, ChangeWrites
<1> HIDE DEF a
<1>2. /\ \A b \in 1..Len(actors) : Serving(b) => b = a
      /\ \A d \in Callers : calls[d].pc \notin {"load", "prepare", "install"}
  BY <1>1, ServesAlone
<1>3. disk'.rec = actors'[a].rec \/ disk'.rec = disk.rec
  BY <1>1 DEF Saved
<1>4. actors'[a].rec.titled /\ disk'.rec.notes \subseteq actors'[a].rec.notes
  BY <1>1, <1>3 DEF StoredIsKnown
<1>5. \A b \in 1..Len(actors') :
        /\ actors'[b].rec.titled
        /\ Served(actors', b) => disk'.rec.notes \subseteq actors'[b].rec.notes
  <2> SUFFICES ASSUME NEW b \in 1..Len(actors), b # a
               PROVE  actors'[b].rec.titled /\ ~Served(actors', b)
    BY <1>1, <1>4
  <2> QED BY <1>1, <1>2 DEF StoredIsKnown, Served, Serving
<1>6. \A d \in Callers : Knows(disk'.rec.notes, calls'[d])
  <2> SUFFICES ASSUME NEW d \in Callers, d # c PROVE Knows(disk'.rec.notes, calls'[d])
    BY <1>1, IdleKnows
  <2> QED BY <1>1, <1>2 DEF StoredIsKnown, Knows
<1>7. disk'.rec.titled \/ disk'.rec.notes = {}
  BY <1>3, <1>4 DEF StoredIsKnown
<1> QED BY <1>0, <1>1, <1>5, <1>6, <1>7, KnownBy

LEMMA KnownInstall ==
  ASSUME ServiceInv, StoredIsKnown, NEW c \in Callers, Install(c), ~(deleting \/ Usable)
  PROVE  StoredIsKnown'
<1>0. CallsType /\ RestType /\ SafeInv /\ Len(actors) \in Nat
  BY TypeSplit, ActorTypes DEF ServiceInv, BaseInv
<1>1. /\ Len(actors') = Len(actors) + 1
      /\ \A a \in 1..Len(actors) : actors'[a] = actors[a]
      /\ actors'[Len(actors) + 1] = Spawned(calls[c].rec)
      /\ Loaded(c, handle') /\ disk' = disk /\ calls[c].pc = "install"
  BY <1>0, InstallActors DEF Install, At
<1>2. /\ \A d \in Callers \ {c} : calls'[d] = calls[d]
      /\ calls'[c].pc = "request"
  BY <1>0, <1>1, OthersStay, CallForms DEF Loaded, GoesTo
<1>3. Spawned(calls[c].rec).rec = calls[c].rec
  BY DEF Spawned
<1>4. disk.rec.notes \subseteq calls[c].rec.notes /\ calls[c].rec.titled
  BY <1>1 DEF StoredIsKnown, Knows
<1>5. \A b \in 1..Len(actors') : b \in 1..Len(actors) \/ b = Len(actors) + 1
  BY <1>0, <1>1
<1>6. \A b \in 1..Len(actors') :
        /\ actors'[b].rec.titled
        /\ Served(actors', b) => disk'.rec.notes \subseteq actors'[b].rec.notes
  BY <1>1, <1>3, <1>4, <1>5 DEF StoredIsKnown, Served, Serving
<1>7. \A d \in Callers : Knows(disk'.rec.notes, calls'[d])
  BY <1>1, <1>2 DEF StoredIsKnown, Knows
<1> QED BY <1>0, <1>1, <1>6, <1>7, KnownBy DEF StoredIsKnown

LEMMA KnownStep ==
  ASSUME NoRebind, KnownInv, NEW c \in Callers, Step(c)
  PROVE  StoredIsKnown'
<1>0. /\ ServiceInv /\ StoredIsKnown /\ CallsType /\ RestType /\ CallsInv /\ StepsAgree /\ SafeInv
      /\ OnlyOps /\ Len(actors) \in Nat
  BY TypeSplit, ActorTypes DEF KnownInv, LoadInv, ServiceInv, BaseInv, CallsInv
<1>1. \A d \in Callers \ {c} : calls'[d] = calls[d]
  BY <1>0, StepsMoveOne
<1>2. Moves(c) /\ Knows(disk.rec.notes, calls[c]) /\ calls[c].rec \in Record /\ disk.rec \in Record
  BY <1>0, StepMoves, CallType DEF StoredIsKnown, RestType, Stored
<1>3. CASE Change(c)
  BY <1>0, <1>3, KnownChange
<1>4. CASE Install(c) /\ ~(deleting \/ Usable)
  BY <1>0, <1>4, KnownInstall
<1>5. CASE Prepare(c)
  <2> DEFINE rec == WithTitle(calls[c].rec)
  <2>1. /\ calls[c].pc = "prepare" /\ actors' = actors
        /\ disk' = Saved(rec) \/ disk' = disk
        /\ calls' = [calls EXCEPT ![c].pc = "install", ![c].rec = rec]
    BY <1>5 DEF Prepare, At, WithTitle
  <2>2. calls'[c].pc = "install" /\ calls'[c].rec = rec
    <3>1. calls \in [Callers -> Call(Len(actors))] /\ calls[c] \in Call(Len(actors))
      BY <1>0, CallType DEF CallsType
    <3> QED BY <2>1, <3>1 DEF Call
  <2>3. rec.titled /\ rec.notes = calls[c].rec.notes /\ disk.rec.notes \subseteq calls[c].rec.notes
    BY <1>0, <1>2, <2>1, RecordKept DEF Knows
  <2> HIDE DEF rec
  <2>4. disk'.rec.notes \subseteq rec.notes /\ (disk'.rec = disk.rec \/ disk'.rec.titled)
    BY <2>1, <2>3 DEF Saved
  <2>5. \A d \in Callers : Knows(disk'.rec.notes, calls'[d])
    <3> SUFFICES ASSUME NEW d \in Callers \ {c} PROVE Knows(disk'.rec.notes, calls'[d])
      BY <2>2, <2>3, <2>4 DEF Knows
    <3>1. calls[d].pc \notin {"load", "prepare", "install"}
      BY <1>0, <2>1, LoadsAlone
    <3> QED BY <1>0, <1>1, <3>1 DEF StoredIsKnown, Knows
  <2>6. \A a \in 1..Len(actors') : actors'[a].rec.titled /\ ~Served(actors', a)
    BY <1>0, <2>1 DEF SafeInv, LoadedAlone, Served, Serving, StoredIsKnown
  <2>7. disk'.rec.titled \/ disk'.rec.notes = {}
    BY <1>0, <2>4 DEF StoredIsKnown
  <2> QED BY <1>0, <2>1, <2>5, <2>6, <2>7, KnownBy
<1>6. CASE Retitle(c)
  <2>1. /\ calls[c].pc = "retitle" /\ actors' = actors /\ Goto(c, "status")
        /\ disk' = Saved(WithTitle(calls[c].rec))
    BY <1>6 DEF Retitle, At, WithTitle
  <2>2. disk'.rec.titled /\ disk'.rec.notes = {}
    BY <1>0, <1>2, <2>1, RecordKept DEF Knows, Saved
  <2>3. calls'[c].pc = "status"
    BY <1>0, <2>1, CallForms DEF GoesTo
  <2>4. \A d \in Callers : Knows(disk'.rec.notes, calls'[d])
    BY <1>0, <1>1, <2>2, <2>3 DEF StoredIsKnown, Knows
  <2>5. \A a \in 1..Len(actors') : actors'[a].rec.titled
    BY <1>0, <2>1 DEF StoredIsKnown
  <2> QED BY <1>0, <2>1, <2>2, <2>4, <2>5, KnownBy
<1>7. ~Rewrite(c)
  BY <1>0, Position DEF Rewrite, At, Agrees, OnlyOps, NoRebind
<1>8. CASE /\ ~Change(c) /\ ~(Install(c) /\ ~(deleting \/ Usable)) /\ ~Prepare(c) /\ ~Retitle(c)
  <2>1. RecordsStay /\ (disk' = disk \/ SavesActor \/ SavesCall(c) \/ MovesSession(c))
    BY <1>0, <1>8, StepWrites
  <2>2. disk'.rec = disk.rec \/ SavesActor
    BY <1>7, <1>8, <2>1 DEF SavesCall, MovesSession
  <2>3. ASSUME calls'[c].pc \in {"prepare", "install"}
        PROVE  disk'.rec.notes \subseteq calls'[c].rec.notes /\ calls'[c].pc # "install"
    <3>1. calls[c].pc = "load" /\ calls'[c].rec = disk.rec /\ calls'[c].pc = "prepare"
      BY <1>2, <1>8, <2>3
         DEF Moves, MovesAlone, MovesWithHandle, MovesWithRecord, Moved, GoesTo, AfterQuit, NoCall, WithRecord
    <3>2. ~SavesActor
      BY <1>0, <3>1 DEF SavesActor, SafeInv, LoadedAlone
    <3> QED BY <2>2, <3>1, <3>2
  <2>4. ASSUME calls'[c].pc \in {"transcript", "retitle"}
        PROVE  calls'[c].rec.notes = {}
    <3>1. \/ calls'[c].rec = disk.rec /\ ~disk.rec.titled
          \/ calls[c].pc = "transcript" /\ calls'[c].rec = calls[c].rec
      BY <1>2, <1>8, <2>4
         DEF Moves, MovesAlone, MovesWithHandle, MovesWithRecord, Moved, GoesTo, AfterQuit, NoCall, WithRecord, Same
    <3> QED BY <1>0, <1>2, <3>1 DEF StoredIsKnown, Knows
  <2>5. Knows(disk'.rec.notes, calls'[c])
    BY <2>3, <2>4 DEF Knows
  <2> QED BY <1>0, <1>1, <2>1, <2>2, <2>5, KnownKept
<1> QED BY <1>3, <1>4, <1>5, <1>6, <1>8

LEMMA KnownNext == ASSUME Exclusive, NoRebind PROVE KnownInv /\ [Next]_vars => KnownInv'
<1> SUFFICES ASSUME KnownInv, [Next]_vars PROVE KnownInv'
  OBVIOUS
<1>0. LoadInv /\ ServiceInv /\ StoredIsKnown /\ CallsType /\ RestType /\ CallsInv /\ ClosersWait
  BY TypeSplit DEF KnownInv, LoadInv, ServiceInv, BaseInv
<1>1. LoadInv'
  BY <1>0, LoadNext
<1>2. ASSUME NEW c \in Callers, Step(c) PROVE StoredIsKnown'
  BY <1>2, KnownStep
<1>3. ASSUME NEW c \in Callers, NEW op \in Ops, Begin(c, op) PROVE StoredIsKnown'
  <2>1. /\ calls'[c].pc \in {"mlock", "look", "find", "scan"} /\ disk' = disk /\ actors' = actors
        /\ \A d \in Callers \ {c} : calls'[d] = calls[d]
    BY <1>0, <1>3, BeginMoves
  <2>2. \A d \in Callers : calls'[d] = calls[d] \/ Knows(disk'.rec.notes, calls'[d])
    BY <2>1 DEF Knows
  <2>3. RecordsStay
    BY <2>1 DEF RecordsStay, ServesFewer, Served, Serving
  <2> QED BY <1>0, <2>1, <2>2, <2>3, KnownKept
<1>4. ASSUME NEW a \in 1..Len(actors), Actor(a) PROVE StoredIsKnown'
  <2>1. /\ RecordsStay
        /\ disk'.rec = disk.rec \/ SavesActor
        /\ \A c \in Callers : calls'[c] = calls[c] \/ calls'[c] = NoCall \/ GoesTo(c, AfterQuit(c))
    BY <1>0, <1>4, ActorWrites
  <2>2. \A c \in Callers : calls'[c] = calls[c] \/ Knows(disk'.rec.notes, calls'[c])
    BY <2>1, IdleKnows DEF GoesTo, AfterQuit, Knows
  <2> QED BY <1>0, <2>1, <2>2, KnownKept
<1>5. ASSUME UNCHANGED vars PROVE StoredIsKnown'
  <2>1. RecordsStay
    BY <1>5 DEF vars, RecordsStay, ServesFewer, Served, Serving
  <2>2. disk'.rec = disk.rec /\ \A d \in Callers : calls'[d] = calls[d]
    BY <1>5 DEF vars
  <2> QED BY <1>0, <2>1, <2>2, KnownKept
<1> QED BY <1>1, <1>2, <1>3, <1>4, <1>5 DEF KnownInv, Next

(* One actor serves a session at a time and knows all that is stored, so     *)
(* that its saves lose nothing: for the calls but rebind, which changes the  *)
(* stored record without the session lock, and for deletes or unloads but    *)
(* not both (see OneActor).                                                  *)
THEOREM OneActorKnowsAll == ASSUME Exclusive, NoRebind PROVE Spec => []OneActorKnows
<1>1. Init => KnownInv
  <2> SUFFICES ASSUME Init PROVE StoredIsKnown
    BY LoadInit DEF KnownInv
  <2>1. Len(actors) = 0 /\ disk.rec.notes = {} /\ \A c \in Callers : calls[c] = NoCall
    BY DEF Init, NoRecord
  <2> QED BY <2>1, IdleKnows DEF StoredIsKnown
<1>2. KnownInv => OneActorKnows
  <2> SUFFICES ASSUME KnownInv PROVE OneActorKnows
    OBVIOUS
  <2>1. AtMostOneActor
    BY OneServes DEF KnownInv, LoadInv, AtMostOneActor
  <2>2. NothingToLose
    BY DEF KnownInv, StoredIsKnown, NothingToLose
  <2> QED BY <2>1, <2>2 DEF OneActorKnows
<1> QED BY <1>1, <1>2, KnownNext, PTL DEF Spec

-----------------------------------------------------------------------------
(* What was acknowledged is kept until the session is deleted for good.      *)

NoRepair == "list" \notin Ops \/ Titled

LEMMA TitlesMove ==
  ASSUME CallsType, RestType, OnlyOps, StepsAgree, TitlesStay, NoRepair, NEW c \in Callers, Moves(c)
  PROVE  /\ Titled => calls'[c].rec.titled
         /\ calls'[c].pc \notin {"transcript", "retitle"}
<1>1. NoCall.rec.titled = Titled /\ NoCall.pc = "idle"
  BY DEF NoCall, NoRecord
<1>2. /\ calls[c].rec \in Record /\ disk.rec \in Record /\ Agrees(calls[c].op, calls[c].pc)
      /\ WithTitle(calls[c].rec).titled /\ Noted(disk.rec, c).titled = disk.rec.titled
  BY CallType, RecordKept DEF StepsAgree
<1>3. Titled => calls'[c].rec.titled
  BY <1>1, <1>2 DEF TitlesStay, Moves, MovesAlone, MovesWithHandle, MovesWithRecord, Same, WithHandle, WithRecord
<1>4. ASSUME calls'[c].pc \in {"transcript", "retitle"} PROVE FALSE
  <2>1. calls[c].pc \in {"gather", "transcript"} /\ (calls[c].pc = "gather" => ~disk.rec.titled)
    BY <1>1, <1>4 DEF Moves, MovesAlone, MovesWithHandle, MovesWithRecord, Moved, GoesTo, AfterQuit
  <2>2. calls[c].pc = "gather" /\ ~disk.rec.titled
    BY <2>1 DEF TitlesStay
  <2>3. calls[c].op = "list"
    BY <1>2, <2>2 DEF Agrees, Listing
  <2> QED BY <2>2, <2>3 DEF TitlesStay, NoRepair, OnlyOps
<1> QED BY <1>3, <1>4

LEMMA TitlesStep ==
  ASSUME LoadInv, TitlesStay, NoRepair, NEW c \in Callers, Step(c)
  PROVE  TitlesStay'
<1>0. CallsType /\ RestType /\ StepsAgree /\ OnlyOps /\ Len(actors) \in Nat
  BY TypeSplit, ActorTypes DEF LoadInv, ServiceInv, BaseInv, CallsInv
<1>1. \A d \in Callers \ {c} : calls'[d] = calls[d]
  BY <1>0, StepsMoveOne
<1>2. (Titled => calls'[c].rec.titled) /\ calls'[c].pc \notin {"transcript", "retitle"}
  BY <1>0, StepMoves, TitlesMove
<1>3. ASSUME Titled PROVE disk'.rec.titled /\ \A a \in 1..Len(actors') : actors'[a].rec.titled
  <2>1. CASE Install(c) /\ ~(deleting \/ Usable)
    <3>1. /\ Len(actors') = Len(actors) + 1 /\ disk' = disk
          /\ \A a \in 1..Len(actors) : actors'[a] = actors[a]
          /\ actors'[Len(actors) + 1] = Spawned(calls[c].rec)
      BY <1>0, <2>1, InstallActors
    <3>2. \A a \in 1..Len(actors') : a \in 1..Len(actors) \/ a = Len(actors) + 1
      BY <1>0, <3>1
    <3>3. Spawned(calls[c].rec).rec.titled
      BY <1>3 DEF TitlesStay, Spawned
    <3> QED BY <1>3, <3>1, <3>2, <3>3 DEF TitlesStay
  <2>2. CASE Change(c)
    <3> DEFINE a == calls[c].h
    <3>1. /\ a \in 1..Len(actors) /\ Len(actors') = Len(actors)
          /\ \A b \in 1..Len(actors) : b # a => actors'[b] = actors[b]
          /\ actors'[a].rec.titled = actors[a].rec.titled
          /\ disk' = Saved(actors'[a].rec) \/ disk' = disk
      BY <1>0, <2>2, ChangeWrites
    <3> HIDE DEF a
    <3> QED BY <1>3, <3>1 DEF TitlesStay, Saved
  <2>3. CASE ~(Install(c) /\ ~(deleting \/ Usable)) /\ ~Change(c)
    <3>1. RecordsStay /\ (disk' = disk \/ SavesActor \/ SavesCall(c) \/ MovesSession(c))
      BY <1>0, <2>3, StepWrites
    <3>2. WithTitle(calls[c].rec).titled
      BY <1>0, CallType, RecordKept
    <3>3. disk'.rec.titled
      BY <1>3, <3>1, <3>2 DEF TitlesStay, SavesActor, SavesCall, MovesSession, Saved
    <3> QED BY <1>3, <3>1, <3>3 DEF TitlesStay, RecordsStay, ServesFewer
  <2> QED BY <2>1, <2>2, <2>3
<1> QED BY <1>1, <1>2, <1>3 DEF TitlesStay

(* What holds of every step but a new actor, a change and a removal.         *)
LEMMA KeptBy ==
  ASSUME RestType, AcknowledgedIsKnown, ErasedIsLeft, RecordsStay, acked' = acked, erased' = erased,
         \/ disk'.rec = disk.rec /\ (disk.where = "none" => disk'.where = "none")
         \/ SavesActor
         \/ \E d \in Callers : Saves(calls[d]) /\ disk'.rec.notes = calls[d].rec.notes,
         \A d \in Callers :
           \/ calls'[d] = calls[d]
           \/ ~Saves(calls'[d])
           \/ Saves(calls[d]) /\ calls'[d].rec.notes = calls[d].rec.notes
           \/ disk.where # "none" /\ disk.rec.notes \subseteq calls'[d].rec.notes
  PROVE  AcknowledgedIsKnown' /\ ErasedIsLeft'
<1>0. /\ Len(actors') = Len(actors)
      /\ \A a \in 1..Len(actors) : actors'[a].rec = actors[a].rec /\ (Served(actors', a) => Serving(a))
  BY DEF RecordsStay, ServesFewer
<1>1. CASE erased
  <2>1. disk.where = "none" /\ (\A a \in 1..Len(actors) : ~Serving(a)) /\ \A d \in Callers : ~Saves(calls[d])
    BY <1>1 DEF ErasedIsLeft
  <2>2. disk'.where = "none"
    BY <2>1 DEF SavesActor
  <2>3. \A d \in Callers : ~Saves(calls'[d])
    BY <2>1
  <2> QED BY <1>0, <1>1, <2>1, <2>2, <2>3 DEF AcknowledgedIsKnown, ErasedIsLeft, Served, Serving
<1>2. CASE ~erased
  <2>1. /\ acked \subseteq disk.rec.notes
        /\ \A a \in 1..Len(actors) : Serving(a) => acked \subseteq actors[a].rec.notes
        /\ \A d \in Callers : Saves(calls[d]) => acked \subseteq calls[d].rec.notes
    BY <1>2 DEF AcknowledgedIsKnown
  <2>2. acked' \subseteq disk'.rec.notes
    BY <2>1 DEF SavesActor, Saved
  <2>3. \A d \in Callers : Saves(calls'[d]) => acked' \subseteq calls'[d].rec.notes
    BY <2>1
  <2>4. \A a \in 1..Len(actors') : Served(actors', a) => acked' \subseteq actors'[a].rec.notes
    BY <1>0, <2>1
  <2> QED BY <1>2, <2>2, <2>3, <2>4 DEF AcknowledgedIsKnown, ErasedIsLeft, Served, Serving
<1> QED BY <1>1, <1>2

LEMMA KeptInstall ==
  ASSUME ServiceInv, AcknowledgedIsKnown, ErasedIsLeft, NEW c \in Callers,
         Install(c), ~(deleting \/ Usable)
  PROVE  AcknowledgedIsKnown' /\ ErasedIsLeft'
<1>0. CallsType /\ RestType /\ Len(actors) \in Nat
  BY TypeSplit, ActorTypes DEF ServiceInv, BaseInv
<1>1. /\ Len(actors') = Len(actors) + 1
      /\ \A a \in 1..Len(actors) : actors'[a] = actors[a]
      /\ actors'[Len(actors) + 1] = Spawned(calls[c].rec)
      /\ Loaded(c, handle') /\ UNCHANGED <<disk, acked, erased>> /\ calls[c].pc = "install"
  BY <1>0, InstallActors DEF Install, At, history
<1>2. /\ \A d \in Callers \ {c} : calls'[d] = calls[d]
      /\ calls'[c].pc = "request"
  BY <1>0, <1>1, OthersStay, CallForms DEF Loaded, GoesTo
<1>3. Saves(calls[c]) /\ ~Saves(calls'[c]) /\ Spawned(calls[c].rec).rec = calls[c].rec
  BY <1>1, <1>2 DEF Saves, Spawned
<1>4. ~erased
  BY <1>3 DEF ErasedIsLeft
<1>5. \A a \in 1..Len(actors') : a \in 1..Len(actors) \/ a = Len(actors) + 1
  BY <1>0, <1>1
<1>6. \A a \in 1..Len(actors') : Served(actors', a) => acked' \subseteq actors'[a].rec.notes
  BY <1>1, <1>3, <1>4, <1>5 DEF AcknowledgedIsKnown, Served, Serving
<1>7. \A d \in Callers : Saves(calls'[d]) => acked' \subseteq calls'[d].rec.notes
  BY <1>1, <1>2, <1>3, <1>4 DEF AcknowledgedIsKnown
<1> QED BY <1>1, <1>4, <1>6, <1>7 DEF AcknowledgedIsKnown, ErasedIsLeft, Served, Serving

LEMMA KeptChange ==
  ASSUME ServiceInv, AcknowledgedIsKnown, ErasedIsLeft, NEW c \in Callers, Change(c)
  PROVE  AcknowledgedIsKnown' /\ ErasedIsLeft'
<1>0. CallsType /\ RestType /\ CallsInv /\ StepsAgree
  BY TypeSplit DEF ServiceInv, BaseInv, CallsInv
<1> DEFINE a == calls[c].h
<1>1. /\ a \in 1..Len(actors) /\ Serving(a) /\ Len(actors') = Len(actors)
      /\ \A b \in 1..Len(actors) : b # a => actors'[b] = actors[b]
      /\ actors[a].rec.notes \subseteq actors'[a].rec.notes
      /\ disk' = Saved(actors'[a].rec) \/ (disk' = disk /\ acked' = acked)
      /\ acked' \subseteq acked \cup {calls[c].id}
      /\ acked' = acked \/ calls[c].id \in actors'[a].rec.notes
      /\ calls[c].op \in {"prompt", "rebind"} /\ calls[c].pc = "request"
      /\ calls'[c] = NoCall /\ (\A d \in Callers \ {c} : calls'[d] = calls[d])
      /\ erased' = erased
  BY <1>0, ChangeWrites
<1> HIDE DEF a
<1>2. /\ \A b \in 1..Len(actors) : Serving(b) => b = a
      /\ \A d \in Callers : calls[d].pc \notin {"load", "prepare", "install"}
  BY <1>1, ServesAlone
<1>3. ~erased
  BY <1>1 DEF ErasedIsLeft
<1>4. acked' \subseteq actors'[a].rec.notes
  BY <1>1, <1>3 DEF AcknowledgedIsKnown
<1>5. acked' \subseteq disk'.rec.notes
  BY <1>1, <1>3, <1>4 DEF AcknowledgedIsKnown, Saved
<1>6. \A b \in 1..Len(actors') : Served(actors', b) => acked' \subseteq actors'[b].rec.notes
  BY <1>1, <1>2, <1>4 DEF Served, Serving
<1>7. ASSUME NEW d \in Callers, Saves(calls'[d]) PROVE FALSE
  <2>1. d # c /\ calls[d].pc = "rewrite"
    BY <1>1, <1>2, <1>7 DEF Saves, NoCall
  <2>2. HoldsMutation(calls[d].op, calls[d].pc) /\ HoldsMutation(calls[c].op, calls[c].pc)
    BY <1>0, <1>1, <2>1, Position DEF Agrees, HoldsMutation, Mutating
  <2> QED BY <1>0, <2>1, <2>2, OneChanger
<1> QED BY <1>1, <1>3, <1>5, <1>6, <1>7 DEF AcknowledgedIsKnown, ErasedIsLeft, Served, Serving

LEMMA KeptErase ==
  ASSUME ServiceInv, NEW c \in Callers, Erase(c), erased' = TRUE, disk'.where = "none"
  PROVE  AcknowledgedIsKnown' /\ ErasedIsLeft'
<1>0. CallsType /\ RestType /\ CallsInv /\ SafeInv
  BY TypeSplit DEF ServiceInv, BaseInv
<1>1. calls[c].pc = "erase" /\ actors' = actors /\ Goto(c, "unmark")
  BY DEF Erase, At
<1>2. calls'[c].pc = "unmark" /\ \A d \in Callers \ {c} : calls'[d] = calls[d]
  BY <1>0, <1>1, CallForms, OthersStay DEF GoesTo
<1>3. Deletes(c) /\ HoldsSession(calls[c].op, calls[c].pc) /\ HoldsMutation(calls[c].op, calls[c].pc)
  BY <1>0, <1>1, Position DEF Agrees, Erasing, Deletes, HoldsSession, HoldsMutation, Mutating
<1>4. handle = None
  BY <1>0, <1>1, <1>3 DEF SafeInv, DeleteTakesHandle, Erasing
<1>5. \A a \in 1..Len(actors) : ~Serving(a)
  BY <1>0, <1>1, <1>3, <1>4, NoneServes
<1>6. ASSUME NEW d \in Callers, Saves(calls'[d]) PROVE FALSE
  <2>1. d # c /\ calls'[d] = calls[d]
    BY <1>2, <1>6 DEF Saves
  <2>2. calls[d].pc = "rewrite"
    BY <1>0, <1>1, <1>6, <2>1, LoadsAlone DEF Saves, Erasing
  <2>3. HoldsMutation(calls[d].op, calls[d].pc)
    BY <1>0, <2>2, Position DEF Agrees, HoldsMutation, Mutating
  <2> QED BY <1>0, <1>3, <2>1, <2>3, OneChanger
<1> QED BY <1>1, <1>5, <1>6 DEF AcknowledgedIsKnown, ErasedIsLeft, Serving

LEMMA KeptStep ==
  ASSUME KeptInv, NEW c \in Callers, Step(c)
  PROVE  AcknowledgedIsKnown' /\ ErasedIsLeft'
<1>0. /\ ServiceInv /\ AcknowledgedIsKnown /\ ErasedIsLeft /\ TitlesStay
      /\ CallsType /\ RestType /\ CallsInv /\ StepsAgree
  BY TypeSplit DEF KeptInv, LoadInv, ServiceInv, BaseInv, CallsInv
<1>1. \A d \in Callers \ {c} : calls'[d] = calls[d]
  BY <1>0, StepsMoveOne
<1>2. CASE Install(c) /\ ~(deleting \/ Usable)
  BY <1>0, <1>2, KeptInstall
<1>3. CASE Change(c)
  BY <1>0, <1>3, KeptChange
<1>4. CASE ~(Install(c) /\ ~(deleting \/ Usable)) /\ ~Change(c)
  <2>1. /\ RecordsStay /\ acked' = acked
        /\ erased' = erased \/ (Erase(c) /\ erased' = TRUE /\ disk'.where = "none")
        /\ disk' = disk \/ SavesActor \/ SavesCall(c) \/ MovesSession(c)
    BY <1>0, <1>4, StepWrites
  <2>2. CASE Erase(c) /\ erased' = TRUE /\ disk'.where = "none"
    BY <1>0, <2>2, KeptErase
  <2>3. CASE erased' = erased
    <3>0. calls[c].rec \in Record /\ disk.rec \in Record
      BY <1>0, CallType, RecordKept DEF RestType, Stored
    <3>1. ~Retitle(c)
      BY <1>0 DEF Retitle, At, TitlesStay
    <3>2. \/ disk'.rec = disk.rec /\ (disk.where = "none" => disk'.where = "none")
          \/ SavesActor
          \/ Saves(calls[c]) /\ disk'.rec.notes = calls[c].rec.notes
      <4>1. CASE SavesCall(c)
        <5>1. Saves(calls[c])
          BY <3>1, <4>1 DEF SavesCall, Prepare, Rewrite, At, Saves
        <5> QED BY <1>0, <3>0, <3>1, <4>1, <5>1, RecordKept DEF SavesCall, Saved
      <4>2. CASE MovesSession(c)
        BY <4>2 DEF MovesSession
      <4> QED BY <2>1, <4>1, <4>2
    <3>3. \/ ~Saves(calls'[c])
          \/ Saves(calls[c]) /\ calls'[c].rec.notes = calls[c].rec.notes
          \/ disk.where # "none" /\ disk.rec.notes \subseteq calls'[c].rec.notes
      <4>1. Moves(c)
        BY <1>0, StepMoves
      <4>2. CASE MovesWithRecord(c)
        <5>1. CASE WithRecord(c, WithTitle(calls[c].rec)) /\ Moved(c, "prepare", "install")
          BY <1>0, <3>0, <5>1, RecordKept DEF WithRecord, Moved, Saves
        <5>2. CASE disk.where # "none" /\ (WithRecord(c, disk.rec) \/ WithRecord(c, Noted(disk.rec, c)))
          BY <1>0, <3>0, <5>2, RecordKept DEF WithRecord
        <5> QED BY <4>2, <5>1, <5>2 DEF MovesWithRecord
      <4>3. CASE calls'[c] = NoCall \/ MovesAlone(c) \/ MovesWithHandle(c)
        BY <4>3 DEF MovesAlone, MovesWithHandle, Moved, GoesTo, AfterQuit, Saves, NoCall
      <4> QED BY <4>1, <4>2, <4>3 DEF Moves
    <3> QED BY <1>0, <1>1, <2>1, <2>3, <3>2, <3>3, KeptBy
  <2> QED BY <2>1, <2>2, <2>3
<1> QED BY <1>2, <1>3, <1>4

LEMMA KeptNext == ASSUME Exclusive, NoRepair PROVE KeptInv /\ [Next]_vars => KeptInv'
<1> SUFFICES ASSUME KeptInv, [Next]_vars PROVE KeptInv'
  OBVIOUS
<1>0. /\ LoadInv /\ ServiceInv /\ TitlesStay /\ AcknowledgedIsKnown /\ ErasedIsLeft
      /\ CallsType /\ RestType /\ CallsInv /\ ClosersWait
  BY TypeSplit DEF KeptInv, LoadInv, ServiceInv, BaseInv
<1>1. LoadInv'
  BY <1>0, LoadNext
<1>2. ASSUME NEW c \in Callers, Step(c) PROVE TitlesStay' /\ AcknowledgedIsKnown' /\ ErasedIsLeft'
  BY <1>0, <1>2, TitlesStep, KeptStep
<1>3. ASSUME NEW c \in Callers, NEW op \in Ops, Begin(c, op)
      PROVE  TitlesStay' /\ AcknowledgedIsKnown' /\ ErasedIsLeft'
  <2>1. /\ calls'[c].pc \in {"mlock", "look", "find", "scan"} /\ calls'[c].rec = NoRecord
        /\ UNCHANGED <<disk, actors, acked, erased>>
        /\ \A d \in Callers \ {c} : calls'[d] = calls[d]
    BY <1>0, <1>3, BeginMoves
  <2>2. RecordsStay
    BY <2>1 DEF RecordsStay, ServesFewer, Served, Serving
  <2>3. TitlesStay'
    BY <1>0, <2>1 DEF TitlesStay, NoRecord
  <2>4. \A d \in Callers : calls'[d] = calls[d] \/ ~Saves(calls'[d])
    BY <2>1 DEF Saves
  <2>5. disk'.rec = disk.rec /\ (disk.where = "none" => disk'.where = "none") /\ acked' = acked /\ erased' = erased
    BY <2>1
  <2> QED BY <1>0, <2>2, <2>3, <2>4, <2>5, KeptBy
<1>4. ASSUME NEW a \in 1..Len(actors), Actor(a)
      PROVE  TitlesStay' /\ AcknowledgedIsKnown' /\ ErasedIsLeft'
  <2>1. /\ RecordsStay /\ acked' = acked /\ erased' = erased
        /\ disk' = disk \/ SavesActor
        /\ \A c \in Callers : \/ calls'[c] = calls[c] \/ calls'[c] = NoCall
                              \/ GoesTo(c, AfterQuit(c)) /\ calls'[c].rec = calls[c].rec
    BY <1>0, <1>4, ActorWrites
  <2>2. NoCall.pc = "idle" /\ NoCall.rec.titled = Titled
    BY DEF NoCall, NoRecord
  <2>3. TitlesStay'
    <3>1. Titled => disk'.rec.titled /\ \A b \in 1..Len(actors') : actors'[b].rec.titled
      BY <1>0, <2>1 DEF TitlesStay, SavesActor, Saved, RecordsStay, ServesFewer
    <3>2. \A c \in Callers : (Titled => calls'[c].rec.titled) /\ calls'[c].pc \notin {"transcript", "retitle"}
      BY <1>0, <2>1, <2>2 DEF TitlesStay, GoesTo, AfterQuit
    <3> QED BY <3>1, <3>2 DEF TitlesStay
  <2>4. \A c \in Callers : calls'[c] = calls[c] \/ ~Saves(calls'[c])
    BY <2>1, <2>2 DEF Saves, GoesTo, AfterQuit
  <2>5. \/ disk'.rec = disk.rec /\ (disk.where = "none" => disk'.where = "none")
        \/ SavesActor
    BY <2>1
  <2> QED BY <1>0, <2>1, <2>3, <2>4, <2>5, KeptBy
<1>5. ASSUME UNCHANGED vars PROVE TitlesStay' /\ AcknowledgedIsKnown' /\ ErasedIsLeft'
  <2>1. TitlesStay'
    BY <1>0, <1>5 DEF vars, TitlesStay
  <2>2. AcknowledgedIsKnown' /\ ErasedIsLeft'
    BY <1>0, <1>5 DEF vars, AcknowledgedIsKnown, ErasedIsLeft, Saves, Serving
  <2> QED BY <2>1, <2>2
<1> QED BY <1>1, <1>2, <1>3, <1>4, <1>5 DEF KeptInv, Next

(* A session keeps what it acknowledged until it is deleted, and then for    *)
(* good nothing of it: unless a list repairs a title, which it saves without *)
(* the session lock, and for deletes or unloads but not both.                *)
THEOREM DeletionIsForGood == ASSUME Exclusive, NoRepair PROVE Spec => []DeletionIsFinal
<1>1. Init => KeptInv
  <2> SUFFICES ASSUME Init PROVE TitlesStay /\ AcknowledgedIsKnown /\ ErasedIsLeft
    BY LoadInit DEF KeptInv
  <2>1. /\ Len(actors) = 0 /\ disk.rec = NoRecord /\ (\A c \in Callers : calls[c] = NoCall)
        /\ acked = {} /\ ~erased
    BY DEF Init
  <2>2. NoCall.pc = "idle" /\ NoCall.rec.titled = Titled /\ NoRecord.titled = Titled
    BY DEF NoCall, NoRecord
  <2> QED BY <2>1, <2>2 DEF TitlesStay, AcknowledgedIsKnown, ErasedIsLeft, Saves
<1>2. KeptInv => DeletionIsFinal
  BY DEF KeptInv, AcknowledgedIsKnown, ErasedIsLeft, DeletionIsFinal, AcknowledgedIsKept, DeletedStaysDeleted
<1> QED BY <1>1, <1>2, KeptNext, PTL DEF Spec

-----------------------------------------------------------------------------
(* No turn on an archived session.                                           *)

RunsIn(s, a) == s[a].turn /\ s[a].state \in {"live", "closing"}
RunsFewer == \A a \in 1..Len(actors') : RunsIn(actors', a) => a \in 1..Len(actors) /\ Runs(a)
QuietParts == PromptsSeeActive /\ ArchiveSawIdle /\ ArchivedIsQuiet

LEMMA QuietBy ==
  ASSUME QuietParts, RunsFewer, disk'.where = "archived" => disk.where = "archived",
         \A d \in Callers :
           \/ calls'[d] = calls[d]
           \/ /\ Prompting(calls'[d].op, calls'[d].pc) =>
                   Prompting(calls[d].op, calls[d].pc) \/ disk.where # "archived"
              /\ Archiving(calls'[d].op, calls'[d].pc) =>
                   Archiving(calls[d].op, calls[d].pc) \/ \A a \in 1..Len(actors) : ~Runs(a)
  PROVE  QuietParts'
<1>1. ASSUME NEW d \in Callers, Prompting(calls'[d].op, calls'[d].pc)
      PROVE  disk'.where # "archived"
  <2>1. Prompting(calls[d].op, calls[d].pc) \/ disk.where # "archived"
    BY <1>1
  <2> QED BY <2>1 DEF QuietParts, PromptsSeeActive
<1>2. ASSUME NEW d \in Callers, Archiving(calls'[d].op, calls'[d].pc), NEW a \in 1..Len(actors')
      PROVE  ~RunsIn(actors', a)
  <2>1. Archiving(calls[d].op, calls[d].pc) \/ \A b \in 1..Len(actors) : ~Runs(b)
    BY <1>2
  <2>2. \A b \in 1..Len(actors) : ~Runs(b)
    BY <2>1 DEF QuietParts, ArchiveSawIdle
  <2> QED BY <2>2 DEF RunsFewer
<1>3. ASSUME disk'.where = "archived", NEW a \in 1..Len(actors') PROVE ~RunsIn(actors', a)
  BY <1>3 DEF QuietParts, ArchivedIsQuiet, RunsFewer
<1>4. PromptsSeeActive'
  BY <1>1 DEF PromptsSeeActive, Prompting
<1>5. ArchiveSawIdle'
  BY <1>2 DEF ArchiveSawIdle, Archiving, Runs, RunsIn
<1>6. ArchivedIsQuiet'
  BY <1>3 DEF ArchivedIsQuiet, Runs, RunsIn
<1> QED BY <1>4, <1>5, <1>6 DEF QuietParts

LEMMA StepRuns ==
  ASSUME CallsType, RestType, StepsAgree, NEW c \in Callers, Step(c), ~Change(c)
  PROVE  RunsFewer
<1>0. Len(actors) \in Nat
  BY ActorTypes
<1>1. CASE Install(c) /\ ~(deleting \/ Usable)
  <2>1. /\ Len(actors') = Len(actors) + 1
        /\ \A a \in 1..Len(actors) : actors'[a] = actors[a]
        /\ actors'[Len(actors) + 1] = Spawned(calls[c].rec)
    BY <1>1, InstallActors
  <2>2. \A a \in 1..Len(actors') : a \in 1..Len(actors) \/ a = Len(actors) + 1
    BY <1>0, <2>1
  <2>3. ~Spawned(calls[c].rec).turn
    BY DEF Spawned
  <2> QED BY <2>1, <2>2, <2>3 DEF RunsFewer, RunsIn, Runs
<1>2. CASE QuitIdle(c)
  <2>1. calls[c].h \in 1..Len(actors) /\ Stops(calls[c].h, c)
    BY <1>0, <1>2, CallType, StepNames DEF QuitIdle, At, None
  <2> QED BY <2>1, StopsActors DEF RunsFewer, RunsIn, Runs
<1>3. CASE QuitBusy(c)
  BY <1>3, QuitBusyActors DEF RunsFewer, RunsIn, Runs
<1>4. CASE ~(Install(c) /\ ~(deleting \/ Usable)) /\ ~QuitIdle(c) /\ ~QuitBusy(c)
  BY <1>4, ActorsStay DEF RunsFewer, RunsIn, Runs
<1> QED BY <1>1, <1>2, <1>3, <1>4

LEMMA QuietChange ==
  ASSUME CallsType, RestType, CallsInv, QuietParts, NEW c \in Callers, Change(c)
  PROVE  QuietParts'
<1>0. StepsAgree
  BY DEF CallsInv
<1> DEFINE a == calls[c].h
<1>1. /\ a \in 1..Len(actors) /\ Len(actors') = Len(actors)
      /\ \A b \in 1..Len(actors) : b # a => actors'[b] = actors[b]
      /\ actors'[a].turn => calls[c].op = "prompt"
      /\ disk' = Saved(actors'[a].rec) \/ disk' = disk
      /\ calls[c].op \in {"prompt", "rebind"} /\ calls[c].pc = "request"
      /\ calls'[c] = NoCall /\ (\A d \in Callers \ {c} : calls'[d] = calls[d])
  BY <1>0, ChangeWrites
<1> HIDE DEF a
<1>2. disk'.where = "archived" => disk.where = "archived"
  BY <1>1 DEF Saved
<1>3. ~Prompting(calls'[c].op, calls'[c].pc) /\ ~Archiving(calls'[c].op, calls'[c].pc)
  BY <1>1 DEF NoCall, Prompting, Archiving
<1>4. CASE calls[c].op = "rebind"
  <2>1. RunsFewer
    BY <1>1, <1>4 DEF RunsFewer, RunsIn, Runs
  <2> QED BY <1>1, <1>2, <1>3, <2>1, QuietBy
<1>5. CASE calls[c].op = "prompt"
  <2>1. disk'.where # "archived"
    BY <1>1, <1>2, <1>5 DEF QuietParts, PromptsSeeActive, Prompting
  <2>2. ASSUME NEW d \in Callers, Archiving(calls'[d].op, calls'[d].pc) PROVE FALSE
    <3>1. d # c /\ calls'[d] = calls[d]
      BY <1>1, <1>3, <2>2
    <3>2. HoldsMutation(calls[d].op, calls[d].pc) /\ HoldsMutation(calls[c].op, calls[c].pc)
      BY <1>1, <1>5, <2>2, <3>1 DEF Archiving, HoldsMutation, Mutating, Quitting
    <3> QED BY <3>1, <3>2, OneChanger
  <2>3. PromptsSeeActive' /\ ArchivedIsQuiet'
    BY <2>1 DEF PromptsSeeActive, ArchivedIsQuiet
  <2>4. ArchiveSawIdle'
    BY <2>2 DEF ArchiveSawIdle, Archiving
  <2> QED BY <2>3, <2>4 DEF QuietParts
<1> QED BY <1>1, <1>4, <1>5

LEMMA QuietArchive ==
  ASSUME CallsType, RestType, CallsInv, QuietParts, NEW c \in Callers, Archive(c)
  PROVE  QuietParts'
<1>1. calls[c].pc = "archive" /\ actors' = actors /\ Return(c)
  BY DEF Archive, Move, At
<1>2. calls'[c] = NoCall /\ \A d \in Callers \ {c} : calls'[d] = calls[d]
  BY <1>1, CallForms, OthersStay
<1>3. calls[c].op = "archive" /\ HoldsMutation(calls[c].op, calls[c].pc)
  BY <1>1, Position DEF Agrees, HoldsMutation, Mutating
<1>4. \A a \in 1..Len(actors) : ~Runs(a)
  BY <1>1, <1>3 DEF QuietParts, ArchiveSawIdle, Archiving
<1>5. ASSUME NEW d \in Callers, Prompting(calls'[d].op, calls'[d].pc) PROVE FALSE
  <2>1. d # c /\ calls'[d] = calls[d]
    BY <1>2, <1>5 DEF Prompting, NoCall
  <2>2. HoldsMutation(calls[d].op, calls[d].pc)
    BY <1>5, <2>1 DEF Prompting, HoldsMutation, Mutating, Loading
  <2> QED BY <1>3, <2>1, <2>2, OneChanger
<1>6. PromptsSeeActive'
  BY <1>5 DEF PromptsSeeActive, Prompting
<1>7. ArchiveSawIdle' /\ ArchivedIsQuiet'
  BY <1>1, <1>4 DEF ArchiveSawIdle, ArchivedIsQuiet, Runs
<1> QED BY <1>6, <1>7 DEF QuietParts

LEMMA QuietStep ==
  ASSUME ServiceInv, QuietParts, NEW c \in Callers, Step(c)
  PROVE  QuietParts'
<1>0. CallsType /\ RestType /\ CallsInv /\ StepsAgree /\ Len(actors) \in Nat
  BY TypeSplit, ActorTypes DEF ServiceInv, BaseInv, CallsInv
<1>1. \A d \in Callers \ {c} : calls'[d] = calls[d]
  BY <1>0, StepsMoveOne
<1>2. CASE Change(c)
  BY <1>0, <1>2, QuietChange
<1>3. CASE Archive(c)
  BY <1>0, <1>3, QuietArchive
<1>4. CASE ~Change(c) /\ ~Archive(c)
  <2>1. RunsFewer
    BY <1>0, <1>4, StepRuns
  <2>2. disk'.where = "archived" => disk.where = "archived"
    <3>1. CASE Install(c) /\ ~(deleting \/ Usable)
      BY <1>0, <3>1, InstallActors
    <3>2. CASE ~(Install(c) /\ ~(deleting \/ Usable))
      <4>1. disk' = disk \/ SavesActor \/ SavesCall(c) \/ MovesSession(c)
        BY <1>0, <1>4, <3>2, StepWrites
      <4> QED BY <1>4, <4>1 DEF SavesActor, SavesCall, MovesSession, Saved
    <3> QED BY <3>1, <3>2
  <2>m. Moves(c) /\ Agrees(calls[c].op, calls[c].pc)
    BY <1>0, StepMoves, Position
  <2>3. ASSUME Prompting(calls'[c].op, calls'[c].pc)
        PROVE  Prompting(calls[c].op, calls[c].pc) \/ disk.where # "archived"
    BY <2>m, <2>3
       DEF Prompting, Loading, Moves, MovesAlone, MovesWithHandle, MovesWithRecord, Moved, GoesTo, AfterQuit,
           NoCall, Agrees, Listing, Deletes
  <2>4. ASSUME Archiving(calls'[c].op, calls'[c].pc)
        PROVE  Archiving(calls[c].op, calls[c].pc) \/ \A a \in 1..Len(actors) : ~Runs(a)
    <3>1. Archiving(calls[c].op, calls[c].pc) \/ ArchiveIdle(c)
      BY <2>m, <2>4
         DEF Archiving, Quitting, Moves, MovesAlone, MovesWithHandle, MovesWithRecord, Moved, GoesTo, AfterQuit,
             NoCall, Agrees
    <3>2. CASE ArchiveIdle(c)
      <4>1. /\ calls[c].h \in 1..Len(actors) /\ actors[calls[c].h].state = "live"
            /\ ~actors[calls[c].h].turn
        BY <1>0, <3>2, CallType, StepNames DEF ArchiveIdle, Asks, At, None
      <4>2. \A a \in 1..Len(actors) : Serving(a) => a = calls[c].h
        BY <4>1, ServesAlone DEF Serving
      <4> QED BY <4>1, <4>2 DEF Runs, Serving
    <3> QED BY <3>1, <3>2
  <2> QED BY <1>0, <1>1, <2>1, <2>2, <2>3, <2>4, QuietBy
<1> QED BY <1>2, <1>3, <1>4

LEMMA QuietNext == ASSUME Exclusive PROVE QuietInv /\ [Next]_vars => QuietInv'
<1> SUFFICES ASSUME QuietInv, [Next]_vars PROVE QuietInv'
  OBVIOUS
<1>0. LoadInv /\ ServiceInv /\ QuietParts /\ CallsType /\ RestType /\ CallsInv /\ ClosersWait
  BY TypeSplit DEF QuietInv, QuietParts, LoadInv, ServiceInv, BaseInv
<1>1. LoadInv'
  BY <1>0, LoadNext
<1>2. ASSUME NEW c \in Callers, Step(c) PROVE QuietParts'
  BY <1>0, <1>2, QuietStep
<1>3. ASSUME NEW c \in Callers, NEW op \in Ops, Begin(c, op) PROVE QuietParts'
  <2>1. /\ calls'[c].op = op /\ UNCHANGED <<disk, actors>>
        /\ calls'[c].pc = IF op \in Mutating THEN "mlock"
                          ELSE IF op = "open" THEN "look"
                          ELSE IF op = "unload" THEN "find" ELSE "scan"
        /\ \A d \in Callers \ {c} : calls'[d] = calls[d]
    BY <1>0, <1>3, BeginMoves
  <2>2. ~Prompting(calls'[c].op, calls'[c].pc) /\ ~Archiving(calls'[c].op, calls'[c].pc)
    BY <2>1 DEF Prompting, Archiving, Mutating, Loading, Quitting
  <2>3. RunsFewer
    BY <2>1 DEF RunsFewer, RunsIn, Runs
  <2> QED BY <1>0, <2>1, <2>2, <2>3, QuietBy
<1>4. ASSUME NEW a \in 1..Len(actors), Actor(a) PROVE QuietParts'
  <2>1. /\ disk' = disk \/ SavesActor
        /\ \A c \in Callers : \/ calls'[c] = calls[c] \/ calls'[c] = NoCall
                              \/ calls[c].pc = "await" /\ GoesTo(c, AfterQuit(c))
    BY <1>0, <1>4, ActorWrites
  <2>2. disk'.where = "archived" => disk.where = "archived"
    BY <2>1 DEF SavesActor, Saved
  <2>3. \A c \in Callers :
          \/ calls'[c] = calls[c]
          \/ /\ ~Prompting(calls'[c].op, calls'[c].pc)
             /\ Archiving(calls'[c].op, calls'[c].pc) => Archiving(calls[c].op, calls[c].pc)
    BY <2>1 DEF Prompting, Archiving, Quitting, Loading, NoCall, GoesTo, AfterQuit
  <2>4. RunsFewer
    <3>1. CASE TurnSaves(a)
      BY <3>1 DEF TurnSaves, RunsFewer, RunsIn, Runs
    <3>2. CASE TurnEnds(a)
      BY <1>0, <3>2, TurnEndsActors DEF RunsFewer, RunsIn, Runs
    <3>3. CASE Terminates(a)
      BY <1>0, <3>3, TerminatesActors DEF RunsFewer, RunsIn, Runs
    <3>4. CASE Closes(a)
      <4>1. actors[a].closer \in Callers /\ Stops(a, actors[a].closer)
        BY <1>0, <3>4, ClosesActors
      <4> QED BY <1>0, <4>1, StopsActors DEF RunsFewer, RunsIn, Runs
    <3> QED BY <1>4, <3>1, <3>2, <3>3, <3>4 DEF Actor
  <2> QED BY <1>0, <2>2, <2>3, <2>4, QuietBy
<1>5. ASSUME UNCHANGED vars PROVE QuietParts'
  <2>1. RunsFewer /\ disk' = disk
    BY <1>5 DEF vars, RunsFewer, RunsIn, Runs
  <2>2. \A d \in Callers : calls'[d] = calls[d]
    BY <1>5 DEF vars
  <2> QED BY <1>0, <2>1, <2>2, QuietBy
<1> QED BY <1>1, <1>2, <1>3, <1>4, <1>5 DEF QuietInv, QuietParts, Next

(* No turn runs on an archived session, although archive looks at the phase  *)
(* two awaits before it moves the directory: it holds the mutation lock all  *)
(* the while, and a prompt needs it to start a turn.                         *)
THEOREM ArchivedStaysQuiet == ASSUME Exclusive PROVE Spec => []ArchivedIsQuiet
<1>1. Init => QuietInv
  <2> SUFFICES ASSUME Init PROVE PromptsSeeActive /\ ArchiveSawIdle /\ ArchivedIsQuiet
    BY LoadInit DEF QuietInv
  <2> QED BY DEF Init, PromptsSeeActive, ArchiveSawIdle, ArchivedIsQuiet
<1>2. QuietInv => ArchivedIsQuiet
  BY DEF QuietInv
<1> QED BY <1>1, <1>2, QuietNext, PTL DEF Spec

=============================================================================
